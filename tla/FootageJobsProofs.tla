-------------------------- MODULE FootageJobsProofs --------------------------
(* Proofs about FootageJobs, for every value of its constants.              *)
EXTENDS FootageJobs, TLAPS

LEMMA ConstantTypes ==
    /\ None \notin Videos
    /\ Length \in Nat /\ Length >= 1 /\ MaxAttempts \in Nat /\ MaxAttempts >= 1
    /\ StaleAfter \in Nat /\ MaxQuiet \in Nat /\ MaxReanalyses \in Nat /\ MaxFaults \in Nat
    /\ 1 \in Seconds /\ Original \notin Seconds
    /\ 0 \in 0 .. (StaleAfter + 1) /\ 0 \in 0..MaxAttempts /\ 0 \in 0..MaxQuiet
BY NoneAssumption, BoundsAssumption DEF Seconds, Original

-----------------------------------------------------------------------------
(* Types.                                                                   *)

VideoState == [status : Statuses, attempts : 0..MaxAttempts, age : 0 .. StaleAfter + 1,
               whole : BOOLEAN]

WorkerState == [at : {"idle", "probe", "files", "rows", "picture", "row", "finish", "stuck"},
                video : Videos \cup {None}, second : Seconds, quiet : 0..MaxQuiet]

Typed ==
    /\ video \in [Videos -> VideoState]
    /\ held \in SUBSET Videos
    /\ rows \in [Videos -> SUBSET Seconds]
    /\ files \in [Videos -> SUBSET (Seconds \cup {Original})]
    /\ copying \in [Videos -> {"no", "copying", "copied", "broken"}]
    /\ worker \in [Workers -> WorkerState]
    /\ \A w \in Workers : worker[w].at = "idle" <=> worker[w].video = None
    /\ purge \in [list : SUBSET Videos, video : Videos \cup {None}]
    /\ asked \in SUBSET Videos /\ short \in SUBSET Videos
    /\ overrun \in SUBSET Videos /\ cut \in SUBSET Videos /\ late \in SUBSET Videos
    /\ reanalyses \in 0..MaxReanalyses /\ faults \in 0..MaxFaults

LEMMA TypedIsTypeOK == /\ TypeOK <=> Typed
                       /\ TypeOK' <=> Typed'
BY DEF TypeOK, Typed, VideoState, WorkerState

\* The ways in which the row of a video is written keep its type.
LEMMA RowTypes ==
    ASSUME NEW r \in VideoState
    PROVE  /\ \A status \in Statuses :
                [r EXCEPT !.status = status, !.age = 0, !.whole = FALSE] \in VideoState
           /\ \A status \in Statuses, n \in 0..MaxAttempts :
                [r EXCEPT !.status = status, !.attempts = n, !.age = 0] \in VideoState
           /\ \A age \in 0 .. (StaleAfter + 1) : [r EXCEPT !.age = age] \in VideoState
           /\ \A whole \in BOOLEAN : [r EXCEPT !.whole = whole] \in VideoState
<1>0. 0 \in 0 .. (StaleAfter + 1)
  BY ConstantTypes
<1>1. \A status \in Statuses :
        [r EXCEPT !.status = status, !.age = 0, !.whole = FALSE] \in VideoState
  BY <1>0, Zenon DEF VideoState
<1>2. \A status \in Statuses, n \in 0..MaxAttempts :
        [r EXCEPT !.status = status, !.attempts = n, !.age = 0] \in VideoState
  BY <1>0, Zenon DEF VideoState
<1>3. \A age \in 0 .. (StaleAfter + 1) : [r EXCEPT !.age = age] \in VideoState
  BY Zenon DEF VideoState
<1>4. \A whole \in BOOLEAN : [r EXCEPT !.whole = whole] \in VideoState
  BY Zenon DEF VideoState
<1> QED  BY <1>1, <1>2, <1>3, <1>4

LEMMA NewTypes ==
    /\ NoVideo \in VideoState /\ NoVideo.status = "NONE" /\ NoVideo.attempts = 0
    /\ [NoVideo EXCEPT !.status = "GONE"] \in VideoState
    /\ [NoVideo EXCEPT !.status = "GONE"].status = "GONE" /\ [NoVideo EXCEPT !.status = "GONE"].attempts = 0
    /\ Idle \in WorkerState /\ Idle.at = "idle" /\ Idle.video = None /\ Idle.second = 1
<1>1. NoVideo \in VideoState /\ NoVideo.status = "NONE" /\ NoVideo.attempts = 0
  BY ConstantTypes DEF NoVideo, VideoState, Statuses
<1>2. ASSUME NEW r \in VideoState PROVE [r EXCEPT !.status = "GONE"] \in VideoState
  BY <1>2 DEF VideoState, Statuses
<1>3. [NoVideo EXCEPT !.status = "GONE"].status = "GONE" /\ [NoVideo EXCEPT !.status = "GONE"].attempts = 0
  BY DEF NoVideo
<1>4. Idle \in WorkerState /\ Idle.at = "idle" /\ Idle.video = None /\ Idle.second = 1
  BY ConstantTypes DEF Idle, WorkerState
<1> QED  BY <1>1, <1>2, <1>3, <1>4

\* A video that waits has an attempt left; one that is arriving has them all.
Tries == \A v \in Videos :
    /\ Is(v, "QUEUED") => video[v].attempts < MaxAttempts
    /\ Arriving(v) \/ Is(v, "NONE") => video[v].attempts = 0

TypeInv == Typed /\ Tries

\* A worker that hangs does nothing more to the video it was given.
Holds(w, v) == worker[w].video = v /\ worker[w].at # "stuck"

\* The ways in which the row of v changes.
RowStep(v) ==
    \/ video'[v].status = video[v].status /\ video'[v].attempts = video[v].attempts
    \/ /\ Is(v, "NONE") /\ video'[v].status \in {"UPLOADING", "COPYING"} /\ video'[v].attempts = video[v].attempts
    \/ /\ Arriving(v) /\ video'[v].status \in {"QUEUED", "FAILED"} /\ video'[v].attempts = video[v].attempts
    \/ /\ Is(v, "READY") \/ Is(v, "FAILED")
       /\ video'[v].status = "QUEUED" /\ video'[v].attempts = 0
    \/ /\ Is(v, "QUEUED") /\ video'[v].status = "PROCESSING"
    \/ /\ Is(v, "PROCESSING") /\ video'[v].attempts = video[v].attempts
       /\ video'[v].status \in {"READY", "FAILED"} \/ (video'[v].status = "QUEUED" /\ video[v].attempts < MaxAttempts)
       /\ worker' # worker \/ (video'[v].status # "READY" /\ (v \in overrun' \/ \A w \in Workers : ~Holds(w, v)))
    \/ /\ video'[v].status = "GONE" /\ v \notin held'
       /\ (files'[v] = {} /\ v \in cut') \/ (purge.video = v /\ files' = files)

\* A row that is written keeps the others as they are.
LEMMA OneRow ==
    ASSUME Typed, NEW v \in Videos, NEW r \in VideoState, video' = [video EXCEPT ![v] = r]
    PROVE  /\ video' \in [Videos -> VideoState] /\ video'[v] = r
           /\ \A u \in Videos \ {v} : video'[u] = video[u] /\ RowStep(u)
BY DEF Typed, RowStep

\* A status is written, and what belongs to the last one reset.
LEMMA BecomesType ==
    ASSUME Typed, NEW v \in Videos, NEW status \in Statuses, Becomes(v, status)
    PROVE  /\ video' \in [Videos -> VideoState] /\ video'[v].status = status
           /\ video'[v].attempts = video[v].attempts
           /\ \A u \in Videos \ {v} : video'[u] = video[u] /\ RowStep(u)
<1> DEFINE r == [video[v] EXCEPT !.status = status, !.age = 0, !.whole = FALSE]
<1>0. video[v] \in VideoState
  BY DEF Typed
<1>1. r \in VideoState
  BY <1>0, RowTypes
<1>2. r.status = status /\ r.attempts = video[v].attempts
  BY <1>0 DEF VideoState
<1>3. video' = [video EXCEPT ![v] = r]
  BY Zenon DEF Becomes
<1> HIDE DEF r
<1> QED  BY <1>1, <1>2, <1>3, OneRow

LEMMA GoneType ==
    ASSUME Typed, NEW v \in Videos, Gone(v)
    PROVE  /\ video' \in [Videos -> VideoState] /\ held' = held \ {v} /\ rows' \in [Videos -> SUBSET Seconds]
           /\ video'[v].status = "GONE" /\ \A u \in Videos \ {v} : RowStep(u)
           /\ \A u \in Videos \ {v} : video'[u] = video[u] /\ rows'[u] = rows[u]
           /\ (files'[v] = {} /\ v \in cut') \/ (purge.video = v /\ files' = files) => RowStep(v)
<1>1. video' = [video EXCEPT ![v] = [NoVideo EXCEPT !.status = "GONE"]] /\ held' = held \ {v}
      /\ rows' = [rows EXCEPT ![v] = {}]
  BY DEF Gone
<1>2. /\ video' \in [Videos -> VideoState] /\ video'[v].status = "GONE"
      /\ \A u \in Videos \ {v} : video'[u] = video[u] /\ RowStep(u)
  BY <1>1, NewTypes, OneRow
<1>3. rows' \in [Videos -> SUBSET Seconds] /\ \A u \in Videos \ {v} : rows'[u] = rows[u]
  BY <1>1 DEF Typed
<1> QED  BY <1>1, <1>2, <1>3 DEF RowStep

LEMMA TypeInit == Init => TypeInv
<1> SUFFICES ASSUME Init PROVE TypeInv
  OBVIOUS
<1>1. Typed
  BY NewTypes, ConstantTypes DEF Init, Typed
<1>2. Tries
  BY NewTypes, ConstantTypes DEF Init, Tries, Is, Arriving
<1> QED  BY <1>1, <1>2 DEF TypeInv

-----------------------------------------------------------------------------
(* The steps of the API and of the clock.                                   *)

LEMMA RequestTypes ==
    ASSUME Typed, NEW v \in Videos, API(v)
    PROVE  Typed' /\ \A u \in Videos : RowStep(u)
<1> USE ConstantTypes
<1>0. video[v] \in VideoState /\ {"UPLOADING", "COPYING", "QUEUED", "FAILED"} \subseteq Statuses
  BY DEF Typed, Statuses
\* Most requests write the row, and a little beside it.
<1>1. ASSUME video' \in [Videos -> VideoState], held' \in SUBSET Videos,
             files' \in [Videos -> SUBSET (Seconds \cup {Original})], asked' \in SUBSET Videos,
             copying' \in [Videos -> {"no", "copying", "copied", "broken"}],
             late' \in SUBSET Videos, reanalyses' \in 0..MaxReanalyses, faults' \in 0..MaxFaults,
             UNCHANGED <<rows, worker, purge, overrun, cut, short>>
      PROVE  Typed'
  BY <1>1 DEF Typed
<1>2. ASSUME UNCHANGED video PROVE video' \in [Videos -> VideoState] /\ \A u \in Videos : RowStep(u)
  BY <1>2 DEF Typed, RowStep
<1>3. CASE StartUpload(v)
  <2>1. Is(v, "NONE") /\ Becomes(v, "UPLOADING")
    BY <1>3 DEF StartUpload
  <2>2. video' \in [Videos -> VideoState] /\ \A u \in Videos : RowStep(u)
    BY <1>0, <2>1, BecomesType DEF RowStep
  <2> QED  BY <1>1, <1>3, <2>2 DEF StartUpload, Typed
<1>4. CASE SendPart(v)
  <2>1. PICK whole \in BOOLEAN : video' = [video EXCEPT ![v].whole = whole]
    BY <1>4 DEF SendPart
  <2> DEFINE r == [video[v] EXCEPT !.whole = whole]
  <2>2. r \in VideoState
    BY <1>0, RowTypes
  <2>3. r.status = video[v].status /\ r.attempts = video[v].attempts
    BY <1>0 DEF VideoState
  <2>4. video' = [video EXCEPT ![v] = r]
    BY <2>1, Zenon
  <2> HIDE DEF r
  <2>5. video' \in [Videos -> VideoState] /\ \A u \in Videos : RowStep(u)
    BY <2>2, <2>3, <2>4, OneRow DEF RowStep
  <2> QED  BY <1>1, <1>4, <2>5 DEF SendPart, Typed
<1>5. CASE FinishUpload(v)
  <2>1. Is(v, "UPLOADING") /\ Becomes(v, "QUEUED")
    BY <1>5 DEF FinishUpload
  <2>2. video' \in [Videos -> VideoState] /\ \A u \in Videos : RowStep(u)
    BY <1>0, <2>1, BecomesType DEF RowStep, Arriving
  <2> QED  BY <1>1, <1>5, <2>2 DEF FinishUpload, Typed
<1>6. CASE AnalyseRecording(v)
  <2>1. Is(v, "NONE") /\ Becomes(v, "COPYING")
    BY <1>6 DEF AnalyseRecording
  <2>2. video' \in [Videos -> VideoState] /\ \A u \in Videos : RowStep(u)
    BY <1>0, <2>1, BecomesType DEF RowStep
  <2> QED  BY <1>1, <1>6, <2>2 DEF AnalyseRecording, Typed
<1>7. CASE CopyIn(v)
  <2>1. files' \in [Videos -> SUBSET (Seconds \cup {Original})] /\ late' \in SUBSET Videos
    BY <1>7 DEF CopyIn, Written, Typed
  <2> QED  BY <1>1, <1>2, <1>7, <2>1 DEF CopyIn, Typed
<1>8. CASE CopyFails(v)
  <2>1. faults' \in 0..MaxFaults
    BY <1>8 DEF CopyFails, Breaks, Typed
  <2> QED  BY <1>1, <1>2, <1>8, <2>1 DEF CopyFails, Typed
<1>9. CASE EndCopy(v)
  <2>1. video' \in [Videos -> VideoState] /\ \A u \in Videos : RowStep(u)
    <3>1. CASE Is(v, "COPYING")
      <4>1. PICK status \in {"QUEUED", "FAILED"} : Becomes(v, status)
        BY <1>9, <3>1 DEF EndCopy
      <4> QED  BY <1>0, <3>1, <4>1, BecomesType DEF RowStep, Arriving
    <3>2. CASE ~Is(v, "COPYING")
      BY <1>2, <1>9, <3>2 DEF EndCopy
    <3> QED  BY <3>1, <3>2
  <2> QED  BY <1>1, <1>9, <2>1 DEF EndCopy, Typed
<1>10. CASE Reanalyse(v)
  <2> DEFINE r == [video[v] EXCEPT !.status = "QUEUED", !.attempts = 0, !.age = 0]
  <2>1. r \in VideoState
    BY <1>0, RowTypes
  <2>2. r.status = "QUEUED" /\ r.attempts = 0
    BY <1>0 DEF VideoState
  <2>3. video' = [video EXCEPT ![v] = r]
    BY <1>10, Zenon DEF Reanalyse
  <2> HIDE DEF r
  <2>4. video' \in [Videos -> VideoState] /\ \A u \in Videos : RowStep(u)
    <3>1. video' \in [Videos -> VideoState] /\ video'[v] = r /\ \A u \in Videos \ {v} : RowStep(u)
      BY <2>1, <2>3, OneRow
    <3>2. RowStep(v)
      BY <1>10, <2>2, <3>1 DEF RowStep, Reanalyse
    <3> QED  BY <3>1, <3>2
  <2>5. reanalyses' \in 0..MaxReanalyses
    BY <1>10 DEF Reanalyse, Typed
  <2> QED  BY <1>1, <1>10, <2>4, <2>5 DEF Reanalyse, Typed
<1>11. CASE Hold(v) \/ LiftHold(v)
  BY <1>1, <1>2, <1>11 DEF Hold, LiftHold, Typed
<1>12. CASE AskDelete(v)
  BY <1>1, <1>2, <1>12 DEF AskDelete, Typed
<1>13. CASE Delete(v) \/ CancelUpload(v)
  <2>0. asked' \in SUBSET Videos
    BY <1>13 DEF Delete, CancelUpload, Typed
  <2>1. CASE Remove(v)
    <3>1. files' \in [Videos -> SUBSET (Seconds \cup {Original})] /\ cut' \in SUBSET Videos
      BY <2>1 DEF Remove, Typed
    <3>2. UNCHANGED <<copying, worker, purge, overrun, late, short, reanalyses>>
      BY <2>1 DEF Remove
    <3>3. CASE Gone(v) /\ UNCHANGED faults
      <4>1. files'[v] = {} /\ v \in cut'
        BY <2>1 DEF Remove, Typed
      <4> QED  BY <2>0, <3>1, <3>2, <3>3, <4>1, GoneType DEF Typed
    <3>4. CASE Breaks /\ UNCHANGED <<video, held, rows>>
      BY <1>2, <2>0, <3>1, <3>2, <3>4 DEF Breaks, Typed
    <3> QED  BY <2>1, <3>3, <3>4 DEF Remove
  <2>2. CASE ~Remove(v)
    <3>1. UNCHANGED <<video, held, rows, files, copying, worker, purge, overrun, cut, late, short, reanalyses, faults>>
      BY <1>13, <2>2 DEF Delete, CancelUpload
    <3> QED  BY <1>1, <1>2, <2>0, <3>1 DEF Typed
  <2> QED  BY <2>1, <2>2
<1> QED  BY <1>3, <1>4, <1>5, <1>6, <1>7, <1>8, <1>9, <1>10, <1>11, <1>12, <1>13 DEF API

LEMMA WorldTypes ==
    ASSUME Typed, RestartAPI \/ Removal \/ Tick \/ UNCHANGED vars
    PROVE  Typed' /\ \A u \in Videos : RowStep(u)
<1> USE ConstantTypes
<1>1. ASSUME UNCHANGED video PROVE video' \in [Videos -> VideoState] /\ \A u \in Videos : RowStep(u)
  BY <1>1 DEF Typed, RowStep
<1>2. CASE RestartAPI
  <2>1. copying' \in [Videos -> {"no", "copying", "copied", "broken"}] /\ faults' \in 0..MaxFaults
        /\ asked' \in SUBSET Videos
    BY <1>2 DEF RestartAPI, Breaks, Typed
  <2> QED  BY <1>1, <1>2, <2>1 DEF RestartAPI, Typed
<1>3. CASE ListDue
  <2>1. purge' \in [list : SUBSET Videos, video : Videos \cup {None}]
    BY <1>3 DEF ListDue, Typed
  <2> QED  BY <1>1, <1>3, <2>1 DEF ListDue, Typed
<1>4. ASSUME NEW v \in Videos, RemoveFiles(v) PROVE Typed' /\ \A u \in Videos : RowStep(u)
  <2>1. /\ purge' \in [list : SUBSET Videos, video : Videos \cup {None}]
        /\ files' \in [Videos -> SUBSET (Seconds \cup {Original})] /\ cut' \in SUBSET Videos
    BY <1>4 DEF RemoveFiles, Typed
  <2> QED  BY <1>1, <1>4, <2>1 DEF RemoveFiles, Typed
<1>5. purge.video # None => purge.video \in Videos
  BY DEF Typed
<1>6. ASSUME Removed PROVE purge' \in [list : SUBSET Videos, video : Videos \cup {None}]
  BY <1>6 DEF Removed, Typed
<1>7. CASE RemoveRow
  <2>1. Gone(purge.video) /\ purge.video \in Videos
    BY <1>5, <1>7 DEF RemoveRow
  <2>2. files' = files
    BY <1>7 DEF RemoveRow
  <2> QED  BY <1>6, <1>7, <2>1, <2>2, GoneType DEF RemoveRow, Typed
<1>8. CASE RemovalFails
  BY <1>1, <1>6, <1>8 DEF RemovalFails, Breaks, Typed
<1>9. CASE Tick
  <2>1. ASSUME NEW v \in Videos
        PROVE  video'[v] \in VideoState /\ RowStep(v)
    <3>0. video[v] \in VideoState
      BY DEF Typed
    <3>1. CASE Is(v, "PROCESSING") /\ video[v].age <= StaleAfter
      <4> DEFINE r == [video[v] EXCEPT !.age = video[v].age + 1]
      <4>1. video'[v] = r
        BY <1>9, <3>1 DEF Tick
      <4>2. video[v].age + 1 \in 0 .. (StaleAfter + 1)
        BY <3>0, <3>1 DEF VideoState
      <4>3. r \in VideoState
        BY <3>0, <4>2, RowTypes
      <4>4. r.status = video[v].status /\ r.attempts = video[v].attempts
        BY <3>0 DEF VideoState
      <4> HIDE DEF r
      <4> QED  BY <4>1, <4>3, <4>4 DEF RowStep
    <3>2. CASE ~(Is(v, "PROCESSING") /\ video[v].age <= StaleAfter)
      <4>1. video'[v] = video[v]
        BY <1>9, <3>2 DEF Tick
      <4> QED  BY <3>0, <4>1 DEF RowStep
    <3> QED  BY <3>1, <3>2
  <2>2. ASSUME NEW w \in Workers
        PROVE  /\ worker'[w] \in WorkerState
               /\ worker'[w].at = "idle" <=> worker'[w].video = None
    <3>0. worker[w] \in WorkerState /\ (worker[w].at = "idle" <=> worker[w].video = None)
      BY DEF Typed
    <3>1. CASE ~Busy(w)
      BY <1>9, <3>0, <3>1 DEF Tick
    <3>2. CASE Busy(w)
      <4>1. worker[w].quiet + 1 \in 0..MaxQuiet
        BY <1>9, <3>0, <3>2 DEF Tick, WorkerState
      <4>2. worker'[w] = [worker[w] EXCEPT !.quiet = worker[w].quiet + 1]
        BY <1>9, <3>2 DEF Tick
      <4> QED  BY <3>0, <4>1, <4>2 DEF WorkerState
    <3> QED  BY <3>1, <3>2
  <2>3. video' \in [Videos -> VideoState] /\ worker' \in [Workers -> WorkerState]
    BY <1>9, <2>1, <2>2 DEF Tick
  <2> QED  BY <1>9, <2>1, <2>2, <2>3 DEF Tick, Typed
<1>10. CASE UNCHANGED vars
  BY <1>1, <1>10 DEF vars, Typed
<1> QED  BY <1>2, <1>3, <1>4, <1>7, <1>8, <1>9, <1>10 DEF Removal

-----------------------------------------------------------------------------
(* The steps of the workers.                                                *)

\* Whatever a worker writes to the row, progress or an end.
LEMMA ProgressType ==
    ASSUME Typed, NEW v \in Videos, Progress(v)
    PROVE  video' \in [Videos -> VideoState] /\ \A u \in Videos : RowStep(u)
<1> DEFINE r == [video[v] EXCEPT !.age = 0]
<1>0. video[v] \in VideoState
  BY DEF Typed
<1>1. CASE Exists(v)
  <2>1. r \in VideoState
    BY <1>0, RowTypes, ConstantTypes
  <2>2. r.status = video[v].status /\ r.attempts = video[v].attempts
    BY <1>0 DEF VideoState
  <2>3. video' = [video EXCEPT ![v] = r]
    BY <1>1, Zenon DEF Progress
  <2> HIDE DEF r
  <2> QED  BY <2>1, <2>2, <2>3, OneRow DEF RowStep
<1>2. CASE ~Exists(v)
  BY <1>2 DEF Progress, Typed, RowStep
<1> QED  BY <1>1, <1>2

LEMMA EndType ==
    ASSUME Typed, NEW v \in Videos, NEW status \in {"READY", "FAILED", "QUEUED"},
           status = "QUEUED" => video[v].attempts < MaxAttempts, worker' # worker, IfProcessing(v, status)
    PROVE  /\ video' \in [Videos -> VideoState] /\ \A u \in Videos : RowStep(u)
           /\ Is(v, "PROCESSING") => video'[v].status = status
           /\ ~Is(v, "PROCESSING") => video' = video
           /\ \A u \in Videos \ {v} : video'[u] = video[u]
<1>1. CASE Is(v, "PROCESSING")
  <2>1. Becomes(v, status) /\ status \in Statuses
    BY <1>1 DEF IfProcessing, Statuses
  <2> QED  BY <1>1, <2>1, BecomesType DEF RowStep
<1>2. CASE ~Is(v, "PROCESSING")
  BY <1>2 DEF IfProcessing, Typed, RowStep
<1> QED  BY <1>1, <1>2

\* A worker goes on, or leaves.
LEMMA WorkerTypes ==
    ASSUME Typed, NEW w \in Workers
    PROVE  /\ \A place \in {"files", "rows", "picture", "row", "finish"} :
                worker[w].at # "idle" /\ Step(w, place) =>
                  /\ worker' \in [Workers -> WorkerState] /\ worker'[w].at = place
                  /\ worker'[w].video = worker[w].video /\ worker'[w].second = worker[w].second
                  /\ \A v \in Workers \ {w} : worker'[v] = worker[v]
           /\ Leave(w) =>
                  /\ worker' \in [Workers -> WorkerState] /\ worker'[w] = Idle
                  /\ \A v \in Workers \ {w} : worker'[v] = worker[v]
           /\ worker[w].at # "idle" <=> worker[w].video \in Videos
<1>1. worker \in [Workers -> WorkerState] /\ (worker[w].at = "idle" <=> worker[w].video = None)
  BY DEF Typed
<1>2. ASSUME NEW place \in {"files", "rows", "picture", "row", "finish"}, Step(w, place)
      PROVE  /\ worker' \in [Workers -> WorkerState] /\ worker'[w].at = place
             /\ worker'[w].video = worker[w].video /\ worker'[w].second = worker[w].second
             /\ \A v \in Workers \ {w} : worker'[v] = worker[v]
  BY <1>1, <1>2, ConstantTypes DEF Step, WorkerState
<1>3. Leave(w) => /\ worker' \in [Workers -> WorkerState] /\ worker'[w] = Idle
                  /\ \A v \in Workers \ {w} : worker'[v] = worker[v]
  BY <1>1, NewTypes DEF Leave
<1>4. worker[w].at # "idle" <=> worker[w].video \in Videos
  BY <1>1, ConstantTypes DEF WorkerState
<1> QED  BY <1>2, <1>3, <1>4

LEMMA WorkTypes ==
    ASSUME TypeInv, NEW w \in Workers, Work(w) \/ Hang(w) \/ Crash(w)
    PROVE  Typed' /\ \A u \in Videos : RowStep(u)
<1> USE ConstantTypes
<1>0. Typed /\ Tries
  BY DEF TypeInv
<1>1. ASSUME UNCHANGED video PROVE video' \in [Videos -> VideoState] /\ \A u \in Videos : RowStep(u)
  BY <1>0, <1>1 DEF Typed, RowStep
<1>2. ASSUME video' \in [Videos -> VideoState], worker' \in [Workers -> WorkerState],
             worker'[w].at = "idle" <=> worker'[w].video = None, \A v \in Workers \ {w} : worker'[v] = worker[v],
             UNCHANGED <<held, copying, purge, asked, cut, reanalyses>>, short' \in SUBSET Videos,
             files' \in [Videos -> SUBSET (Seconds \cup {Original})], rows' \in [Videos -> SUBSET Seconds],
             late' \in SUBSET Videos, overrun' \in SUBSET Videos, faults' \in 0..MaxFaults
      PROVE  Typed'
  BY <1>0, <1>2 DEF Typed
<1>3. worker[w].at # "idle" <=> worker[w].video \in Videos
  BY <1>0, WorkerTypes
<1>4. ASSUME NEW place \in {"files", "rows", "picture", "row", "finish"}, worker[w].at # "idle", Step(w, place)
      PROVE  /\ worker' \in [Workers -> WorkerState] /\ (worker'[w].at = "idle" <=> worker'[w].video = None)
             /\ \A v \in Workers \ {w} : worker'[v] = worker[v]
  BY <1>0, <1>3, <1>4, WorkerTypes
<1>5. ASSUME Leave(w)
      PROVE  /\ worker' \in [Workers -> WorkerState] /\ (worker'[w].at = "idle" <=> worker'[w].video = None)
             /\ \A v \in Workers \ {w} : worker'[v] = worker[v]
  BY <1>0, <1>5, WorkerTypes, NewTypes
<1>6. ASSUME NEW v \in Videos, Release(w, v) PROVE Typed' /\ \A u \in Videos : RowStep(u)
  <2>1. PICK status \in {"FAILED", "QUEUED"} :
          Becomes(v, status) /\ (status = "QUEUED" => ~(video[v].attempts >= MaxAttempts))
    BY <1>6 DEF Release
  <2>2. status \in Statuses /\ video[v].attempts \in Nat
    BY <1>0 DEF Statuses, Typed, VideoState
  <2>3. video' \in [Videos -> VideoState] /\ \A u \in Videos : RowStep(u)
    <3>1. /\ video' \in [Videos -> VideoState] /\ video'[v].status = status /\ video'[v].attempts = video[v].attempts
          /\ \A u \in Videos \ {v} : RowStep(u)
      BY <1>0, <2>1, <2>2, BecomesType
    <3>2. Is(v, "PROCESSING") /\ (v \in overrun' \/ \A u \in Workers : ~Holds(u, v))
      BY <1>6 DEF Release, Stale, Holds
    <3>3. status = "QUEUED" => video[v].attempts < MaxAttempts
      BY <2>1, <2>2
    <3>4. RowStep(v)
      BY <3>1, <3>2, <3>3 DEF RowStep
    <3> QED  BY <3>1, <3>4
  <2>4. overrun' \in SUBSET Videos
    BY <1>0, <1>6 DEF Release, Typed
  <2> QED  BY <1>0, <1>6, <2>3, <2>4 DEF Release, Typed
<1>7. ASSUME NEW v \in Videos, Claim(w, v) PROVE Typed' /\ \A u \in Videos : RowStep(u)
  <2>0. video[v] \in VideoState
    BY <1>0 DEF Typed
  <2> DEFINE r == [video[v] EXCEPT !.status = "PROCESSING", !.attempts = video[v].attempts + 1, !.age = 0]
             s == [Idle EXCEPT !.at = "probe", !.video = v]
  <2>1. video[v].attempts + 1 \in 0..MaxAttempts /\ "PROCESSING" \in Statuses
    BY <1>0, <1>7, <2>0 DEF Claim, Claimable, Tries, VideoState, Statuses
  <2>2. r \in VideoState
    BY <2>0, <2>1, RowTypes
  <2>3. r.status = "PROCESSING"
    BY <2>0 DEF VideoState
  <2>4. video' = [video EXCEPT ![v] = r]
    BY <1>7, Zenon DEF Claim
  <2>5. ASSUME NEW t \in WorkerState PROVE [t EXCEPT !.at = "probe", !.video = v] \in WorkerState
    BY DEF WorkerState
  <2>6. s \in WorkerState
    BY <2>5, NewTypes
  <2>7. s.at = "probe" /\ s.video = v
    BY NewTypes DEF WorkerState
  <2>8. worker' = [worker EXCEPT ![w] = s]
    BY <1>7 DEF Claim
  <2> HIDE DEF r, s
  <2>9. video' \in [Videos -> VideoState] /\ \A u \in Videos : RowStep(u)
    <3>1. video' \in [Videos -> VideoState] /\ video'[v] = r /\ \A u \in Videos \ {v} : RowStep(u)
      BY <1>0, <2>2, <2>4, OneRow
    <3>2. Is(v, "QUEUED")
      BY <1>7 DEF Claim, Claimable
    <3>3. RowStep(v)
      BY <2>3, <3>1, <3>2 DEF RowStep
    <3> QED  BY <3>1, <3>3
  <2>10. /\ worker' \in [Workers -> WorkerState] /\ worker'[w].at = "probe" /\ worker'[w].video = v
         /\ \A u \in Workers \ {w} : worker'[u] = worker[u]
    BY <1>0, <2>6, <2>7, <2>8 DEF Typed
  <2> QED  BY <1>0, <1>2, <1>7, <2>9, <2>10 DEF Claim, Typed
<1>8. CASE Probe(w)
  <2>1. Progress(worker[w].video) /\ worker[w].video \in Videos
    BY <1>3, <1>8 DEF Probe
  <2> QED  BY <1>0, <1>2, <1>4, <1>8, <2>1, ProgressType DEF Probe, Typed
<1>9. CASE ClearFiles(w)
  <2>1. files' \in [Videos -> SUBSET (Seconds \cup {Original})]
    BY <1>0, <1>9 DEF ClearFiles, Typed
  <2> QED  BY <1>0, <1>1, <1>2, <1>4, <1>9, <2>1 DEF ClearFiles, Typed
<1>10. CASE ClearRows(w)
  <2>1. rows' \in [Videos -> SUBSET Seconds] /\ short' \in SUBSET Videos
    BY <1>0, <1>10 DEF ClearRows, Typed
  <2> QED  BY <1>0, <1>1, <1>2, <1>4, <1>10, <2>1 DEF ClearRows, Typed
<1>11. CASE PutPicture(w)
  <2>1. worker[w].second \in Seconds
    BY <1>0 DEF Typed, WorkerState
  <2>2. files' \in [Videos -> SUBSET (Seconds \cup {Original})]
    BY <1>0, <1>11, <2>1 DEF PutPicture, Written, Typed
  <2>3. late' \in SUBSET Videos
    BY <1>0, <1>3, <1>11 DEF PutPicture, Written, Typed
  <2> QED  BY <1>0, <1>1, <1>2, <1>4, <1>11, <2>2, <2>3 DEF PutPicture, Typed
<1>12. CASE AddRow(w)
  <2>1. worker[w] \in WorkerState /\ worker[w].second \in Seconds /\ worker[w].video \in Videos
    BY <1>0, <1>3, <1>12 DEF AddRow, Typed, WorkerState
  <2>2. rows' \in [Videos -> SUBSET Seconds]
    BY <1>0, <1>12, <2>1 DEF AddRow, Typed
  <2>3. video' \in [Videos -> VideoState] /\ \A u \in Videos : RowStep(u)
    <3>1. Progress(worker[w].video) \/ UNCHANGED video
      BY <1>12 DEF AddRow
    <3> QED  BY <1>0, <1>1, <2>1, <3>1, ProgressType
  <2>4. /\ worker' \in [Workers -> WorkerState] /\ worker'[w].at # "idle"
        /\ worker'[w].video = worker[w].video /\ \A v \in Workers \ {w} : worker'[v] = worker[v]
    <3>1. PICK place \in {"picture", "finish"}, second \in Seconds :
            worker' = [worker EXCEPT ![w].at = place, ![w].second = second, ![w].quiet = 0]
      <4>1. worker[w].second < Length => worker[w].second + 1 \in Seconds
        BY <2>1 DEF Seconds
      <4> QED  BY <1>12, <2>1, <4>1 DEF AddRow
    <3> QED  BY <1>0, <2>1, <3>1 DEF Typed, WorkerState
  <2> QED  BY <1>0, <1>2, <1>12, <2>1, <2>2, <2>3, <2>4 DEF AddRow, Typed
<1>13. CASE ReaderEnds(w)
  <2>1. worker[w].at # "idle" /\ worker[w].video \in Videos
    BY <1>3, <1>13 DEF ReaderEnds
  <2>2. /\ faults' \in 0..MaxFaults /\ short' \in SUBSET Videos
        /\ UNCHANGED <<held, rows, files, copying, purge, asked, overrun, cut, late, reanalyses>>
    BY <1>0, <1>13, <2>1 DEF ReaderEnds, Breaks, Typed
  <2>3. CASE Step(w, "finish") /\ UNCHANGED video
    BY <1>0, <1>1, <1>2, <1>4, <2>1, <2>2, <2>3 DEF Typed
  <2>4. CASE Leave(w) /\ IfProcessing(worker[w].video, "FAILED")
    <3>1. worker' # worker
      BY <1>0, <2>1, <2>4, WorkerTypes, NewTypes
    <3> QED  BY <1>0, <1>2, <1>5, <2>1, <2>2, <2>4, <3>1, EndType DEF Typed
  <2> QED  BY <1>13, <2>3, <2>4 DEF ReaderEnds
<1>14. CASE Hang(w)
  <2> DEFINE r == [Idle EXCEPT !.at = "stuck", !.video = worker[w].video]
  <2>1. worker[w].video \in Videos
    BY <1>3, <1>14 DEF Hang
  <2>2. ASSUME NEW t \in WorkerState PROVE [t EXCEPT !.at = "stuck", !.video = worker[w].video] \in WorkerState
    BY <2>1 DEF WorkerState
  <2>3. r \in WorkerState
    BY <2>2, NewTypes
  <2>4. r.at = "stuck" /\ r.video = worker[w].video
    BY NewTypes DEF WorkerState
  <2>5. worker' = [worker EXCEPT ![w] = r]
    BY <1>14 DEF Hang
  <2> HIDE DEF r
  <2>6. /\ worker' \in [Workers -> WorkerState] /\ worker'[w].at = "stuck" /\ worker'[w].video = worker[w].video
        /\ \A u \in Workers \ {w} : worker'[u] = worker[u]
    BY <1>0, <2>3, <2>4, <2>5 DEF Typed
  <2> QED  BY <1>0, <1>1, <1>2, <1>14, <2>1, <2>6 DEF Hang, Typed
<1>15. CASE Finish(w) \/ Unreadable(w) \/ Stop(w)
  <2>1. PICK status \in {"READY", "FAILED", "QUEUED"} :
          IfProcessing(worker[w].video, status) /\ (status = "QUEUED" => video[worker[w].video].attempts < MaxAttempts)
    BY <1>15 DEF Finish, Unreadable, Stop
  <2>2. worker[w].video \in Videos
    BY <1>3, <1>15 DEF Finish, Unreadable, Stop
  <2>3. faults' \in 0..MaxFaults /\ Leave(w) /\ UNCHANGED <<held, rows, files, copying, purge, asked, overrun, cut, late, short, reanalyses>>
    BY <1>0, <1>15 DEF Finish, Unreadable, Stop, Breaks, Typed
  <2>4. worker' # worker
    BY <1>0, <1>3, <2>2, <2>3, WorkerTypes, NewTypes
  <2> QED  BY <1>0, <1>2, <1>5, <2>1, <2>2, <2>3, <2>4, EndType DEF Typed
<1>16. CASE Crash(w)
  <2>1. faults' \in 0..MaxFaults
    BY <1>0, <1>16 DEF Crash, Breaks, Typed
  <2> QED  BY <1>0, <1>1, <1>2, <1>5, <1>16, <2>1 DEF Crash, Typed
<1> QED  BY <1>6, <1>7, <1>8, <1>9, <1>10, <1>11, <1>12, <1>13, <1>14, <1>15, <1>16 DEF Work

-----------------------------------------------------------------------------
LEMMA TypeStep ==
    ASSUME TypeInv, [Next]_vars
    PROVE  TypeInv' /\ \A u \in Videos : RowStep(u)
<1>1. Typed' /\ \A u \in Videos : RowStep(u)
  BY RequestTypes, WorldTypes, WorkTypes DEF Next, TypeInv
<1>2. Tries'
  <2> SUFFICES ASSUME NEW v \in Videos
               PROVE  /\ video'[v].status = "QUEUED" => video'[v].attempts < MaxAttempts
                      /\ video'[v].status \in {"UPLOADING", "COPYING", "NONE"} => video'[v].attempts = 0
    BY DEF Tries, Is, Arriving
  <2>1. MaxAttempts >= 1 /\ MaxAttempts \in Nat
    BY ConstantTypes
  <2>2. /\ video[v].status = "QUEUED" => video[v].attempts < MaxAttempts
        /\ video[v].status \in {"UPLOADING", "COPYING", "NONE"} => video[v].attempts = 0
    BY DEF Tries, Is, Arriving, TypeInv
  <2> QED  BY <1>1, <2>1, <2>2 DEF RowStep, Is, Arriving
<1> QED  BY <1>1, <1>2 DEF TypeInv

\* Every variable keeps its type; attempts stay within MOST_ATTEMPTS.
THEOREM TypeCorrect == Spec => []TypeOK
<1>1. Init => TypeInv
  BY TypeInit
<1>2. TypeInv /\ [Next]_vars => TypeInv'
  BY TypeStep
<1>3. TypeInv => TypeOK
  BY TypedIsTypeOK DEF TypeInv
<1> QED  BY <1>1, <1>2, <1>3, PTL DEF Spec

-----------------------------------------------------------------------------
(* Files. Those of a video are removed before its row, and by nobody else;   *)
(* whatever appears afterwards is known to be late.                          *)

FileStep(v) ==
    /\ cut \subseteq cut' /\ late \subseteq late' /\ overrun \subseteq overrun'
    /\ Original \in files[v] /\ Original \notin files'[v] =>
         v \in purge.list \cup asked \/ v \notin held \/ Is(v, "UPLOADING")
    /\ files'[v] \subseteq files[v] \/ Is(v, "NONE") \/ (v \in cut => v \in late')
    /\ v \in cut' => v \in cut \/ Exists(v) \/ v \in purge.list
    /\ v \in purge'.list => v \in purge.list \/ Exists(v)
    /\ v \in purge'.list \cup asked' => v \in purge.list \cup asked \/ v \notin held
    /\ purge'.video = v => purge.video = v \/ (files'[v] = {} /\ v \in cut')
    /\ v \in held' => v \in held \/ (Exists(v) /\ ~Arriving(v) /\ video' = video)

LEMMA FileSteps ==
    ASSUME Typed, [Next]_vars, NEW v \in Videos
    PROVE  FileStep(v)
<1> USE ConstantTypes
<1>0. /\ files \in [Videos -> SUBSET (Seconds \cup {Original})] /\ purge.list \in SUBSET Videos
      /\ \A w \in Workers : worker[w].second \in Seconds
  BY DEF Typed, WorkerState
<1>1. ASSUME UNCHANGED <<files, purge, cut, late>>, asked' \subseteq asked, held' \subseteq held, overrun \subseteq overrun' PROVE FileStep(v)
  BY <1>1 DEF FileStep
<1>2. ASSUME NEW u \in Videos, SendPart(u) \/ FinishUpload(u) \/ AnalyseRecording(u) \/ CopyFails(u) \/ EndCopy(u)
                               \/ Reanalyse(u) \/ LiftHold(u)
      PROVE  FileStep(v)
  BY <1>1, <1>2 DEF SendPart, FinishUpload, AnalyseRecording, CopyFails, EndCopy, Reanalyse, LiftHold
<1>3. ASSUME NEW u \in Videos, StartUpload(u) PROVE FileStep(v)
  <2>1. UNCHANGED <<purge, asked, cut, late, held, overrun>> /\ Is(u, "NONE") /\ files' = [files EXCEPT ![u] = {Original}]
    BY <1>3 DEF StartUpload
  <2> QED  BY <1>0, <2>1 DEF FileStep
<1>4. ASSUME NEW u \in Videos, NEW file, Written(u, file), UNCHANGED <<purge, asked, cut, held, overrun>> PROVE FileStep(v)
  BY <1>0, <1>4 DEF Written, FileStep
<1>5. ASSUME NEW u \in Videos, CopyIn(u) PROVE FileStep(v)
  BY <1>4, <1>5 DEF CopyIn
<1>6. ASSUME NEW u \in Videos, Hold(u) PROVE FileStep(v)
  BY <1>6 DEF Hold, FileStep
<1>7. ASSUME NEW u \in Videos, AskDelete(u) \/ Delete(u) \/ CancelUpload(u) PROVE FileStep(v)
  <2>1. CASE Remove(u) /\ Exists(u) /\ (u \in asked \/ Is(u, "UPLOADING")) /\ asked' \subseteq asked
    <3>1. files' = [files EXCEPT ![u] = {}] /\ cut' = cut \cup {u} /\ UNCHANGED <<purge, late, overrun>>
      BY <2>1 DEF Remove
    <3>2. held' \subseteq held
      BY <2>1 DEF Remove, Gone
    <3> QED  BY <1>0, <2>1, <3>1, <3>2 DEF FileStep
  <2>2. CASE asked' \subseteq asked /\ UNCHANGED <<held, files, purge, overrun, cut, late>>
    BY <1>1, <2>2
  <2>3. CASE AskDelete(u)
    BY <2>3 DEF AskDelete, Deletable, FileStep
  <2> QED  BY <1>7, <2>1, <2>2, <2>3 DEF Delete, CancelUpload, Exists, Is
<1>8. CASE RestartAPI \/ Tick \/ UNCHANGED vars
  BY <1>1, <1>8 DEF RestartAPI, Tick, vars
<1>9. CASE ListDue
  BY <1>0, <1>9 DEF ListDue, Due, FileStep, Typed
<1>10. ASSUME NEW u \in Videos, RemoveFiles(u) PROVE FileStep(v)
  BY <1>0, <1>10 DEF RemoveFiles, FileStep, Typed
<1>11. CASE RemoveRow \/ RemovalFails
  <2>1. Removed /\ UNCHANGED <<files, asked, cut, late, overrun>>
    BY <1>11 DEF RemoveRow, RemovalFails
  <2>2. held' \subseteq held
    BY <1>11 DEF RemoveRow, RemovalFails, Gone
  <2>3. purge'.list \subseteq purge.list /\ purge'.video = None
    BY <2>1 DEF Removed
  <2> QED  BY <2>1, <2>2, <2>3 DEF FileStep
<1>12. ASSUME NEW w \in Workers, Work(w) \/ Hang(w) \/ Crash(w) PROVE FileStep(v)
  <2>1. ASSUME NEW u \in Videos, Release(w, u) PROVE FileStep(v)
    BY <1>1, <2>1 DEF Release
  <2>2. ASSUME NEW u \in Videos, Claim(w, u) PROVE FileStep(v)
    BY <1>1, <2>2 DEF Claim
  <2>3. CASE \/ Probe(w) \/ ClearRows(w) \/ AddRow(w) \/ ReaderEnds(w) \/ Hang(w)
             \/ Finish(w) \/ Unreadable(w) \/ Stop(w) \/ Crash(w)
    BY <1>1, <2>3 DEF Probe, ClearRows, AddRow, ReaderEnds, Hang, Finish, Unreadable, Stop, Crash
  <2>4. CASE ClearFiles(w)
    <3>1. worker[w].video \in Videos
      BY <2>4, WorkerTypes DEF ClearFiles
    <3> QED  BY <1>0, <2>4, <3>1 DEF ClearFiles, FileStep
  <2>5. CASE PutPicture(w)
    <3>1. worker[w].video \in Videos
      BY <2>5, WorkerTypes DEF PutPicture
    <3> QED  BY <1>4, <2>5, <3>1 DEF PutPicture
  <2> QED  BY <1>12, <2>1, <2>2, <2>3, <2>4, <2>5 DEF Work
<1> QED  BY <1>2, <1>3, <1>5, <1>6, <1>7, <1>8, <1>9, <1>10, <1>11, <1>12 DEF Next, API, Removal

Traced(v) ==
    /\ v \in purge.list \cup cut => ~Is(v, "NONE")
    /\ Is(v, "GONE") => v \in cut /\ (files[v] = {} \/ v \in late)
    /\ purge.video = v => v \in cut /\ (files[v] = {} \/ v \in late)
    /\ v \in held => Exists(v) /\ ~Arriving(v)

FilesInv == TypeInv /\ \A v \in Videos : Traced(v)

LEMMA FilesStep ==
    ASSUME FilesInv, [Next]_vars
    PROVE  FilesInv'
<1>1. TypeInv' /\ \A v \in Videos : RowStep(v) /\ FileStep(v)
  BY TypeStep, FileSteps DEF FilesInv, TypeInv
<1>2. ASSUME NEW v \in Videos PROVE Traced(v)'
  <2>1. Traced(v) /\ RowStep(v) /\ FileStep(v)
    BY <1>1 DEF FilesInv
  <2>2. ~Is(v, "NONE") => ~Is(v, "NONE")'
    BY <2>1 DEF RowStep, Is, Arriving
  <2>3. (v \in purge.list \cup cut => ~Is(v, "NONE"))'
    BY <2>1, <2>2 DEF Traced, FileStep, Exists, Is
  <2>4. v \in cut /\ (files[v] = {} \/ v \in late) => (v \in cut /\ (files[v] = {} \/ v \in late))'
    BY <2>1 DEF Traced, FileStep
  <2>5. (Is(v, "GONE") => v \in cut /\ (files[v] = {} \/ v \in late))'
    <3>1. CASE Is(v, "GONE") \/ purge.video = v
      BY <2>1, <2>4, <3>1 DEF Traced
    <3>2. CASE ~Is(v, "GONE") /\ purge.video # v
      BY <2>1, <3>2 DEF RowStep, Is, Arriving
    <3> QED  BY <3>1, <3>2
  <2>6. (purge.video = v => v \in cut /\ (files[v] = {} \/ v \in late))'
    BY <2>1, <2>4 DEF Traced, FileStep
  <2>7. (v \in held => Exists(v) /\ ~Arriving(v))'
    <3>1. CASE v \in held
      <4>1. Exists(v) /\ ~Arriving(v)
        BY <2>1, <3>1 DEF Traced
      <4> QED  BY <2>1, <4>1 DEF RowStep, Is, Arriving, Exists
    <3>2. CASE v \notin held
      BY <2>1, <3>2 DEF FileStep, Is, Arriving, Exists
    <3> QED  BY <3>1, <3>2
  <2> QED  BY <2>3, <2>5, <2>6, <2>7 DEF Traced
<1> QED  BY <1>1, <1>2 DEF FilesInv

LEMMA FilesInit == Init => FilesInv
<1> SUFFICES ASSUME Init PROVE FilesInv
  OBVIOUS
<1>1. ASSUME NEW v \in Videos PROVE Traced(v)
  <2>1. video[v].status = "NONE" /\ v \notin purge.list /\ v \notin cut /\ purge.video # v /\ v \notin held
    BY NewTypes, ConstantTypes DEF Init
  <2> QED  BY <2>1 DEF Traced, Is
<1> QED  BY <1>1, TypeInit DEF FilesInv

\* A file of a video that is gone was written after its removal had begun.
THEOREM LeftoversAreOnlyLate == Spec => []LeftoversAreLate
<1>1. Init => FilesInv
  BY FilesInit
<1>2. FilesInv /\ [Next]_vars => FilesInv'
  BY FilesStep
<1>3. FilesInv => LeftoversAreLate
  BY DEF FilesInv, Traced, LeftoversAreLate
<1> QED  BY <1>1, <1>2, <1>3, PTL DEF Spec

\* A video under a hold loses its file only to a removal that had listed it, or to a
\* request that had found no hold on it, before.
THEOREM HeldFilesAreLostOnlyToEarlier == Spec => HeldLostOnlyToEarlier
<1>1. Init => FilesInv
  BY FilesInit
<1>2. FilesInv /\ [Next]_vars => FilesInv'
  BY FilesStep
<1>3. FilesInv /\ [Next]_vars =>
        [\A v \in held :
            /\ Original \in files[v] /\ Original \notin files'[v] => v \in purge.list \cup asked
            /\ v \in purge'.list \cup asked' => v \in purge.list \cup asked]_vars
  <2> SUFFICES ASSUME FilesInv, [Next]_vars, NEW v \in held
               PROVE  /\ Original \in files[v] /\ Original \notin files'[v] => v \in purge.list \cup asked
                      /\ v \in purge'.list \cup asked' => v \in purge.list \cup asked
    OBVIOUS
  <2>1. v \in Videos /\ Traced(v) /\ FileStep(v)
    BY FileSteps DEF FilesInv, TypeInv, Typed
  <2> QED  BY <2>1 DEF Traced, FileStep, Arriving
<1> QED  BY <1>1, <1>2, <1>3, PTL DEF Spec, HeldLostOnlyToEarlier

-----------------------------------------------------------------------------
(* READY is complete. As long as a video was not taken from a worker that    *)
(* still had it, and is not being removed, one worker has it, it is          *)
(* PROCESSING while that lasts, and what was indexed so far is there.        *)

Before(s) == {t \in Seconds : t < s}

\* All that was read is there, and all there is was read unless the reader broke off.
Read(v) == \E n \in Seconds : rows[v] = 1..n /\ 1..n \subseteq files[v] /\ (n = Length \/ v \in short)

Stage(w, v) ==
    LET s == worker[w].second
    IN  /\ worker[w].at \in {"probe", "files", "rows"} => s = 1
        /\ worker[w].at = "picture" => rows[v] = Before(s) /\ Before(s) \subseteq files[v]
        /\ worker[w].at = "row" => rows[v] = Before(s) /\ Before(s) \cup {s} \subseteq files[v]
        /\ worker[w].at = "finish" => Read(v)

Whole(v) ==
    /\ \A w \in Workers : Holds(w, v) => Is(v, "PROCESSING") /\ Stage(w, v)
    /\ \A w, u \in Workers : Holds(w, v) /\ Holds(u, v) => w = u
    /\ Is(v, "READY") => Read(v)

WholeInv == FilesInv /\ \A v \in Videos : v \notin overrun \cup cut => Whole(v)

\* A step that takes nothing from the video, gives it to nobody and does not finish it.
Quiet(v) ==
    /\ rows'[v] = rows[v] /\ files[v] \cap Seconds \subseteq files'[v] /\ (v \in short => v \in short')
    /\ \A w \in Workers : Holds(w, v)' =>
         /\ Holds(w, v) /\ worker'[w].at = worker[w].at /\ worker'[w].second = worker[w].second
         /\ Is(v, "PROCESSING")'
    /\ Is(v, "READY")' => Is(v, "READY")

LEMMA QuietWhole ==
    ASSUME NEW v \in Videos, Whole(v), Quiet(v), \A w \in Workers : worker[w].second \in Seconds
    PROVE  Whole(v)'
<1>1. \A s : Before(s) \subseteq Seconds
  BY DEF Before
<1>2. Read(v) => Read(v)'
  <2> SUFFICES ASSUME Read(v) PROVE Read(v)'
    OBVIOUS
  <2>1. PICK n \in Seconds : rows[v] = 1..n /\ 1..n \subseteq files[v] /\ (n = Length \/ v \in short)
    BY DEF Read
  <2>2. 1..n \subseteq Seconds
    BY ConstantTypes DEF Seconds
  <2>3. rows'[v] = 1..n /\ 1..n \subseteq files'[v] /\ (n = Length \/ v \in short')
    BY <2>1, <2>2 DEF Quiet
  <2> QED  BY <2>3 DEF Read
<1>3. ASSUME NEW w \in Workers, Holds(w, v)' PROVE Is(v, "PROCESSING")' /\ Stage(w, v)'
  <2>1. /\ Holds(w, v) /\ worker'[w].at = worker[w].at /\ worker'[w].second = worker[w].second
        /\ Is(v, "PROCESSING")' /\ Stage(w, v) /\ rows'[v] = rows[v] /\ files[v] \cap Seconds \subseteq files'[v]
    BY <1>3 DEF Whole, Quiet
  <2>2. worker[w].second \in Seconds
    OBVIOUS
  <2> DEFINE s == worker[w].second
  <2>3. Before(s) \subseteq files[v] => Before(s) \subseteq files'[v]
    BY <1>1, <2>1
  <2>4. Before(s) \cup {s} \subseteq files[v] => Before(s) \cup {s} \subseteq files'[v]
    BY <1>1, <2>1, <2>2
  <2> QED  BY <1>2, <2>1, <2>3, <2>4 DEF Stage
<1>4. \A w, u \in Workers : Holds(w, v)' /\ Holds(u, v)' => w = u
  BY DEF Whole, Quiet
<1>5. Is(v, "READY")' => Read(v)'
  BY <1>2 DEF Whole, Quiet
<1> QED  BY <1>3, <1>4, <1>5 DEF Whole

\* The API and the removal disturb only what is being removed.
LEMMA Undisturbed ==
    ASSUME FilesInv, NEW v \in Videos, v \notin cut, v \notin cut',
           (\E u \in Videos : API(u)) \/ RestartAPI \/ Removal \/ UNCHANGED vars
    PROVE  /\ worker' = worker /\ short' = short /\ rows'[v] = rows[v]
           /\ files[v] \subseteq files'[v] \/ Is(v, "NONE")
<1> DEFINE Calm == worker' = worker /\ short' = short /\ rows'[v] = rows[v] /\ files[v] \subseteq files'[v]
<1>0. Typed
  BY DEF FilesInv, TypeInv
<1>1. ASSUME NEW u \in Videos, StartUpload(u)
      PROVE  worker' = worker /\ short' = short /\ rows'[v] = rows[v] /\ (files[v] \subseteq files'[v] \/ Is(v, "NONE"))
  BY <1>0, <1>1 DEF StartUpload, Typed
<1>2. ASSUME NEW u \in Videos, CopyIn(u) PROVE Calm
  BY <1>0, <1>2 DEF CopyIn, Written, Typed
<1>3. ASSUME NEW u \in Videos, Delete(u) \/ CancelUpload(u) PROVE Calm
  <2>1. CASE Remove(u)
    <3>1. u # v
      BY <2>1 DEF Remove
    <3>2. rows'[v] = rows[v]
      BY <1>0, <2>1, <3>1, GoneType DEF Remove
    <3> QED  BY <1>0, <2>1, <3>1, <3>2 DEF Remove, Typed
  <2>2. CASE ~Remove(u)
    BY <1>3, <2>2 DEF Delete, CancelUpload
  <2> QED  BY <2>1, <2>2
<1>4. ASSUME NEW u \in Videos, SendPart(u) \/ FinishUpload(u) \/ AnalyseRecording(u) \/ CopyFails(u) \/ EndCopy(u)
                               \/ Reanalyse(u) \/ Hold(u) \/ LiftHold(u) \/ AskDelete(u)
      PROVE  Calm
  BY <1>4 DEF SendPart, FinishUpload, AnalyseRecording, CopyFails, EndCopy, Reanalyse, Hold, LiftHold, AskDelete
<1>5. CASE RestartAPI \/ ListDue \/ RemovalFails \/ UNCHANGED vars
  BY <1>5 DEF RestartAPI, ListDue, RemovalFails, vars
<1>6. ASSUME NEW u \in Videos, RemoveFiles(u) PROVE Calm
  BY <1>0, <1>6 DEF RemoveFiles, Typed
<1>7. CASE RemoveRow
  <2>1. purge.video \in Videos /\ purge.video # v /\ Gone(purge.video) /\ worker' = worker /\ files' = files
        /\ short' = short
    BY <1>0, <1>7 DEF RemoveRow, FilesInv, Traced, Typed
  <2> QED  BY <1>0, <2>1, GoneType
<1> QED  BY <1>1, <1>2, <1>3, <1>4, <1>5, <1>6, <1>7 DEF API, Removal

\* What a worker has to do with v: nothing, or v is its video and goes on or ends.
LEMMA WorkerKeepsWhole ==
    ASSUME Typed, NEW v \in Videos, Whole(v), NEW w \in Workers, Work(w) \/ Hang(w) \/ Crash(w), v \notin overrun',
           \A u \in Workers : worker[u].second \in Seconds
    PROVE  Whole(v)'
<1> USE ConstantTypes
<1> DEFINE x == worker[w].video
           s == worker[w].second
           Others == \A u \in Workers \ {w} : worker'[u] = worker[u]
<1>0. video[v] \in VideoState /\ worker \in [Workers -> WorkerState] /\ s \in Seconds
  BY DEF Typed
<1>1. ASSUME NEW u \in Videos, Release(w, u) PROVE Whole(v)'
  <2>1. PICK status \in {"QUEUED", "FAILED"} : Becomes(u, status)
    BY <1>1 DEF Release
  <2>2. status \in Statuses
    BY DEF Statuses
  <2>3. video'[u].status = status /\ (u # v => video'[v] = video[v])
    BY <2>1, <2>2, BecomesType
  <2>4. worker' = worker /\ rows' = rows /\ files' = files /\ short' = short
    BY <1>1 DEF Release
  <2>5. u = v => \A t \in Workers : ~Holds(t, v)
    BY <1>1 DEF Release, Holds
  <2> QED  BY <2>3, <2>4, <2>5, QuietWhole DEF Quiet, Whole, Is, Holds
<1>2. ASSUME NEW u \in Videos, Claim(w, u) PROVE Whole(v)'
  <2> DEFINE r == [Idle EXCEPT !.at = "probe", !.video = u]
  <2>1. r.at = "probe" /\ r.video = u /\ r.second = 1
    BY NewTypes DEF Idle
  <2>2. worker' = [worker EXCEPT ![w] = r] /\ rows' = rows /\ files' = files /\ short' = short
    BY <1>2 DEF Claim
  <2> HIDE DEF r
  <2>3. worker'[w] = r /\ Others
    BY <1>0, <2>2
  <2>4. CASE u # v
    <3>1. video'[v] = video[v]
      BY <1>2, <2>4 DEF Claim, Typed
    <3> QED  BY <2>1, <2>2, <2>3, <2>4, <3>1, QuietWhole DEF Quiet, Whole, Is, Holds
  <2>5. CASE u = v
    <3>1. video'[v].status = "PROCESSING"
      BY <1>0, <1>2, <2>5 DEF Claim, Typed, VideoState
    <3>2. \A t \in Workers : ~Holds(t, v)
      BY <1>2, <2>5 DEF Claim, Claimable, Whole, Is
    <3>3. Stage(w, v)'
      BY <2>1, <2>3 DEF Stage
    <3> QED  BY <2>3, <3>1, <3>2, <3>3 DEF Whole, Is, Holds
  <2> QED  BY <2>4, <2>5
<1>3. ASSUME x # v, Others, worker'[w].video \in {x, None}, v \in short => v \in short',
             video'[v] = video[v], rows'[v] = rows[v], files'[v] = files[v]
      PROVE  Whole(v)'
  BY <1>3, QuietWhole DEF Quiet, Whole, Is, Holds
\* v is its video, and has no other worker.
<1>4. ASSUME Holds(w, v), Others, Is(v, "PROCESSING")', Holds(w, v)' => Stage(w, v)'
      PROVE  Whole(v)'
  BY <1>4 DEF Whole, Is, Holds
<1>5. ASSUME Holds(w, v), Others, ~Holds(w, v)', video'[v].status = "READY" => Read(v)'
      PROVE  Whole(v)'
  BY <1>5 DEF Whole, Is, Holds
<1>6. x = v /\ worker[w].at # "stuck" => Holds(w, v) /\ Is(v, "PROCESSING") /\ Stage(w, v)
  BY DEF Whole, Holds
<1>7. worker[w].at # "idle" <=> x \in Videos
  BY WorkerTypes
<1>8. ASSUME Leave(w) PROVE Others /\ worker'[w].video = None
  BY <1>8, WorkerTypes, NewTypes
<1>9. ASSUME NEW place \in {"files", "rows", "picture", "row", "finish"}, worker[w].at # "idle", Step(w, place)
      PROVE  Others /\ worker'[w].video = x /\ worker'[w].at = place /\ worker'[w].second = s
  BY <1>9, WorkerTypes
<1>10. ASSUME Progress(x), x \in Videos PROVE (x # v => video'[v] = video[v]) /\ video'[v].status = video[v].status
  BY <1>0, <1>10 DEF Progress, Typed, VideoState
<1>11. CASE Probe(w)
  <2>1. worker[w].at = "probe" /\ Progress(x) /\ Step(w, "files") /\ rows' = rows /\ files' = files /\ short' = short
    BY <1>11 DEF Probe
  <2>2. x = v => Stage(w, v)'
    BY <1>6, <1>9, <2>1 DEF Stage
  <2> QED  BY <1>3, <1>4, <1>6, <1>7, <1>9, <1>10, <2>1, <2>2 DEF Is
<1>12. CASE ClearFiles(w)
  <2>1. /\ worker[w].at = "files" /\ Step(w, "rows") /\ UNCHANGED <<rows, video, short>>
        /\ x # v => files'[v] = files[v]
    BY <1>12 DEF ClearFiles, Typed
  <2>2. x = v => Stage(w, v)'
    BY <1>6, <1>9, <2>1 DEF Stage
  <2> QED  BY <1>3, <1>4, <1>6, <1>7, <1>9, <2>1, <2>2 DEF Is
<1>13. CASE ClearRows(w)
  <2>1. /\ worker[w].at = "rows" /\ Step(w, "picture") /\ files' = files /\ video' = video
        /\ x # v => rows'[v] = rows[v] /\ (v \in short => v \in short')
        /\ x = v => rows'[v] = {}
    BY <1>13 DEF ClearRows, Typed
  <2>2. x = v => Stage(w, v)'
    <3>1. x = v => s = 1
      BY <1>6, <2>1 DEF Stage
    <3>2. Before(1) = {}
      BY DEF Before, Seconds
    <3> QED  BY <1>9, <2>1, <3>1, <3>2 DEF Stage
  <2> QED  BY <1>3, <1>4, <1>6, <1>7, <1>9, <2>1, <2>2 DEF Is
<1>14. CASE PutPicture(w)
  <2>1. /\ worker[w].at = "picture" /\ Step(w, "row") /\ UNCHANGED <<rows, video, short>>
        /\ files' = [files EXCEPT ![x] = @ \cup {s}]
    BY <1>14 DEF PutPicture, Written
  <2>2. (x # v => files'[v] = files[v]) /\ (x = v => files'[v] = files[v] \cup {s})
    BY <2>1 DEF Typed
  <2>3. x = v => Stage(w, v)'
    BY <1>6, <1>9, <2>1, <2>2 DEF Stage
  <2> QED  BY <1>3, <1>4, <1>6, <1>7, <1>9, <2>1, <2>2, <2>3 DEF Is
<1>15. CASE AddRow(w)
  <2>1. /\ worker[w].at = "row" /\ files' = files /\ (Progress(x) \/ UNCHANGED video)
        /\ rows' = [rows EXCEPT ![x] = @ \cup {s}] /\ short' = short
    BY <1>15 DEF AddRow
  <2>2. (x # v => rows'[v] = rows[v]) /\ (x = v => rows'[v] = rows[v] \cup {s})
    BY <2>1 DEF Typed
  <2>3. /\ Others /\ worker'[w].video = x
        /\ s < Length => worker'[w].at = "picture" /\ worker'[w].second = s + 1
        /\ ~(s < Length) => worker'[w].at = "finish"
    BY <1>0, <1>15 DEF AddRow, WorkerState
  <2>4. (x # v => video'[v] = video[v]) /\ video'[v].status = video[v].status
    BY <1>7, <1>10, <2>1
  <2>5. x = v => Stage(w, v)'
    <3> SUFFICES ASSUME x = v PROVE Stage(w, v)'
      OBVIOUS
    <3>1. rows[v] = Before(s) /\ Before(s) \cup {s} \subseteq files[v]
      BY <1>6, <2>1 DEF Stage
    <3>2. CASE s < Length
      <4>1. Before(s + 1) = Before(s) \cup {s}
        BY <1>0, <3>2 DEF Before, Seconds
      <4> QED  BY <2>1, <2>2, <2>3, <3>1, <3>2, <4>1 DEF Stage
    <3>3. CASE ~(s < Length)
      <4>1. Before(s) \cup {s} = 1..Length
        BY <1>0, <3>3 DEF Before, Seconds
      <4>2. Length \in Seconds
        BY DEF Seconds
      <4>3. rows'[v] = 1..Length /\ 1..Length \subseteq files'[v]
        BY <2>1, <2>2, <3>1, <4>1
      <4>4. Read(v)'
        BY <4>2, <4>3, Zenon DEF Read
      <4> QED  BY <2>3, <3>3, <4>4 DEF Stage
    <3> QED  BY <3>2, <3>3
  <2> QED  BY <1>3, <1>4, <1>6, <1>7, <2>1, <2>2, <2>3, <2>4, <2>5 DEF Is
\* The reader broke off: all that was read before the second it was at is there.
<1>16. CASE ReaderEnds(w)
  <2>1. /\ worker[w].at = "picture" /\ rows' = rows /\ files' = files /\ short' = short \cup {x}
    BY <1>16 DEF ReaderEnds
  <2>2. CASE s > 1 /\ Step(w, "finish") /\ video' = video
    <3>1. x = v => Stage(w, v)'
      <4> SUFFICES ASSUME x = v PROVE Stage(w, v)'
        OBVIOUS
      <4>1. rows[v] = Before(s) /\ Before(s) \subseteq files[v]
        BY <1>6, <2>1 DEF Stage
      <4>2. s - 1 \in Seconds /\ Before(s) = 1..(s - 1)
        BY <1>0, <2>2 DEF Seconds, Before
      <4>3. rows'[v] = 1..(s - 1) /\ 1..(s - 1) \subseteq files'[v] /\ v \in short'
        BY <2>1, <4>1, <4>2
      <4>4. Read(v)'
        BY <4>2, <4>3 DEF Read
      <4> QED  BY <1>9, <2>1, <2>2, <4>4 DEF Stage
    <3> QED  BY <1>3, <1>4, <1>6, <1>7, <1>9, <2>1, <2>2, <3>1 DEF Is
  <2>3. CASE Leave(w) /\ IfProcessing(x, "FAILED")
    <3>1. worker' # worker
      BY <1>7, <1>8, <2>1, <2>3
    <3>2. /\ Is(x, "PROCESSING") => video'[x].status = "FAILED"
          /\ \A u \in Videos \ {x} : video'[u] = video[u]
      BY <1>7, <2>1, <2>3, <3>1, EndType
    <3>3. ~Holds(w, v)'
      BY <1>8, <2>3, ConstantTypes DEF Holds
    <3> QED  BY <1>3, <1>5, <1>6, <1>7, <1>8, <2>1, <2>3, <3>2, <3>3
  <2> QED  BY <1>16, <2>2, <2>3 DEF ReaderEnds
<1>17. CASE Hang(w)
  <2> DEFINE r == [Idle EXCEPT !.at = "stuck", !.video = x]
  <2>1. r.at = "stuck" /\ r.video = x
    BY NewTypes DEF Idle
  <2>2. worker' = [worker EXCEPT ![w] = r] /\ UNCHANGED <<video, rows, files, short>> /\ worker[w].at \in {"picture", "finish"}
    BY <1>17 DEF Hang
  <2> HIDE DEF r
  <2>3. worker'[w] = r /\ Others
    BY <1>0, <2>2
  <2>4. ~Holds(w, v)'
    BY <2>1, <2>3 DEF Holds
  <2> QED  BY <1>3, <1>5, <1>6, <2>1, <2>2, <2>3, <2>4 DEF Is
<1>18. CASE Finish(w) \/ Unreadable(w) \/ Stop(w)
  <2>1. PICK status \in {"READY", "FAILED", "QUEUED"} :
          /\ IfProcessing(x, status) /\ (status = "QUEUED" => video[x].attempts < MaxAttempts)
          /\ status = "READY" => worker[w].at = "finish"
    BY <1>18 DEF Finish, Unreadable, Stop
  <2>2. worker[w].at \notin {"idle", "stuck"} /\ Leave(w) /\ rows' = rows /\ files' = files /\ short' = short
    BY <1>18 DEF Finish, Unreadable, Stop
  <2>3. worker' # worker
    BY <1>7, <1>8, <2>2
  <2>4. /\ Is(x, "PROCESSING") => video'[x].status = status
        /\ \A u \in Videos \ {x} : video'[u] = video[u]
    BY <1>7, <2>1, <2>2, <2>3, EndType
  <2>5. x = v /\ video'[v].status = "READY" => Read(v)'
    BY <1>6, <2>1, <2>2, <2>4 DEF Stage, Read
  <2>6. ~Holds(w, v)'
    BY <1>8, <2>2, ConstantTypes DEF Holds
  <2> QED  BY <1>3, <1>5, <1>6, <1>7, <1>8, <2>2, <2>4, <2>5, <2>6
<1>19. CASE Crash(w)
  <2>1. Leave(w) /\ UNCHANGED <<video, rows, files, short>>
    BY <1>19 DEF Crash
  <2>2. Others /\ worker'[w].video = None /\ ~Holds(w, v)'
    BY <1>8, <2>1, ConstantTypes DEF Holds
  <2>3. CASE Holds(w, v)
    BY <1>5, <1>6, <2>1, <2>2, <2>3 DEF Is, Whole
  <2>4. CASE ~Holds(w, v)
    BY <2>1, <2>2, <2>4, QuietWhole DEF Quiet, Whole, Is, Holds
  <2> QED  BY <2>3, <2>4
<1> QED  BY <1>1, <1>2, <1>11, <1>12, <1>13, <1>14, <1>15, <1>16, <1>17, <1>18, <1>19 DEF Work

LEMMA WholeStep ==
    ASSUME WholeInv, [Next]_vars
    PROVE  WholeInv'
<1> USE ConstantTypes
<1>0. FilesInv /\ FilesInv' /\ Typed /\ Typed'
  BY FilesStep DEF WholeInv, FilesInv, TypeInv
<1> SUFFICES ASSUME NEW v \in Videos, v \notin overrun' \cup cut' PROVE Whole(v)'
  BY <1>0 DEF WholeInv
<1>1. RowStep(v) /\ FileStep(v) /\ v \notin overrun \cup cut /\ Whole(v)
  BY <1>0, TypeStep, FileSteps DEF WholeInv, FilesInv, FileStep
<1>2. \A w \in Workers : worker[w].second \in Seconds
  BY <1>0 DEF Typed, WorkerState
<1>3. CASE (\E u \in Videos : API(u)) \/ RestartAPI \/ Removal \/ UNCHANGED vars
  <2>1. /\ worker' = worker /\ short' = short /\ rows'[v] = rows[v]
        /\ files[v] \subseteq files'[v] \/ Is(v, "NONE")
    BY <1>0, <1>1, <1>3, Undisturbed
  <2>2. ~Is(v, "NONE") \/ video'[v].status = "NONE" \/ video'[v].status \in {"UPLOADING", "COPYING", "GONE"}
    BY <1>1 DEF RowStep, Is, Arriving
  <2>3. CASE Is(v, "NONE")
    <3>1. \A w \in Workers : ~Holds(w, v)'
      BY <1>1, <2>1, <2>3 DEF Whole, Is, Holds
    <3> QED  BY <2>2, <2>3, <3>1 DEF Whole, Is
  <2>4. CASE ~Is(v, "NONE")
    <3>1. Is(v, "READY")' => Is(v, "READY")
      BY <1>1, <2>1 DEF RowStep, Is, Arriving
    <3>2. ASSUME NEW w \in Workers, Holds(w, v)' PROVE Holds(w, v) /\ Is(v, "PROCESSING")'
      <4>1. Is(v, "PROCESSING") /\ Holds(w, v)
        BY <1>1, <2>1, <3>2 DEF Whole, Holds
      <4>2. video'[v].status # "GONE"
        BY <1>0, <1>1 DEF FilesInv, Traced, Is
      <4> QED  BY <1>1, <2>1, <4>1, <4>2 DEF RowStep, Is, Arriving
    <3> QED  BY <1>1, <1>2, <2>1, <2>4, <3>1, <3>2, QuietWhole DEF Quiet
  <2> QED  BY <2>3, <2>4
<1>4. CASE Tick
  <2>1. rows'[v] = rows[v] /\ files'[v] = files[v] /\ short' = short
    BY <1>4 DEF Tick
  <2>2. video'[v].status = video[v].status
    BY <1>0, <1>4 DEF Tick, Typed, VideoState, Is
  <2>3. ASSUME NEW w \in Workers, Holds(w, v)'
        PROVE  Holds(w, v) /\ worker'[w].at = worker[w].at /\ worker'[w].second = worker[w].second
    BY <1>0, <1>4, <2>3, NewTypes DEF Tick, Typed, WorkerState, Holds
  <2> QED  BY <1>1, <1>2, <2>1, <2>2, <2>3, QuietWhole DEF Quiet, Whole, Is
<1>5. ASSUME NEW w \in Workers, Work(w) \/ Hang(w) \/ Crash(w) PROVE Whole(v)'
  BY <1>0, <1>1, <1>2, <1>5, WorkerKeepsWhole
<1> QED  BY <1>3, <1>4, <1>5 DEF Next

LEMMA WholeInit == Init => WholeInv
<1> SUFFICES ASSUME Init PROVE WholeInv
  OBVIOUS
<1>1. ASSUME NEW v \in Videos PROVE Whole(v)
  <2>1. video[v].status = "NONE" /\ \A w \in Workers : worker[w].video # v
    BY NewTypes, ConstantTypes DEF Init
  <2> QED  BY <2>1 DEF Whole, Is, Holds
<1> QED  BY <1>1, FilesInit DEF WholeInv

\* A READY video has a picture and a row for every second that was read, and all of them
\* were read unless the reader broke off.
THEOREM ReadyVideosAreComplete == Spec => []ReadyIsComplete
<1>1. Init => WholeInv
  BY WholeInit
<1>2. WholeInv /\ [Next]_vars => WholeInv'
  BY WholeStep
<1>3. WholeInv => ReadyIsComplete
  BY DEF WholeInv, Whole, Read, ReadyIsComplete
<1> QED  BY <1>1, <1>2, <1>3, PTL DEF Spec

=============================================================================
