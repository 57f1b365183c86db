----------------------------- MODULE FootageJobs -----------------------------
(***************************************************************************)
(* Videos of Footage Review, from the upload to their removal: the API     *)
(* (routers/footage.py), the workers that analyse them                     *)
(* (worker/footage_main.py, worker/footage/db.py, pipeline.py) and the     *)
(* daily removal (services/footage_retention.py).                          *)
(*                                                                         *)
(* The row of a video is the queue: a worker claims it, writes a picture   *)
(* and then a row for every second, and finishes it.  A worker that wrote  *)
(* nothing for a while is taken for dead and the video is given to another *)
(* - it may only have been slow.  Files and rows are kept apart: no        *)
(* transaction spans both.                                                 *)
(*                                                                         *)
(* The doorbell (a Redis stream) only makes a worker look sooner: each     *)
(* sweeps the table, and the claim decides.  Findings and the playable     *)
(* copy go with the pictures and are left out.                             *)
(***************************************************************************)
EXTENDS Naturals, FiniteSets

CONSTANTS
    Videos, Workers, None,
    Length,         \* seconds in a video
    MaxAttempts,    \* MOST_ATTEMPTS
    StaleAfter,     \* STALE_AFTER, in ticks
    MaxQuiet,       \* bound: ticks between two steps of a worker
    MaxReanalyses,  \* bound: requests to analyse again
    MaxFaults       \* bound: what breaks, raises or is restarted

Seconds == 1..Length
Original == 0       \* the file itself; the others are the pictures of its seconds

ASSUME NoneAssumption == None \notin Videos
ASSUME BoundsAssumption ==
    /\ {Length, MaxAttempts} \subseteq Nat \ {0}
    /\ {StaleAfter, MaxQuiet, MaxReanalyses, MaxFaults} \subseteq Nat

VARIABLES
    video,      \* footage_videos
    held,       \* videos under an evidence hold, or several
    rows,       \* footage_frames: the seconds indexed
    files,      \* what is stored of each video
    copying,    \* the API's background copies of recordings
    worker,     \* where each worker is in process
    purge,      \* the daily removal: what it listed, and what it is removing
    asked,      \* videos a request wants deleted that found no hold on them
    \* History.
    overrun,    \* videos taken away from a worker that was still at work
    cut,        \* videos whose removal has begun
    late,       \* those to which something was written after that
    short,      \* videos whose reader broke off in their last analysis
    reanalyses, faults

vars == <<video, held, rows, files, copying, worker, purge, asked, overrun, cut, late, short, reanalyses, faults>>

\* COPYING is UPLOADING with the source RECORDING.
Statuses == {"NONE", "UPLOADING", "COPYING", "QUEUED", "PROCESSING", "READY", "FAILED", "GONE"}
NoVideo == [status |-> "NONE", attempts |-> 0, age |-> 0, whole |-> FALSE]
Idle == [at |-> "idle", video |-> None, second |-> 1, quiet |-> 0]

TypeOK ==
    /\ video \in [Videos -> [status : Statuses, attempts : 0..MaxAttempts, age : 0 .. StaleAfter + 1,
                             whole : BOOLEAN]]
    /\ held \subseteq Videos
    /\ rows \in [Videos -> SUBSET Seconds]
    /\ files \in [Videos -> SUBSET (Seconds \cup {Original})]
    /\ copying \in [Videos -> {"no", "copying", "copied", "broken"}]
    /\ worker \in [Workers -> [at : {"idle", "probe", "files", "rows", "picture", "row", "finish", "stuck"},
                               video : Videos \cup {None}, second : Seconds, quiet : 0..MaxQuiet]]
    /\ \A w \in Workers : worker[w].at = "idle" <=> worker[w].video = None
    /\ purge \in [list : SUBSET Videos, video : Videos \cup {None}]
    /\ asked \subseteq Videos /\ short \subseteq Videos
    /\ overrun \subseteq Videos /\ cut \subseteq Videos /\ late \subseteq Videos
    /\ reanalyses \in 0..MaxReanalyses /\ faults \in 0..MaxFaults

Init ==
    /\ video = [v \in Videos |-> NoVideo] /\ held = {}
    /\ rows = [v \in Videos |-> {}] /\ files = [v \in Videos |-> {}]
    /\ copying = [v \in Videos |-> "no"]
    /\ worker = [w \in Workers |-> Idle]
    /\ purge = [list |-> {}, video |-> None]
    /\ asked = {} /\ overrun = {} /\ cut = {} /\ late = {} /\ short = {}
    /\ reanalyses = 0 /\ faults = 0

Is(v, status) == video[v].status = status
Exists(v) == video[v].status \notin {"NONE", "GONE"}
Arriving(v) == Is(v, "UPLOADING") \/ Is(v, "COPYING")
Becomes(v, status) ==
    video' = [video EXCEPT ![v].status = status, ![v].age = 0, ![v].whole = FALSE]
Breaks == faults < MaxFaults /\ faults' = faults + 1

-----------------------------------------------------------------------------
(* The API. Its requests lock the row of the video.                        *)

StartUpload(v) ==
    /\ Is(v, "NONE") /\ Becomes(v, "UPLOADING")
    /\ files' = [files EXCEPT ![v] = {Original}]
    /\ UNCHANGED <<held, rows, copying, worker, purge, asked, overrun, cut, late, short, reanalyses, faults>>

\* The next part, perhaps the last. The file must still be there to be written to.
SendPart(v) ==
    /\ Is(v, "UPLOADING") /\ ~video[v].whole /\ Original \in files[v]
    /\ \E whole \in BOOLEAN : video' = [video EXCEPT ![v].whole = whole]
    /\ UNCHANGED <<held, rows, files, copying, worker, purge, asked, overrun, cut, late, short, reanalyses, faults>>

FinishUpload(v) ==
    /\ Is(v, "UPLOADING") /\ video[v].whole /\ Becomes(v, "QUEUED")
    /\ UNCHANGED <<held, rows, files, copying, worker, purge, asked, overrun, cut, late, short, reanalyses, faults>>

\* "Analyse this recording": the answer comes first, the copy after it.
AnalyseRecording(v) ==
    /\ Is(v, "NONE") /\ Becomes(v, "COPYING")
    /\ copying' = [copying EXCEPT ![v] = "copying"]
    /\ UNCHANGED <<held, rows, files, worker, purge, asked, overrun, cut, late, short, reanalyses, faults>>

\* Something is written for v, in a directory made for it if there is none.
Written(v, file) ==
    /\ files' = [files EXCEPT ![v] = @ \cup {file}]
    /\ late' = IF v \in cut THEN late \cup {v} ELSE late

CopyIn(v) ==
    /\ copying[v] = "copying" /\ Written(v, Original)
    /\ copying' = [copying EXCEPT ![v] = "copied"]
    /\ UNCHANGED <<video, held, rows, worker, purge, asked, overrun, cut, short, reanalyses, faults>>

CopyFails(v) ==
    /\ copying[v] = "copying" /\ Breaks
    /\ copying' = [copying EXCEPT ![v] = "broken"]
    /\ UNCHANGED <<video, held, rows, files, worker, purge, asked, overrun, cut, late, short, reanalyses>>

EndCopy(v) ==
    /\ copying[v] \in {"copied", "broken"}
    /\ copying' = [copying EXCEPT ![v] = "no"]
    /\ IF Is(v, "COPYING") THEN Becomes(v, IF copying[v] = "copied" THEN "QUEUED" ELSE "FAILED")
       ELSE UNCHANGED video
    /\ UNCHANGED <<held, rows, files, worker, purge, asked, overrun, cut, late, short, reanalyses, faults>>

\* The API restarts: its background copies and its requests are gone.
RestartAPI ==
    /\ asked # {} \/ \E v \in Videos : copying[v] # "no"
    /\ Breaks /\ copying' = [v \in Videos |-> "no"] /\ asked' = {}
    /\ UNCHANGED <<video, held, rows, files, worker, purge, overrun, cut, late, short, reanalyses>>

Reanalyse(v) ==
    /\ Is(v, "READY") \/ Is(v, "FAILED")
    /\ reanalyses < MaxReanalyses /\ reanalyses' = reanalyses + 1
    /\ video' = [video EXCEPT ![v].status = "QUEUED", ![v].attempts = 0, ![v].age = 0]
    /\ UNCHANGED <<held, rows, files, copying, worker, purge, asked, overrun, cut, late, short, faults>>

\* A hold locks the row and does not change it. Whether there is one already was asked
\* in the snapshot of the locking query: a second one, which changes nothing here, may
\* follow.
Hold(v) ==
    /\ v \notin held /\ Exists(v) /\ ~Arriving(v)
    /\ held' = held \cup {v}
    /\ UNCHANGED <<video, rows, files, copying, worker, purge, asked, overrun, cut, late, short, reanalyses, faults>>

LiftHold(v) ==
    /\ v \in held /\ held' = held \ {v}
    /\ UNCHANGED <<video, rows, files, copying, worker, purge, asked, overrun, cut, late, short, reanalyses, faults>>

\* The row, and by its foreign keys everything worked out from it. A hold on it means
\* nothing any more.
Gone(v) ==
    /\ held' = held \ {v}
    /\ video' = [video EXCEPT ![v] = [NoVideo EXCEPT !.status = "GONE"]]
    /\ rows' = [rows EXCEPT ![v] = {}]

\* _remove: the file first, then the row. The second may fail. (That S3 reports an object
\* it did not delete, which the code does not read, is left out.)
Remove(v) ==
    /\ files' = [files EXCEPT ![v] = {}] /\ cut' = cut \cup {v}
    /\ \/ Gone(v) /\ UNCHANGED faults
       \/ Breaks /\ UNCHANGED <<video, held, rows>>
    /\ UNCHANGED <<copying, worker, purge, overrun, late, short, reanalyses>>

\* delete_video asks for the hold in the snapshot of the query that locks the row, and
\* not again when it has the lock. (Faulty: a hold does not keep the video.)
DeletableHeld(v) == Exists(v)

Deletable(v) == Exists(v) /\ v \notin held

AskDelete(v) ==
    /\ v \notin asked /\ Deletable(v) /\ asked' = asked \cup {v}
    /\ UNCHANGED <<video, held, rows, files, copying, worker, purge, overrun, cut, late, short, reanalyses, faults>>

\* With the lock. The status is that of the row as it is now, if it is there.
Delete(v) ==
    /\ v \in asked /\ asked' = asked \ {v}
    /\ IF Exists(v) /\ ~Is(v, "PROCESSING") THEN Remove(v)
       ELSE UNCHANGED <<video, held, rows, files, copying, worker, purge, overrun, cut, late, short, reanalyses, faults>>

\* An upload is cancelled; a recording being copied is not, but it may be deleted.
CancelUpload(v) == Is(v, "UPLOADING") /\ Remove(v) /\ UNCHANGED asked

-----------------------------------------------------------------------------
(* The daily removal.                                                      *)

\* A video of thirty days, or an upload nobody has added to for a day: any may be, by the
\* time the removal looks.
Due(v) == Exists(v) /\ v \notin held

ListDue ==
    /\ purge.list = {}
    /\ \E L \in SUBSET {v \in Videos : Due(v)} : L # {} /\ purge' = [purge EXCEPT !.list = L]
    /\ UNCHANGED <<video, held, rows, files, copying, worker, asked, overrun, cut, late, short, reanalyses, faults>>

\* What was listed is removed, whatever has become of it since. (Faulty: the row
\* goes first.)
RemoveRowFirst(v) ==
    /\ purge.video = None /\ v \in purge.list
    /\ purge' = [purge EXCEPT !.video = v] /\ cut' = cut \cup {v} /\ Gone(v)
    /\ UNCHANGED <<files, copying, worker, asked, overrun, late, short, reanalyses, faults>>

RemoveFiles(v) ==
    /\ purge.video = None /\ v \in purge.list
    /\ purge' = [purge EXCEPT !.video = v]
    /\ files' = [files EXCEPT ![v] = {}] /\ cut' = cut \cup {v}
    /\ UNCHANGED <<video, held, rows, copying, worker, asked, overrun, late, short, reanalyses, faults>>

Removed == purge' = [list |-> purge.list \ {purge.video}, video |-> None]

RemoveRow ==
    /\ purge.video # None /\ Removed /\ Gone(purge.video)
    /\ UNCHANGED <<files, copying, worker, asked, overrun, cut, late, short, reanalyses, faults>>

RemovalFails ==
    /\ purge.video # None /\ Removed /\ Breaks
    /\ UNCHANGED <<video, held, rows, files, copying, worker, asked, overrun, cut, late, short, reanalyses>>

-----------------------------------------------------------------------------
(* The workers.                                                            *)

Step(w, place) == worker' = [worker EXCEPT ![w].at = place, ![w].quiet = 0]
Leave(w) == worker' = [worker EXCEPT ![w] = Idle]

\* sweep: a video that a worker holds and has not written to for so long. (Faulty:
\* nobody looks.)
StaleNever(v) == FALSE

Stale(v) == Is(v, "PROCESSING") /\ video[v].age > StaleAfter

Release(w, v) ==
    /\ worker[w].at = "idle" /\ Stale(v)
    /\ Becomes(v, IF video[v].attempts >= MaxAttempts THEN "FAILED" ELSE "QUEUED")
    /\ overrun' = IF \E u \in Workers : worker[u].video = v /\ worker[u].at # "stuck" THEN overrun \cup {v} ELSE overrun
    /\ UNCHANGED <<held, rows, files, copying, worker, purge, asked, cut, late, short, reanalyses, faults>>

\* (Faulty: the claim does not ask whether the video is waiting still.)
ClaimableListed(v) == Is(v, "QUEUED") \/ Is(v, "PROCESSING")

Claimable(v) == Is(v, "QUEUED")

Claim(w, v) ==
    /\ worker[w].at = "idle" /\ Claimable(v)
    /\ video' = [video EXCEPT ![v].status = "PROCESSING", ![v].attempts = @ + 1, ![v].age = 0]
    /\ worker' = [worker EXCEPT ![w] = [Idle EXCEPT !.at = "probe", !.video = v]]
    /\ UNCHANGED <<held, rows, files, copying, purge, asked, overrun, cut, late, short, reanalyses, faults>>

\* update: progress is written to the row if it is there, whoever has it by now.
Progress(v) == video' = IF Exists(v) THEN [video EXCEPT ![v].age = 0] ELSE video

Probe(w) ==
    LET v == worker[w].video
    IN  /\ worker[w].at = "probe" /\ Original \in files[v] /\ Progress(v) /\ Step(w, "files")
        /\ UNCHANGED <<held, rows, files, copying, purge, asked, overrun, cut, late, short, reanalyses, faults>>

ClearFiles(w) ==
    /\ worker[w].at = "files" /\ Step(w, "rows")
    /\ files' = [files EXCEPT ![worker[w].video] = @ \ Seconds]
    /\ UNCHANGED <<video, held, rows, copying, purge, asked, overrun, cut, late, short, reanalyses, faults>>

ClearRows(w) ==
    /\ worker[w].at = "rows" /\ Step(w, "picture")
    /\ rows' = [rows EXCEPT ![worker[w].video] = {}]
    /\ short' = short \ {worker[w].video}
    /\ UNCHANGED <<video, held, files, copying, purge, asked, overrun, cut, late, reanalyses, faults>>

PutPicture(w) ==
    /\ worker[w].at = "picture" /\ Step(w, "row")
    /\ Written(worker[w].video, worker[w].second)
    /\ UNCHANGED <<video, held, rows, copying, purge, asked, overrun, cut, short, reanalyses, faults>>

\* The video is gone, or the second is indexed already: the insert raises.
Refused(w) == ~Exists(worker[w].video) \/ worker[w].second \in rows[worker[w].video]

\* Progress is written only when it has become a whole percent more.
AddRow(w) ==
    LET v == worker[w].video
        s == worker[w].second
    IN  /\ worker[w].at = "row" /\ ~Refused(w)
        /\ rows' = [rows EXCEPT ![v] = @ \cup {s}]
        /\ Progress(v) \/ UNCHANGED video
        /\ worker' = [worker EXCEPT ![w].at = IF s < Length THEN "picture" ELSE "finish",
                                    ![w].second = IF s < Length THEN s + 1 ELSE s, ![w].quiet = 0]
        /\ UNCHANGED <<held, files, copying, purge, asked, overrun, cut, late, short, reanalyses, faults>>

\* Only a video that is PROCESSING changes its status - in whosever hands it is.
IfProcessing(v, status) == IF Is(v, "PROCESSING") THEN Becomes(v, status) ELSE UNCHANGED video

\* ffmpeg ends before the last second: it was killed, found a damaged place or lost the
\* file. Nobody asks how it ended; only with no picture at all is it not a video.
\* (Faulty: not even that is asked.)
ReaderEndsEmpty(w) ==
    /\ worker[w].at = "picture" /\ Step(w, "finish")
    /\ IF Original \in files[worker[w].video] THEN Breaks ELSE UNCHANGED faults
    /\ short' = short \cup {worker[w].video}
    /\ UNCHANGED <<video, held, rows, files, copying, purge, asked, overrun, cut, late, reanalyses>>

ReaderEnds(w) ==
    /\ worker[w].at = "picture"
    /\ IF Original \in files[worker[w].video] THEN Breaks ELSE UNCHANGED faults
    /\ short' = short \cup {worker[w].video}
    /\ IF worker[w].second > 1 THEN Step(w, "finish") /\ UNCHANGED video
       ELSE Leave(w) /\ IfProcessing(worker[w].video, "FAILED")
    /\ UNCHANGED <<held, rows, files, copying, purge, asked, overrun, cut, late, reanalyses>>

\* ffmpeg has more to complain of than the pipe holds that nobody reads. It waits for the
\* worker and the worker, which knows no timeout, for it.
Hang(w) ==
    /\ worker[w].at \in {"picture", "finish"}
    /\ worker' = [worker EXCEPT ![w] = [Idle EXCEPT !.at = "stuck", !.video = worker[w].video]]
    /\ UNCHANGED <<video, held, rows, files, copying, purge, asked, overrun, cut, late, short, reanalyses, faults>>

Finish(w) ==
    /\ worker[w].at = "finish" /\ Leave(w) /\ IfProcessing(worker[w].video, "READY")
    /\ UNCHANGED <<held, rows, files, copying, purge, asked, overrun, cut, late, short, reanalyses, faults>>

\* Not a video, or too long.
Unreadable(w) ==
    /\ worker[w].at = "probe" /\ Leave(w) /\ IfProcessing(worker[w].video, "FAILED")
    /\ UNCHANGED <<held, rows, files, copying, purge, asked, overrun, cut, late, short, reanalyses, faults>>

\* Not the file's fault: back in the queue, for as long as attempts are left.
Stop(w) ==
    LET v == worker[w].video
    IN  /\ worker[w].at \notin {"idle", "stuck"} /\ Leave(w)
        /\ IfProcessing(v, IF video[v].attempts < MaxAttempts THEN "QUEUED" ELSE "FAILED")
        /\ IF worker[w].at = "row" /\ Refused(w) THEN UNCHANGED faults ELSE Breaks
        /\ UNCHANGED <<held, rows, files, copying, purge, asked, overrun, cut, late, short, reanalyses>>

\* The process dies, or the database is away.
Crash(w) ==
    /\ worker[w].at # "idle" /\ Leave(w) /\ Breaks
    /\ UNCHANGED <<video, held, rows, files, copying, purge, asked, overrun, cut, late, short, reanalyses>>

Busy(w) == worker[w].at \notin {"idle", "stuck"}

Tick ==
    /\ \E v \in Videos : Is(v, "PROCESSING") /\ video[v].age <= StaleAfter
    /\ \A w \in Workers : Busy(w) => worker[w].quiet < MaxQuiet
    /\ video' = [v \in Videos |-> IF Is(v, "PROCESSING") /\ video[v].age <= StaleAfter
                                  THEN [video[v] EXCEPT !.age = @ + 1] ELSE video[v]]
    /\ worker' = [w \in Workers |-> IF Busy(w) THEN [worker[w] EXCEPT !.quiet = @ + 1] ELSE worker[w]]
    /\ UNCHANGED <<held, rows, files, copying, purge, asked, overrun, cut, late, short, reanalyses, faults>>

API(v) ==
    \/ StartUpload(v) \/ SendPart(v) \/ FinishUpload(v)
    \/ AnalyseRecording(v) \/ CopyIn(v) \/ CopyFails(v) \/ EndCopy(v)
    \/ Reanalyse(v) \/ Hold(v) \/ LiftHold(v)
    \/ AskDelete(v) \/ Delete(v) \/ CancelUpload(v)

Removal == ListDue \/ RemoveRow \/ RemovalFails \/ \E v \in Videos : RemoveFiles(v)

Work(w) ==
    \/ \E v \in Videos : Release(w, v) \/ Claim(w, v)
    \/ Probe(w) \/ ClearFiles(w) \/ ClearRows(w) \/ PutPicture(w) \/ AddRow(w)
    \/ ReaderEnds(w) \/ Finish(w) \/ Unreadable(w) \/ Stop(w)

Next ==
    \/ \E v \in Videos : API(v)
    \/ RestartAPI \/ Removal \/ Tick
    \/ \E w \in Workers : Work(w) \/ Hang(w) \/ Crash(w)

Spec == Init /\ [][Next]_vars

\* The workers sweep, those that do not hang, and are started again; time passes.
FairSpec == Spec /\ WF_vars(Tick) /\ \A w \in Workers : WF_vars(Work(w))

-----------------------------------------------------------------------------
(* Correctness.                                                            *)

\* A READY video has a picture and a row for every second up to the last that was read,
\* and that is the last there is unless the reader broke off - through failures, crashes,
\* attempts and repeated analyses. Otherwise it was taken from a worker that was only
\* slow, which then went on beside the next, or its files were being removed.
ReadyIsComplete == \A v \in Videos : Is(v, "READY") /\ v \notin overrun \cup cut =>
    \E n \in Seconds : rows[v] = 1..n /\ 1..n \subseteq files[v] /\ (n = Length \/ v \in short)

\* A file of a video that is gone was written after the removal had begun, by a worker
\* or a copy that did not know; no removal leaves one behind, wherever it breaks off.
LeftoversAreLate == \A v \in Videos : Is(v, "GONE") /\ files[v] # {} => v \in late

\* A video under a hold loses its file only to what had set out to remove it before: the
\* daily removal, which lists what it removes, and a request that looked for a hold and
\* then waited for the row.
HeldLostOnlyToEarlier == [][\A v \in held :
    /\ Original \in files[v] /\ Original \notin files'[v] => v \in purge.list \cup asked
    /\ v \in purge'.list \cup asked' => v \in purge.list \cup asked]_vars

\* A video that waits is analysed or failed in the end, or it is removed, though workers
\* die over it, doorbells are lost and readers hang - unless every worker hangs.
EveryVideoEnds == \A v \in Videos :
    Is(v, "QUEUED") ~> \/ video[v].status \in {"READY", "FAILED", "GONE"}
                       \/ \A w \in Workers : worker[w].at = "stuck"

\* "leaves alone anything under an evidence hold" (the design of Footage Review;
\* services/evidence_hold.py). It does not hold: see HeldLostOnlyToEarlier.
HeldIsKept == [][\A v \in held : Original \in files[v] => Original \in files'[v]]_vars

=============================================================================
