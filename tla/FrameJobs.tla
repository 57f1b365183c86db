------------------------------ MODULE FrameJobs ------------------------------
(***************************************************************************)
(* What a consumer group of the frame queue promises its workers: a frame  *)
(* is given out, and given out again if it came to nothing, until it has   *)
(* been processed and acknowledged or is discarded.  It may be given to    *)
(* two workers at once, and once more after it was processed; it is never  *)
(* acknowledged unprocessed and never given out after it was settled.      *)
(*                                                                         *)
(* FrameQueue implements this; BreachAlerts is built on it.                *)
(***************************************************************************)
CONSTANTS
    Jobs,       \* a frame, or a frame for one of several groups
    Workers,
    NoJob       \* what an idle worker works on

VARIABLES
    job,        \* where each job stands
    working,    \* the job each worker has in hand
    done        \* the jobs processed, whose effects are committed

jobVars == <<job, working, done>>

Standings == {"none", "open", "acked", "dropped"}

JobsTypeOK ==
    /\ job \in [Jobs -> Standings]
    /\ working \in [Workers -> Jobs \cup {NoJob}]
    /\ done \subseteq Jobs

JobsInit ==
    /\ job = [j \in Jobs |-> "none"]
    /\ working = [w \in Workers |-> NoJob]
    /\ done = {}

\* Frames are published, for every group that reads them; a full stream lets its
\* oldest frames K go.
Publish(J, K) ==
    /\ \A j \in J : job[j] = "none"
    /\ job' = [j \in Jobs |-> IF j \in J THEN "open" ELSE IF j \in K /\ job[j] = "open" THEN "dropped" ELSE job[j]]
    /\ UNCHANGED <<working, done>>

Give(w, j) ==
    /\ working[w] = NoJob /\ job[j] = "open"
    /\ working' = [working EXCEPT ![w] = j]
    /\ UNCHANGED <<job, done>>

\* The worker's transaction commits.
Process(w) ==
    /\ working[w] # NoJob
    /\ done' = done \cup {working[w]}
    /\ UNCHANGED <<job, working>>

\* XACK; it finds nothing if the job was discarded meanwhile.
Settle(w) ==
    /\ working[w] \in done
    /\ job' = [job EXCEPT ![working[w]] = IF @ = "open" THEN "acked" ELSE @]
    /\ working' = [working EXCEPT ![w] = NoJob]
    /\ UNCHANGED done

\* Failed, or the worker died.
GiveBack(W) ==
    /\ working' = [w \in Workers |-> IF w \in W THEN NoJob ELSE working[w]]
    /\ UNCHANGED <<job, done>>

\* Dead-lettered, or lost with the stream; workers may stop with it.
Discard(J, W) ==
    /\ job' = [j \in Jobs |-> IF j \in J /\ job[j] = "open" THEN "dropped" ELSE job[j]]
    /\ working' = [w \in Workers |-> IF w \in W THEN NoJob ELSE working[w]]
    /\ UNCHANGED done

JobsNext ==
    \/ \E J, K \in SUBSET Jobs : Publish(J, K)
    \/ \E w \in Workers : Process(w) \/ Settle(w) \/ \E j \in Jobs : Give(w, j)
    \/ \E W \in SUBSET Workers : GiveBack(W) \/ \E J \in SUBSET Jobs : Discard(J, W)

JobsSpec == JobsInit /\ [][JobsNext]_jobVars
=============================================================================
