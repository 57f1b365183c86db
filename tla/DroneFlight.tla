----------------------------- MODULE DroneFlight -----------------------------
(***************************************************************************)
(* A patrol flight from "ready" to its outcome: who may launch it, who     *)
(* carries out an operator's command, and what the record says in the end. *)
(*                                                                         *)
(* The centre keeps a record per session.  The drone runner flies the      *)
(* sessions of directly connected drones and watches over the others,      *)
(* which a site edge gateway claims and flies, on through lost links and   *)
(* restarts.  What the gateway reports reaches the centre as module        *)
(* Delivery promises: each row once, a flight's updates in order, at any   *)
(* time later.  Time is the events "the claim window is over" and "nothing *)
(* was heard for too long".                                                *)
(***************************************************************************)
EXTENDS Naturals, Sequences, FiniteSets

CONSTANTS
    Sessions,       \* patrol sessions that may be created
    Edge,           \* those behind a site edge gateway; the runner flies the rest
    DroneOf,        \* the drone each session flies
    Commands,       \* operator commands that may be given
    None,           \* no command, no session
    Kinds,          \* which commands operators give, a subset of AllKinds
    MayFault,       \* whether the aircraft may report a fault
    LateAnswers,    \* whether a provider call may take effect and yet time out
    AdapterRaises,  \* whether the adapter, asked to command a flight it never
                    \* started, raises an error that is not a ProviderError
    MaxUpdates,     \* bound: updates recorded per flight
    MaxCrashes      \* bound: restarts of the gateway and rollbacks of the runner

\* RETURN_TO_HOME is handled as ABORT is, everywhere.
AllKinds == {"CANCEL", "ABORT", "PAUSE", "RESUME"}

ASSUME SessionsAssumption ==
    /\ Edge \subseteq Sessions /\ DOMAIN DroneOf = Sessions
    /\ None \notin Sessions \cup Commands /\ Kinds \subseteq AllKinds
ASSUME BoundsAssumption ==
    /\ MayFault \in BOOLEAN /\ LateAnswers \in BOOLEAN /\ AdapterRaises \in BOOLEAN
    /\ MaxUpdates \in Nat \ {0} /\ MaxCrashes \in Nat

Direct      == Sessions \ Edge
BeforeLaunch == {"READY"}      \* SCHEDULED and PRECHECK fare as READY does
Airborne    == {"LAUNCHING", "ACTIVE", "PAUSED", "RETURNING"}
InFlight    == BeforeLaunch \cup Airborne
Outcomes    == {"COMPLETED", "FAILED", "ABORTED"}
Terminal    == Outcomes \cup {"CANCELLED", "BLOCKED", "MISSED"}
Codes       == {"none", "EDGE_NOT_CLAIMED", "EDGE_UNREACHABLE", "FAULT"}
Answers     == {"DONE", "REJECTED", "FAILED"}

\* A provider's update; "LANDED" is a phase and not a status.
Update == [phase : Airborne \cup {"LANDED"}, outcome : Outcomes \cup {"none"}, fault : BOOLEAN, launched : BOOLEAN]

VARIABLES
    \* The centre's database.
    flight,     \* drone_patrol_sessions: status, failure code, claim, clocks
    cmd,        \* drone_session_commands
    \* The runner's memory: ids read before the rows are locked one by one.
    listed, watched,
    \* The gateway's disk.
    local,      \* its sessions table; log is every update it recorded
    inbox,      \* its commands table, with the outcome on its way to the centre
    \* The gateway's memory.
    pc, ready,
    \* The link.
    mail,       \* the assignment in the answer to a sync, or none
    claims,     \* claim requests on their way
    \* The aircraft, external.
    air,
    \* Bounds and history.
    crashes,
    hands       \* who carried out a command

centre == <<flight, cmd>>
gateway == <<local, inbox, pc, ready>>
link == <<mail, claims>>
vars == <<flight, cmd, listed, watched, local, inbox, pc, ready, mail, claims, air, crashes, hands>>

Idle == [at |-> "idle", s |-> None, c |-> None, up |-> None]
NoMail == [claimed |-> {}, ready |-> {}, commands |-> {}, sent |-> FALSE]

TypeOK ==
    /\ flight \in [Sessions -> [status : InFlight \cup Terminal \cup {"none"}, code : Codes, claimed : BOOLEAN,
                                seq : 0..MaxUpdates, silent : BOOLEAN, late : BOOLEAN]]
    /\ cmd \in [Commands -> [kind : AllKinds \cup {"none"}, s : Sessions \cup {None},
                             status : Answers \cup {"none", "checked", "PENDING"}]]
    /\ listed \subseteq Commands /\ watched \subseteq Edge
    /\ local \in [Edge -> [known : BOOLEAN, started : BOOLEAN, phase : Airborne \cup {"none", "LANDED"},
                           outcome : Outcomes \cup {"none"}, log : Seq(Update), sent : 0..MaxUpdates]]
    /\ \A s \in Edge : local[s].sent <= Len(local[s].log) /\ Len(local[s].log) <= MaxUpdates
    /\ inbox \in [Commands -> [at : {"none", "open", "done", "sent"}, result : Answers \cup {"none"},
                               after : 0..MaxUpdates]]
    /\ pc.at \in {"idle", "called", "recorded", "claim", "granted"}
    /\ ready \subseteq Edge /\ claims \subseteq Edge
    /\ mail.claimed \subseteq Edge /\ mail.ready \subseteq Edge /\ mail.commands \subseteq Commands
    /\ air \in [Sessions -> [at : Airborne \cup {"GROUND", "LANDED"}, ordered : BOOLEAN, fault : BOOLEAN,
                             result : Outcomes \cup {"none"}]]
    /\ crashes \in 0..MaxCrashes
    /\ hands \in [Commands -> SUBSET {"runner", "gateway"}]

Init ==
    /\ flight = [s \in Sessions |-> [status |-> "none", code |-> "none", claimed |-> FALSE, seq |-> 0,
                                     silent |-> FALSE, late |-> FALSE]]
    /\ cmd = [c \in Commands |-> [kind |-> "none", s |-> None, status |-> "none"]]
    /\ listed = {} /\ watched = {}
    /\ local = [s \in Edge |-> [known |-> FALSE, started |-> FALSE, phase |-> "none", outcome |-> "none",
                                log |-> <<>>, sent |-> 0]]
    /\ inbox = [c \in Commands |-> [at |-> "none", result |-> "none", after |-> 0]]
    /\ pc = Idle /\ ready = {} /\ mail = NoMail /\ claims = {}
    /\ air = [s \in Sessions |-> [at |-> "GROUND", ordered |-> FALSE, fault |-> FALSE, result |-> "none"]]
    /\ crashes = 0
    /\ hands = [c \in Commands |-> {}]

-----------------------------------------------------------------------------
(* The aircraft and its provider adapter (external).                       *)

Flying(s) == air[s].at \in Airborne

\* What the aircraft makes of an instruction: one that makes no sense to it is
\* answered with its state and changes nothing.
Obeyed(what, a) ==
    IF what = "START" /\ a.at = "GROUND" THEN [a EXCEPT !.at = "LAUNCHING"]
    ELSE IF what = "PAUSE" /\ a.at \in {"LAUNCHING", "ACTIVE"} THEN [a EXCEPT !.at = "PAUSED"]
    ELSE IF what = "RESUME" /\ a.at = "PAUSED" THEN [a EXCEPT !.at = "ACTIVE"]
    ELSE IF what = "ABORT" /\ a.at \in {"LAUNCHING", "ACTIVE", "PAUSED"}
         THEN [a EXCEPT !.at = "RETURNING", !.ordered = TRUE]
    ELSE a

\* The update the adapter answers with.
Report(a, launched) == [phase |-> a.at, outcome |-> a.result, fault |-> a.fault, launched |-> launched]

\* The flight goes on by itself: it reaches its waypoints, turns for home, or
\* breaks its patrol off for a fault, which it then reports until it has landed.
Progress(s) ==
    /\ \/ air[s].at = "LAUNCHING" /\ air' = [air EXCEPT ![s].at = "ACTIVE"]
       \/ air[s].at = "ACTIVE" /\ air' = [air EXCEPT ![s].at = "RETURNING"]
       \/ /\ MayFault /\ air[s].at \in {"LAUNCHING", "ACTIVE", "PAUSED"}
          /\ air' = [air EXCEPT ![s].at = "RETURNING", ![s].fault = TRUE]
       \/ /\ air[s].at = "RETURNING"
          /\ \E result \in IF air[s].ordered THEN {"ABORTED"}
                           ELSE IF air[s].fault THEN {"COMPLETED", "FAILED"} ELSE {"COMPLETED"} :
                air' = [air EXCEPT ![s].at = "LANDED", ![s].result = result]
    /\ UNCHANGED <<centre, listed, watched, gateway, link, crashes, hands>>

\* A call that failed or timed out: the aircraft may have obeyed all the same.
Unanswered(what, s) ==
    air' \in {air} \cup (IF LateAnswers THEN {[air EXCEPT ![s] = Obeyed(what, @)]} ELSE {})

-----------------------------------------------------------------------------
(* Operators.                                                              *)

\* create_session: ready to fly, if no flight in progress holds the drone.
Create(s) ==
    /\ flight[s].status = "none"
    /\ \A t \in Sessions : DroneOf[t] = DroneOf[s] => flight[t].status \notin InFlight
    /\ flight' = [flight EXCEPT ![s].status = "READY"]
    /\ UNCHANGED <<cmd, listed, watched, gateway, link, air, crashes, hands>>

\* _command_allowed, from the status read.
Allowed(kind, status) ==
    /\ status \in InFlight
    /\ kind = "CANCEL" => status \in BeforeLaunch
    /\ kind = "PAUSE"  => status = "ACTIVE"
    /\ kind = "RESUME" => status = "PAUSED"

\* _queue reads the session, judges the command, and inserts it; the session may
\* change in between.
Judge(c, s, kind) ==
    /\ cmd[c].status = "none" /\ Allowed(kind, flight[s].status)
    /\ cmd' = [cmd EXCEPT ![c] = [kind |-> kind, s |-> s, status |-> "checked"]]
    /\ UNCHANGED <<flight, listed, watched, gateway, link, air, crashes, hands>>

\* The same command already waiting is the same command.
Insert(c) ==
    /\ cmd[c].status = "checked"
    /\ \A d \in Commands : cmd[d].s = cmd[c].s /\ cmd[d].kind = cmd[c].kind => cmd[d].status # "PENDING"
    /\ cmd' = [cmd EXCEPT ![c].status = "PENDING"]
    /\ UNCHANGED <<flight, listed, watched, gateway, link, air, crashes, hands>>

-----------------------------------------------------------------------------
(* drone_sessions.record_update: one update onto the record.               *)

\* (Faulty: a phase that is no status is written all the same.)
RecordedAsSaid(f, up) ==
    [f EXCEPT !.status = IF up.outcome # "none" THEN up.outcome ELSE up.phase,
              !.code   = IF up.fault THEN "FAULT" ELSE @]

Recorded(f, up) ==
    [f EXCEPT !.status = IF up.outcome # "none" THEN up.outcome
                         ELSE IF up.phase \in Airborne THEN up.phase ELSE @,
              !.code   = IF up.fault THEN "FAULT" ELSE @]

\* last_tick_at is the update's own time: news may come too late to matter.
Heard(s, f) == \E still \in {FALSE, flight[s].silent} :
    flight' = [flight EXCEPT ![s] = [f EXCEPT !.silent = still]]

EndSession(s, status, code) ==
    flight' = [flight EXCEPT ![s].status = status, ![s].code = IF code = "none" THEN @ ELSE code]

-----------------------------------------------------------------------------
(* The drone runner: commands.                                             *)

\* A claimed edge session's commands are the gateway's to collect.
\* (Faulty: claimed or not.)
GatewaysOwnAny(c) == cmd[c].s \in Edge

GatewaysOwn(c) == cmd[c].s \in Edge /\ flight[cmd[c].s].claimed

\* (Faulty: a runner that knows nothing of gateways.)
RunnersOwnAny(c) == TRUE

RunnersOwn(c) == ~GatewaysOwn(c)

ListCommands ==
    /\ listed = {}
    /\ listed' = {c \in Commands : cmd[c].status = "PENDING" /\ RunnersOwn(c)}
    /\ UNCHANGED <<centre, watched, gateway, link, air, crashes, hands>>

\* What the runner does about a command at once; "call" when the aircraft must be asked.
RunnersRule(kind, status) ==
    IF status \in Terminal THEN "REJECTED"
    ELSE IF kind \in {"CANCEL", "ABORT"} /\ status \in BeforeLaunch THEN "cancel"
    ELSE IF kind = "CANCEL" THEN "REJECTED"
    ELSE IF kind = "ABORT" /\ status = "RETURNING" THEN "DONE"
    ELSE IF kind = "PAUSE" /\ status # "ACTIVE" THEN "REJECTED"
    ELSE IF kind = "RESUME" /\ status # "PAUSED" THEN "REJECTED"
    ELSE "call"

Answer(c, status) == cmd' = [cmd EXCEPT ![c].status = status]

\* A refusal, an error or a timeout. (Faulty: the error is not caught, and the
\* command waits on.)
AnswerFailureNever(c) == UNCHANGED cmd

AnswerFailure(c) == \E a \in {"REJECTED", "FAILED"} : Answer(c, a)

\* Claimed by its gateway since the list was read, or no longer waiting: looked
\* at again under the lock. (A claim is refused while a stop waits, so this guard
\* is a second line of defence.)
Passed(c) == cmd[c].status # "PENDING" \/ ~RunnersOwn(c)

CarryOut(c) ==
    LET s == cmd[c].s
        rule == RunnersRule(cmd[c].kind, flight[s].status)
    IN  \/ /\ rule \in Answers /\ Answer(c, rule)
           /\ UNCHANGED <<flight, air, crashes, hands>>
        \/ /\ rule = "cancel" /\ Answer(c, "DONE") /\ EndSession(s, "CANCELLED", "none")
           /\ hands' = [hands EXCEPT ![c] = @ \cup {"runner"}]
           /\ UNCHANGED <<air, crashes>>
        \/ /\ rule = "call"
           /\ \/ /\ air' = [air EXCEPT ![s] = Obeyed(cmd[c].kind, @)]
                 /\ Heard(s, Recorded(flight[s], Report(air'[s], FALSE)))
                 /\ Answer(c, "DONE") /\ hands' = [hands EXCEPT ![c] = @ \cup {"runner"}]
                 /\ UNCHANGED crashes
              \/ /\ Unanswered(cmd[c].kind, s) /\ AnswerFailure(c)
                 /\ UNCHANGED <<flight, crashes, hands>>
              \* The transaction is lost after the call.
              \/ /\ crashes < MaxCrashes /\ crashes' = crashes + 1
                 /\ air' = [air EXCEPT ![s] = Obeyed(cmd[c].kind, @)]
                 /\ UNCHANGED <<flight, cmd, hands>>

\* process_commands: one command, its session's row locked throughout.
RunCommand(c) ==
    /\ c \in listed /\ listed' = listed \ {c}
    /\ IF Passed(c) THEN UNCHANGED <<centre, air, crashes, hands>> ELSE CarryOut(c)
    /\ UNCHANGED <<watched, gateway, link>>

-----------------------------------------------------------------------------
(* The drone runner: the flights it flies itself (advance_flights).        *)

\* Re-check, start the mission, record.
Launch(s) ==
    /\ s \in Direct /\ flight[s].status \in BeforeLaunch
    /\ \/ EndSession(s, "BLOCKED", "none") /\ UNCHANGED <<air, crashes>>
       \/ /\ air' = [air EXCEPT ![s] = Obeyed("START", @)]
          /\ Heard(s, Recorded(flight[s], Report(air'[s], TRUE))) /\ UNCHANGED crashes
       \* The provider refused or did not answer.
       \/ Unanswered("START", s) /\ EndSession(s, "FAILED", "none") /\ UNCHANGED crashes
       \/ /\ crashes < MaxCrashes /\ crashes' = crashes + 1
          /\ air' = [air EXCEPT ![s] = Obeyed("START", @)] /\ UNCHANGED flight
    /\ UNCHANGED <<cmd, listed, watched, gateway, link, hands>>

\* Telemetry; silence beyond STALE_AFTER gives the flight up. (Drones with a
\* flight are never deleted and the plan is frozen, so neither disappears.)
Fly(s) ==
    /\ s \in Direct /\ flight[s].status \in Airborne
    /\ \/ Heard(s, Recorded(flight[s], Report(air[s], FALSE)))
       \/ flight[s].silent /\ EndSession(s, "FAILED", "none")
    /\ UNCHANGED <<cmd, listed, watched, gateway, link, air, crashes, hands>>

-----------------------------------------------------------------------------
(* The drone runner: watching over the gateways' flights.                  *)

\* (Faulty: the claim is not looked at.)
UnclaimedOrNot(s) == flight[s].status \in InFlight /\ flight[s].late

Unclaimed(s) == flight[s].status \in InFlight /\ ~flight[s].claimed /\ flight[s].late
Silent(s)    == flight[s].status \in InFlight /\ flight[s].claimed /\ flight[s].silent

ListWatched ==
    /\ watched = {}
    /\ watched' = {s \in Edge : Unclaimed(s) \/ Silent(s)}
    /\ UNCHANGED <<centre, listed, gateway, link, air, crashes, hands>>

\* The row is locked and judged again.
Watch(s) ==
    /\ s \in watched /\ watched' = watched \ {s}
    /\ IF Unclaimed(s) THEN EndSession(s, "MISSED", "EDGE_NOT_CLAIMED")
       ELSE IF Silent(s) THEN EndSession(s, "FAILED", "EDGE_UNREACHABLE")
       ELSE UNCHANGED flight
    /\ UNCHANGED <<cmd, listed, gateway, link, air, crashes, hands>>

\* EDGE_CLAIM_WINDOW, STALE_AFTER and EDGE_STALE_AFTER pass. Nothing on the link
\* lives that long: every call of the gateway times out in seconds.
Quiet == mail = NoMail /\ claims = {} /\ pc.at # "claim"

Wait(s) ==
    /\ Quiet /\ flight[s].status \in InFlight
    /\ \/ s \in Edge /\ ~flight[s].claimed /\ ~flight[s].late /\ flight' = [flight EXCEPT ![s].late = TRUE]
       \/ /\ ~flight[s].silent /\ (s \in Edge => flight[s].claimed) /\ flight[s].status \in Airborne
          /\ flight' = [flight EXCEPT ![s].silent = TRUE]
    /\ UNCHANGED <<cmd, listed, watched, gateway, link, air, crashes, hands>>

-----------------------------------------------------------------------------
(* The centre: what a gateway asks of it (drone_edge_sync).                *)

\* A session the gateway flies: known to it and not over. Its open commands.
Live(s) == local[s].known /\ local[s].outcome = "none"
Open(s) == {c \in Commands : inbox[c].at = "open" /\ cmd[c].s = s}

CommandWaits == \E s \in Edge : Live(s) /\ Open(s) # {}

\* assignment: what the gateway should be doing now. A cycle's commands come
\* before its sync.
Sync ==
    /\ pc = Idle /\ mail = NoMail /\ ~CommandWaits
    /\ mail' = [claimed |-> {s \in Edge : flight[s].claimed /\ flight[s].status \in InFlight},
                ready |-> {s \in Edge : ~flight[s].claimed /\ flight[s].status \in InFlight},
                commands |-> {c \in Commands : /\ cmd[c].status = "PENDING" /\ GatewaysOwn(c)
                                               /\ flight[cmd[c].s].status \in InFlight},
                sent |-> TRUE]
    /\ UNCHANGED <<centre, listed, watched, gateway, claims, air, crashes, hands>>

Stopping(s) == \E c \in Commands : cmd[c].s = s /\ cmd[c].status = "PENDING" /\ cmd[c].kind \in {"CANCEL", "ABORT"}

\* claim: asked again, it is answered again; a closed session, a stop requested or
\* a failed pre-flight refuse it.
Grants(s)  == flight[s].claimed /\ flight[s].status \in InFlight
\* (Faulty: the status is not looked at.)
RefusesStopping(s) == ~Grants(s) /\ Stopping(s)

Refuses(s) == ~Grants(s) /\ (flight[s].status \notin BeforeLaunch \/ Stopping(s))

Claim(s) ==
    /\ s \in claims /\ claims' = claims \ {s}
    /\ \E granted \in BOOLEAN :
         /\ Grants(s) => granted
         /\ Refuses(s) => ~granted
         /\ IF Grants(s) \/ Refuses(s) THEN UNCHANGED flight
            ELSE IF granted THEN flight' = [flight EXCEPT ![s].status = "LAUNCHING", ![s].claimed = TRUE]
            ELSE EndSession(s, "BLOCKED", "none")
         \* The answer reaches a gateway still waiting for it.
         /\ IF pc.at = "claim" /\ pc.s = s
            THEN /\ pc' = IF granted THEN [pc EXCEPT !.at = "granted"] ELSE Idle
                 /\ ready' = ready \ {s}
            ELSE UNCHANGED <<pc, ready>>
    /\ UNCHANGED <<cmd, listed, watched, local, inbox, mail, air, crashes, hands>>

\* _apply_update: the next update of a flight. A session closed for silence takes
\* it; its status waits for the outcome, which also clears the verdict.
Correctable(f) == f.code = "EDGE_UNREACHABLE"

\* (Faulty: the verdict stands; the closed session is reopened.)
CorrectedNever(f, up) ==
    IF f.status \notin Terminal THEN Recorded(f, up) ELSE Recorded(f, [up EXCEPT !.phase = "LANDED", !.outcome = "none"])
CorrectedReopening(f, up) == Recorded(f, up)

Corrected(f, up) ==
    IF f.status \notin Terminal THEN Recorded(f, up)
    ELSE IF up.outcome # "none" THEN Recorded([f EXCEPT !.code = "none"], up)
    ELSE Recorded(f, [up EXCEPT !.phase = "LANDED"])

Deliver(s) ==
    LET n  == local[s].sent + 1
        up == local[s].log[n]
        f  == flight[s]
    IN  /\ n <= Len(local[s].log)
        /\ local' = [local EXCEPT ![s].sent = n]
        /\ IF f.claimed /\ (f.status \in Terminal => Correctable(f))
           THEN Heard(s, [Corrected(f, up) EXCEPT !.seq = n])
           ELSE UNCHANGED flight
        /\ UNCHANGED <<cmd, listed, watched, inbox, pc, ready, link, air, crashes, hands>>

\* _apply_command: a command is closed once.
DeliverResult(c) ==
    /\ inbox[c].at = "done" /\ inbox[c].after <= local[cmd[c].s].sent
    /\ inbox' = [inbox EXCEPT ![c].at = "sent"]
    /\ IF cmd[c].status = "PENDING" THEN Answer(c, inbox[c].result) ELSE UNCHANGED cmd
    /\ UNCHANGED <<flight, listed, watched, local, pc, ready, link, air, crashes, hands>>

-----------------------------------------------------------------------------
(* The gateway.                                                            *)

\* add_session: a session claimed, or found to have been. The centre knows whether
\* an update of it has been recorded.
\* (Faulty: an adopted flight is taken to have been started.)
AddedStarted(s, l) ==
    IF l.known THEN l
    ELSE [l EXCEPT !.known = TRUE, !.started = TRUE, !.phase = "none", !.outcome = "none",
                   !.log = SubSeq(@, 1, flight[s].seq), !.sent = flight[s].seq]

Added(s, l) ==
    IF l.known THEN l
    ELSE [l EXCEPT !.known = TRUE, !.started = flight[s].seq > 0, !.phase = "none", !.outcome = "none",
                   !.log = SubSeq(@, 1, flight[s].seq), !.sent = flight[s].seq]

\* _take: adopt what was claimed before a restart, collect commands, note what may
\* be claimed.
Take ==
    /\ mail # NoMail /\ mail' = NoMail
    /\ local' = [s \in Edge |-> IF s \in mail.claimed THEN Added(s, local[s]) ELSE local[s]]
    /\ inbox' = [c \in Commands |-> IF c \in mail.commands /\ local'[cmd[c].s].known /\ inbox[c].at = "none"
                                    THEN [inbox[c] EXCEPT !.at = "open"] ELSE inbox[c]]
    /\ ready' = mail.ready
    /\ UNCHANGED <<centre, listed, watched, pc, claims, air, crashes, hands>>

\* The answer to a sync is lost on the way: offline, nothing is claimed.
LoseMail ==
    /\ mail # NoMail /\ mail' = NoMail /\ ready' = {}
    /\ UNCHANGED <<centre, listed, watched, local, inbox, pc, claims, air, crashes, hands>>

\* A drone that flies takes no second flight, whatever the centre believes of the
\* first. (Faulty: only the same session counts.)
FreeToFlyUnchecked(s) == ~Live(s)

FreeToFly(s) == \A t \in Edge : DroneOf[t] = DroneOf[s] => ~Live(t)

\* _claim_ready: ask for a session that is ready.
AskClaim(s) ==
    /\ pc = Idle /\ mail = NoMail /\ s \in ready /\ FreeToFly(s)
    /\ claims' = claims \cup {s} /\ pc' = [Idle EXCEPT !.at = "claim", !.s = s]
    /\ UNCHANGED <<centre, listed, watched, local, inbox, ready, mail, air, crashes, hands>>

\* No answer in time: offline, nothing is claimed before the next sync. The
\* request may arrive all the same.
GiveUpClaim ==
    /\ pc.at = "claim" /\ pc' = Idle /\ ready' = {}
    /\ UNCHANGED <<centre, listed, watched, local, inbox, link, air, crashes, hands>>

LoseClaim(s) ==
    /\ s \in claims /\ claims' = claims \ {s}
    /\ UNCHANGED <<centre, listed, watched, gateway, mail, air, crashes, hands>>

AddClaimed ==
    /\ pc.at = "granted" /\ pc' = Idle
    /\ local' = [local EXCEPT ![pc.s] = Added(pc.s, @)]
    /\ UNCHANGED <<centre, listed, watched, inbox, ready, link, air, crashes, hands>>

\* _command: the rules of the central runner, on the phase the gateway knows.
GatewaysRule(kind, phase) ==
    IF kind = "CANCEL" THEN "REJECTED"
    ELSE IF kind = "ABORT" /\ phase = "RETURNING" THEN "DONE"
    ELSE IF kind = "PAUSE" /\ phase # "ACTIVE" THEN "REJECTED"
    ELSE IF kind = "RESUME" /\ phase # "PAUSED" THEN "REJECTED"
    ELSE "call"

\* finish_command: closed here, and its outcome queued behind the updates so far.
Finished(c, result) ==
    inbox' = [inbox EXCEPT ![c] = [at |-> "done", result |-> result, after |-> Len(local[cmd[c].s].log)]]

Room(s) == Len(local[s].log) < MaxUpdates

\* A command waiting: answered by rule, refused, failed - or carried out, and then
\* recorded and closed in steps of their own. Commands come before the launch; an
\* adapter that raises on a flight it never started ends the cycle there.
StepCommand(s, c) ==
    LET rule == GatewaysRule(cmd[c].kind, local[s].phase)
    IN  /\ pc = Idle /\ mail = NoMail /\ Live(s) /\ c \in Open(s)
        /\ \/ /\ rule \in Answers /\ Finished(c, rule)
              /\ UNCHANGED <<pc, air>>
           \/ /\ rule = "call" /\ ~local[s].started /\ ~AdapterRaises /\ Finished(c, "FAILED")
              /\ UNCHANGED <<pc, air>>
           \/ /\ rule = "call" /\ local[s].started /\ Room(s)
              /\ \/ /\ air' = [air EXCEPT ![s] = Obeyed(cmd[c].kind, @)]
                    /\ pc' = [at |-> "called", s |-> s, c |-> c, up |-> Report(air'[s], FALSE)]
                    /\ UNCHANGED inbox
                 \/ /\ Unanswered(cmd[c].kind, s) /\ \E a \in {"REJECTED", "FAILED"} : Finished(c, a)
                    /\ UNCHANGED pc
        /\ UNCHANGED <<centre, listed, watched, local, ready, link, crashes, hands>>

\* The mission is started, or its telemetry taken (an update that only repeats
\* the last one is left out).
StepFlight(s) ==
    /\ pc = Idle /\ mail = NoMail /\ Live(s) /\ Open(s) = {} /\ Room(s)
    /\ \/ /\ local[s].started /\ local[s].phase # air[s].at
          /\ pc' = [at |-> "called", s |-> s, c |-> None, up |-> Report(air[s], FALSE)]
          /\ UNCHANGED air
       \/ /\ ~local[s].started /\ air' = [air EXCEPT ![s] = Obeyed("START", @)]
          /\ pc' = [at |-> "called", s |-> s, c |-> None, up |-> Report(air'[s], TRUE)]
       \/ ~local[s].started /\ Unanswered("START", s) /\ UNCHANGED pc
    /\ UNCHANGED <<centre, listed, watched, local, inbox, ready, link, crashes, hands>>

\* record_update: the session's number, its state and the outbox row, together.
Record ==
    LET s == pc.s
    IN  /\ pc.at = "called"
        /\ local' = [local EXCEPT ![s].log = Append(@, pc.up), ![s].started = TRUE, ![s].phase = pc.up.phase,
                                  ![s].outcome = IF pc.up.outcome # "none" THEN pc.up.outcome ELSE @]
        /\ pc' = IF pc.c = None THEN Idle ELSE [pc EXCEPT !.at = "recorded"]
        /\ UNCHANGED <<centre, listed, watched, inbox, ready, link, air, crashes, hands>>

FinishCommand ==
    /\ pc.at = "recorded" /\ Finished(pc.c, "DONE") /\ pc' = Idle
    /\ hands' = [hands EXCEPT ![pc.c] = @ \cup {"gateway"}]
    /\ UNCHANGED <<centre, listed, watched, local, ready, link, air, crashes>>

\* The gateway restarts with what its disk holds.
Crash ==
    /\ crashes < MaxCrashes /\ crashes' = crashes + 1
    /\ pc' = Idle /\ ready' = {} /\ mail' = NoMail
    /\ UNCHANGED <<centre, listed, watched, local, inbox, claims, air, hands>>

\* prune_sessions: a flight that is over and fully reported is forgotten.
Prune(s) ==
    /\ pc = Idle /\ mail = NoMail
    /\ local[s].known /\ local[s].outcome # "none" /\ local[s].sent = Len(local[s].log)
    /\ local' = [local EXCEPT ![s].known = FALSE]
    /\ UNCHANGED <<centre, listed, watched, inbox, pc, ready, link, air, crashes, hands>>

-----------------------------------------------------------------------------
Operators ==
    \/ \E s \in Sessions : Create(s)
    \/ \E c \in Commands, s \in Sessions, kind \in Kinds : Judge(c, s, kind)
    \/ \E c \in Commands : Insert(c)

Runner ==
    \/ ListCommands \/ \E c \in Commands : RunCommand(c)
    \/ \E s \in Sessions : Launch(s) \/ Fly(s)
    \/ ListWatched \/ \E s \in Edge : Watch(s)

Link ==
    \/ Sync \/ LoseMail
    \/ \E s \in Edge : Claim(s) \/ LoseClaim(s) \/ Deliver(s)
    \/ \E c \in Commands : DeliverResult(c)

Gateway ==
    \/ Take \/ GiveUpClaim \/ AddClaimed \/ Record \/ FinishCommand \/ Crash
    \/ \E s \in Edge : AskClaim(s) \/ StepFlight(s) \/ Prune(s)
    \/ \E s \in Edge, c \in Commands : StepCommand(s, c)

World == \E s \in Sessions : Progress(s) \/ Wait(s)

Next == Operators \/ Runner \/ Link \/ Gateway \/ World

Spec == Init /\ [][Next]_vars

-----------------------------------------------------------------------------
(* Correctness.                                                            *)

\* A session closed before launch - cancelled by an operator, refused by
\* pre-flight, missed - has never flown and never will, however the close raced
\* the gateway's claim.
ClosedNeverFlew == \A s \in Edge :
    flight[s].status \in {"CANCELLED", "BLOCKED", "MISSED"} => air[s].at = "GROUND" /\ ~local[s].known

\* A drone never has two flights in the air, though the centre gives a silent
\* flight up and lets the drone go while the gateway may still be flying it.
OneInTheAir == \A s, t \in Edge :
    s # t /\ DroneOf[s] = DroneOf[t] => ~(Flying(s) /\ Flying(t))

\* What the runner has carried out, the gateway never collects, though sessions
\* are claimed while the runner works through its list.
OneCommander == \A c \in Commands : "runner" \in hands[c] => inbox[c].at = "none"

\* An operator told that the stop was done can rely on it: a cancelled mission is
\* on the ground for good, an aborted one is on its way home or down.
StopsStop == \A c \in Commands : cmd[c].kind \in {"CANCEL", "ABORT"} /\ cmd[c].status = "DONE" =>
    air[cmd[c].s].at \in {"GROUND", "RETURNING", "LANDED"}

\* No ended session is reopened; only a verdict of silence is replaced, by the
\* outcome the gateway reports.
EndedStaysEnded == [][\A s \in Sessions : flight[s].status \in Terminal =>
    /\ flight'[s].status \in Terminal
    /\ flight[s].code # "EDGE_UNREACHABLE" => flight'[s].status = flight[s].status]_flight

\* drone_edge_sync.py, "A LATE RECORD CORRECTS A GUESS": when the gateway has told
\* all it knows of a flight that is over, the record says what really happened.
LateRecordCorrects == \A s \in Edge :
    local[s].outcome # "none" /\ local[s].sent = Len(local[s].log) => flight[s].status = local[s].outcome

\* DRONE_PATROL_EDGE.md: when the link is down, "no new flight starts" - least of
\* all one the centre has closed meanwhile.
NoLaunchAfterClosing == [][\A s \in Edge :
    air[s].at = "GROUND" /\ air'[s].at # "GROUND" => flight[s].status \notin Terminal]_<<air, flight>>

-----------------------------------------------------------------------------
(* Progress. The runner ticks, the gateway cycles, a restart does not repeat *)
(* for ever, and the link comes back again and again for a whole exchange.   *)

Answering(s) == StepFlight(s) /\ pc'.at = "called"

Fairness ==
    /\ WF_vars(ListCommands) /\ \A c \in Commands : WF_vars(RunCommand(c))
    /\ WF_vars(AddClaimed) /\ WF_vars(Record) /\ WF_vars(FinishCommand) /\ WF_vars(GiveUpClaim)
    /\ \A s \in Edge :
         /\ WF_vars(\E c \in Commands : StepCommand(s, c))
         /\ SF_vars(Answering(s))
         /\ WF_vars(~CommandWaits /\ Deliver(s))
         /\ WF_vars(Progress(s))
    /\ WF_vars(~CommandWaits /\ \E c \in Commands : DeliverResult(c))
    /\ WF_vars(Sync) /\ SF_vars(Take)

FairSpec == Spec /\ Fairness

\* Every flight a gateway has claimed ends, and its end reaches the record - though
\* the answer to the claim may be lost and the gateway restart at any moment.
EveryFlightEnds == \A s \in Edge : flight[s].claimed ~> flight[s].status \in Terminal

\* drone_edge/agent.py, "Commands first": a command collected is dealt with, unless
\* its flight ends first.
CommandsAreTaken == \A c \in Commands :
    inbox[c].at = "open" ~> inbox[c].at # "open" \/ ~Live(cmd[c].s)

\* An operator's command is answered, or its flight is over.
AnsweredInFlight == \A c \in Commands :
    cmd[c].status = "PENDING" ~> cmd[c].status # "PENDING" \/ flight[cmd[c].s].status \in Terminal

\* drone_operations.py: "Every command given to this flight ... and what became of
\* it": every command given gets its answer.
EveryCommandAnswered == \A c \in Commands : cmd[c].status = "PENDING" ~> cmd[c].status # "PENDING"

-----------------------------------------------------------------------------
(* What all this amounts to, seen from the record and the sky alone.        *)

ToldAll(s) == local[s].outcome # "none" /\ local[s].sent = Len(local[s].log)

\* The record, a failure that nobody reported told apart from one that was.
RecordOf(s) ==
    LET status == flight[s].status
    IN  IF status \in BeforeLaunch THEN "ready"
        ELSE IF status \in Airborne THEN "flying"
        ELSE IF status \in {"CANCELLED", "BLOCKED", "MISSED"} THEN "closed"
        ELSE IF status = "FAILED" /\ ~(ToldAll(s) /\ local[s].outcome = "FAILED") THEN "given up"
        ELSE status

TruthOf(s) ==
    IF air[s].at = "GROUND" THEN "ground" ELSE IF air[s].at = "LANDED" THEN air[s].result ELSE "air"

Life == INSTANCE PatrolLife WITH
    Patrols <- Edge,
    record  <- [s \in Edge |-> RecordOf(s)],
    truth   <- [s \in Edge |-> TruthOf(s)]

\* However claims, restarts, silence and late reports race: a session's record
\* becomes what was true of it, a launch was accepted, and a drone that may still
\* be up for a session given up is promised to no other.
ImplementsPatrolLife == Life!Spec

=============================================================================
