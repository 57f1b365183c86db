# Verification of SeventhAIVision

TLA+ models of the parts of SeventhAIVision whose correctness depends on the
order in which independent programs act, TLC configurations that check them on
small instances, and TLAPS proofs of the most important results for every
instance. Paths below are relative to the repository's root; `app/` stands for
`backend/app/`.

## 1. The system

A security platform: cameras are sampled into a Redis stream, AI workers turn
frames into alerts, a FastAPI backend (128 routers, PostgreSQL with row-level
security) keeps the record, background processes drive schedules, drones and
emails, and web, mobile and desktop clients show it.

| Part | State it keeps | Operations | Interacts by | What is hard |
|---|---|---|---|---|
| Edge gateway store (`app/drone_edge/store.py`) | SQLite: sessions, outbox, commands, media, rejected, meta | record_update, put_*, open_batch, close_batch, add_commands, finish_command, prune | called by the agent | crash between any two transactions; a row changed while its batch is out |
| Edge agent (`app/drone_edge/agent.py`, `drone_edge_main.py`) | the store; in memory: online, the sessions it may claim, isolation state | one cycle every 2 s: fly, health, sync, claim, upload | HTTP to the centre, calls to a provider adapter | lost answers, restarts, old information |
| Centre's side of the sync (`app/services/drone_edge_sync.py`, `app/routers/drone_edge.py`) | receipts, sessions, events, media, commands in PostgreSQL | process_batch, assignment, claim, upload_media | HTTP; shared rows with the runner | overlapping transactions, resends, one bad item in a batch |
| Drone runner (`app/services/drone_runner.py`) | none of its own (lists read, then rows locked one by one) | process_commands, advance_flights, watch_edge_sessions, schedules, health | provider adapters; shared rows | stale lists, provider calls inside a transaction, time-outs |
| Session record (`app/services/drone_sessions.py`, `app/routers/drone_operations.py`) | drone_patrol_sessions, drone_session_commands | create_session, record_update, end_session, finish_command, queue a command | shared rows | commands judged on an old status; late updates of closed flights |
| Provider adapters (`app/services/drone_providers/`) | the aircraft | start, telemetry, pause, resume, abort | called by runner or gateway | a call may time out and have taken effect |
| Frame queue (`ai-worker/worker/consumer.py`, `app/ingestion_main.py`) | Redis stream, consumer groups, pending lists | publish, read, claim stale, acknowledge, dead-letter | Redis | at-least-once delivery, crashes, poison messages |
| Zone tasks (`ai-worker/worker/dedup.py`, `tasks/intrusion_task.py`, `tasks/behavior_task.py`) | one Redis key per camera and zone; alerts in PostgreSQL | register a breach, raise an alert | the frame queue, Redis inside a database transaction | two groups share the key; it expires between two calls; a rollback leaves it |
| Email queues (`app/services/drone_report_delivery.py`, `ops_delivery.py`, `vpatrol_email.py`) | three tables of mails with status, attempts, clocks | queue, list, claim, send, record, retry | SMTP, shared rows | two workers, old lists, passes that outlast their claims, a worker that dies after the server took the mail |
| Footage Review (`app/routers/footage.py`, `ai-worker/worker/footage*`, `app/services/footage_retention.py`) | videos and their rows in PostgreSQL; files on disk | upload, copy, claim, analyse, finish, hold, delete, daily removal | the table is the queue; files and rows are never in one transaction | slow workers taken for dead, readers that end early or hang, removals that break off, holds placed meanwhile |
| Drone verification (`app/services/drone_response.py`) | verification rows | request, advance | command table | resuming over an operator's pause |
| Schedules, intelligence, webhooks, incident response, evidence, auth, roster, fleet, billing | rows in PostgreSQL | periodic jobs and handlers | shared rows | retries, leases, clocks |
| Web, mobile, desktop | client state; the mobile app has an offline outbox | user actions | HTTP, WebSocket | the offline outbox |

`PROJECT.json` lists every part with its status, and the hazards found at their
lines. What makes each part correct:

* store and sync: nothing reported is lost, nothing is applied twice, a flight's
  updates land in order, one bad item never blocks or damages the rest;
* flights: a drone has one flight in the air, a flight closed before launch never
  flies, one party carries out each command, the record ends with what really
  happened, every claimed flight and every command comes to an end;
* frame queue: a frame acknowledged is a frame whose transaction committed, none
  is lost, and two workers share one only when one of them is slow;
* zone tasks: a person who stays raises one alert, and a missing alert has a reason;
* email queues: a mail has one holder and goes out once, unless something failed at
  the worst moment or a pass outlasted its claims, and ends sent or plainly failed;
* footage: a READY video is complete up to where its reader got, a removal leaves
  nothing behind, a hold keeps a video from every removal that begins after it,
  every video that waits is analysed or failed unless all workers hang.

## 2. The modules

Each component has a module with its state and actions; `MC` + its name
instantiates it for TLC; its name + `Proofs` holds the theorems.

### EdgeOutbox - store-and-forward
The gateway's disk (`row`, `waiting`, `number`, `reading`, `opened`, `content`,
`setAside`, `wish`), its memory (`pc`, `sending`, `answer`, `marking`, `limit`,
`isolating`), the requests on their way, and the centre (`busy`, `receipt`,
`edgeSeq`, `ended`, `recorded`, `closed`, `mediaState`, `withheld`, `heard`). One
action per
transaction or call: `RecordUpdate`, `FinishCommand`, `PutEvent`, `PutMedia`,
`PollHealth` fill the outbox; `SendAgain`/`SendNew` are `open_batch` and the
request, `TakeAnswer`, `MarkMedia`, `StartIsolating`, `SetAsideInvalid`, `GiveUp`
the ways `_sync` goes on; `RefuseInvalid`, `AnswerFromReceipt`, `Begin`, `Commit`
the centre's handler; `Lose`, `Crash`, `ForgetReceipt` the faults.

Why a transaction is `Begin` and one `Commit`: `process_batch` looks for the
receipt, and the next statement updates the gateway's row, which locks it until
the commit. Two requests of one gateway can both find no receipt; after that the
second waits for the first, and under READ COMMITTED sees all it did.

What an item carries is reduced to its kind, its reference, its number and
whether the database (`unfit`) or the request's validation (`malformed`) refuses
it. `skip` stands for sightings the flight's profile ignores, `pick` for what the
recording policy says of a new file, `flying` for drones whose health is not taken
in the air, `EndSession` for every way a session ends for good.

A file goes to one of two lists. `area` are the clips that lie at a privacy area
when a batch is judged; areas are drawn and deleted, so it is chosen anew at every
judgement. A clip in it goes to `withheld` (drone_media_withheld), every other file
to `mediaState` (drone_event_media), and `NewMedia` looks for a duplicate only in
the list the file goes to, as `_apply_media` does. So a clip can be accepted once
by each, and one the centre waits for is not named by an answer that found it in an
area. A snapshot at an area is stored blank, which is being stored: it is never in
`area`.

Command, media and health rows are always `ok` by themselves. Batches
without items (heartbeats) are left out: they have no receipt and close nothing.
The rest of the answer, the assignment, is the business of DroneFlight.

### Delivery - what the outbox promises
The abstract specification: rows are submitted, the centre settles some of them,
flight by flight in order, and a row leaves the queue only after it is settled or
dropped. `EdgeOutbox!Promise` maps the outbox onto it.

### DroneFlight - a flight from "ready" to its outcome
The centre's record (`flight`, `cmd`), the runner's lists (`listed`, `watched`),
the gateway's disk (`local`, `inbox`) and memory (`pc`, `ready`), the link (`mail`,
`claims`), the aircraft (`air`). Operators create sessions and give commands in
two steps (`Judge`, `Insert`, since `_queue` reads the session without a lock);
the runner flies direct drones (`Launch`, `Fly`), carries out commands
(`ListCommands`, `RunCommand`) and watches over the others (`ListWatched`,
`Watch`); the gateway collects its assignment (`Sync`, `Take`), claims
(`AskClaim`, `Claim`, `AddClaimed`), flies (`StepCommand`, `StepFlight`, `Record`,
`FinishCommand`), restarts and prunes. `Claim` and `RunCommand` are one step each
because they hold the session's row lock throughout; the insert of a command
waits for that lock too, through its foreign key.

It stands on Delivery: `Deliver` hands a flight's updates to the centre one at a
time, in order, each once, at any later time, and the outcome of a command after
the updates that were recorded before it.

Abstractions: RETURN_TO_HOME is handled as ABORT is everywhere in the code, and
SCHEDULED and PRECHECK as READY. Pre-flight is a free verdict. An update that
only repeats the last one is left out. Time is two events, `Wait`: the claim
window is over, or nothing has been heard for too long; they happen only when no
request is on its way, since a call of the gateway ends within 20 s and the
windows are 10 and 60 minutes. `Heard` leaves open whether an update ends the
silence, because last_tick_at is the update's own time. One runner process.
Drones and plans do not vanish in flight (a drone with flights is disabled, not
deleted; the plan is frozen). `LateAnswers` says whether a provider call may take
effect and yet fail, `MayFault` whether the aircraft reports faults, and
`AdapterRaises` whether the adapter raises something other than a ProviderError
when told to command a flight it never started, as the simulator does.

### PatrolLife - what the record of a patrol may say while what is true
The abstract specification of a session behind a gateway: a patrol is created,
closed or accepted; only an accepted one takes off, with no other of its drone in
the air or accepted; it lands with a result, and that result and no other is told.
The centre may give a patrol up and promise its drone to another - which then is
not accepted while the one given up is in the air, nor the one given up launched
while the other is accepted. `DroneFlight!RecordOf` reads the record: from the claim
on it is "flying", and FAILED is "given up" until the gateway has told all it knows
of the flight (`ToldAll`) and that is FAILED too. `TruthOf` reads the aircraft.

### FrameJobs - what the frame queue promises its workers
The abstract specification of a consumer group: a frame is given out, given out
again if it came to nothing, processed, and settled or discarded. It may be given
to two workers at once; it is never acknowledged unprocessed and never given out
after it was settled.

### FrameQueue - one consumer group
Redis (`stream`, `group`, `last`, `pel`) and the workers' loop: `Claim` is
`claim_stale_messages` with its dead-letter rule, `Read` one XREADGROUP of the own
pending entries followed by one for new frames, `Wake` the blocking read,
`Process`/`Fail` the call of process_fn, `Acknowledge` XACK; `Start`,
`ClaimNothing` and `ReadNothing` are what a process does when there is no group.
The world trims the stream (`Publish`), kills workers (`Crash`: a new process has
a new consumer name, so its entries stay with `Nobody`), and loses Redis
(`LoseStream`). `pel` keeps owner, delivery count and idle time because the code
decides by all three; idle time and clocks count ticks up to the limit that
matters. It implements FrameJobs, which BreachAlerts is built on.

### BreachAlerts - a person in a zone
On FrameJobs' promise (frames repeated, given to two workers, discarded), the
Redis key of one zone (`breach`), and the Redis calls of `BreachTracker.register`
as steps of their own (`Set`, `Get`, `Expire`, `Refill`) inside the worker's
database transaction (`Commit`), with time between them. The intrusion and the
behaviour workers ask with different cooldowns about the same key. `partOf` and
`broken` are history: which breach a frame was told of, and whose transaction
failed after the tracker had been told; an alert says who raised it.

### MailQueue - the three queues of emails
The three services follow one discipline; `queue` says which this behaviour is
about, and the differences are guards: operations mails cannot be put back by an
operator, virtual patrolling neither takes claims over nor asks for the attempts
when it claims. One action per transaction or call: `BeginPass` takes the time and
goes through the organisations before this one, `StartPass` lists, then `Claim`,
`Deliver` (the mail server), `Record`, `RecordFailure`, `LeaveOut`. A pass knows no
other time than that at which it began - one `now` serves every organisation - so
`ran` says how old its clock is, and what it writes is that old from the start.

Nothing ends a pass that runs for longer than STALE_CLAIM: with many organisations
or a slow mail server (SMTP time-outs are per operation) another worker may take
over what is still in its hands, and what it claims late looks abandoned at once.
`overtaken` is history: the mails claimed while in the hands of such a pass.
`MaxPass` bounds how long passes run in a check; no assumption relates it to
`StaleClaim`.

### FootageJobs - videos from upload to removal
The API's handlers, its background copies, the daily removal and the workers over
`video` (the row), `rows` (footage_frames) and `files`. The row is the queue: a
worker claims it, writes a picture and then a row for every second, finishes it.
One action per statement that commits, and files apart from rows. Days and months
are not counted: any video without a hold may be due when the removal looks, an
upload abandoned for a day or a video of thirty days. The doorbell stream only makes a worker look sooner and is left out; findings and the
playable copy go with the pictures.

A delete is two steps, `AskDelete` and `Delete`. The query that locks the row reads
the hold in its own snapshot, and placing a hold locks the row without changing it;
so a request that waited goes on with the answer of before the wait. A repeated hold
can slip in the same way, which changes nothing here. `ReaderEnds` is ffmpeg ending
before the last second: its exit code is never read, and the pipeline refuses only a
video of which there is no picture at all. `Hang` is ffmpeg filling the stderr pipe
that nobody reads: both wait for ever, and no time-out ends it; `Crash` (somebody
restarts the worker) is the way out. That S3 may report single objects it did not
delete, which the code does not read, is left out.

Definitions whose comment says "Faulty" are plausible mistakes in the definition
that follows them: each property of a passing run is violated when one of them
takes that definition's place.

## 3. What the runs check

The models of EdgeOutbox, DroneFlight, BreachAlerts, MailQueue and FootageJobs
stop when their bounds (rows, batches, updates, time, attempts) are used up, which
is why deadlock is not checked there: the program would go on. FrameGroup checks
it. Symmetry is used in FlightTwo (two sessions of one drone) and BreachZone (two
intrusion workers), which check no liveness; BreachZone has a state constraint,
`MCTwoAtATime`.

| Run | Question | Bounds |
|---|---|---|
| OutboxOverlap | nothing lost, nothing twice, in order, with overlapping transactions and deleted receipts | 3 rows, batches of 2, 3 batches, 2 copies of a request, 1 crash |
| OutboxIsolate | only bad items set aside; the inductive invariant; refinement of Delivery; every row leaves (liveness) | 3 rows, 6 batches: enough to isolate every one; search limit 2, 1 crash |
| OutboxMedia | a file is not taken for unwanted and accepted once by each list, with privacy areas that change between judgements; sightings once; command outcomes and health among them | 1 sighting, 2 files, 1 command, 1 drone, 3 rows, 2 batches |
| FlightClaim | one flight behind a gateway: record, commander, stops; claimed flights end, commands are answered (liveness) | 1 stopping command, 4 updates (a full flight with an abort needs no more), 1 crash, late answers |
| FlightTwo | two flights of one drone; refinement of PatrolLife | 2 sessions, 1 pause, 2 updates each, 1 crash |
| FlightDirect | the runner's own flights, with liveness of commands | 2 commands of 4 kinds, faults, 1 rollback |
| FrameGroup | no frame lost, two workers on one frame only if slow, refinement of FrameJobs, every frame settles (liveness) | 2 workers, 2 frames of which one is poison, a stream of 1, idle limit 2 ticks and work of up to 3, 3 deliveries, 1 failure, 2 deaths, 1 loss of Redis |
| BreachZone | alerts of one worker apart, every frame accounted for | 2 intrusion workers and 1 behaviour worker, no more than two with a frame at a time, 2 frames, cooldowns 2 and 3, 2 ticks, 1 fault |
| MailClaims | one holder, twice only unrecorded, SENT stays, each unless a pass outlasted its claims; attempts; every mail ends (liveness) | 1 mail, 2 workers, 2 attempts, claims stale after 1 tick, passes of up to 2, 2 deaths, 1 retry; all three queues |
| FootageVideo | READY is complete, leftovers, holds against waiting deletes and old lists; every video ends unless all workers hang (liveness) | 1 video of 2 seconds, 2 workers that may be silent for a tick longer than the limit or hang, 2 attempts, 1 reanalysis, 1 fault |
| FlightBlind, BreachLoiter | see section 4 | |

FlightClaim has no PAUSE: a flight paused and never resumed does not end, in the
code as in the model, so EveryFlightEnds is about flights nobody holds up.

Why the bounds are enough to be interesting: three rows in batches of two make a
batch that is a proper prefix and one that is re-cut; two copies of a request
overlap; a flight may land in its second update, since telemetry skips phases,
so three leave room for an update before and after the centre's verdict; one
crash can fall between any two steps, and a second falls on states the first
reaches. Two frames make one that is stuck beside one that must not be; work of
three ticks outlives an idle limit of two, and three deliveries leave room for a
claim by each worker before the dead-letter rule. A pass of two ticks outlives a
claim of one. Two ticks let a key of the
intrusion workers expire inside a worker's four calls; the longer cooldown,
still running then, is what makes the two groups unequal. Two workers on one mail or
video are the ones that can meet; a second mail shares nothing with the first
but the batch. Two seconds make a video that is half indexed. In the proofs none
of these bounds has a value.

**Fairness.** EdgeOutbox: the agent's loop runs for ever (weak fairness of its
steps) and the link comes back again and again for a whole exchange (strong
fairness of a request being processed and its answer arriving). DroneFlight: the
runner ticks and the gateway cycles (weak), an adapter asked again and again
answers in the end, and a sync asked again and again is answered in the end
(strong); the aircraft moves on. FrameQueue, MailQueue, FootageJobs: each worker's
loop goes on and is started again by its supervisor, and time passes (weak) - but
a FootageJobs worker that hangs has no step left to be fair about, and nothing makes
it crash, since the liveness probe asks another thread: EveryVideoEnds says "or every
worker hangs".
Crashes, losses, time-outs, failures and operators are not fair.

## 4. Where the code does not do what it says

Two runs find a counterexample to a sentence of the repository; `PROJECT.json`
quotes it.

| Run | Sentence | What happens instead |
|---|---|---|
| FlightBlind | no new flight starts without the centre | a claimed flight that was not launched is launched later, even after the centre closed it |
| BreachLoiter | a person who stays longer than the dwell is reported | a breach is new only while its dwell is nought, so with a dwell above nought no loitering alert is ever raised |

The following properties state a sentence of the repository too and do not hold.
They stay in the modules under the name given. To see one fail, take the
configuration named, make the change, and put the property in place of the others.

| Property | Start from | Change | What TLC shows |
|---|---|---|---|
| EdgeOutbox!HealthArrives ("a row leaves only when acknowledged") | OutboxMedia | `MaxReadings = 2`, no events and files | a reading written into a row that was sent is deleted with it |
| EdgeOutbox!RefusedIsKept ("kept so a person can see what was lost") | OutboxOverlap | none | the second of two overlapping transactions calls the refused item a duplicate, and nothing is kept; a deleted receipt does the same. Without the two it holds (theorem RefusedAreKept) |
| DroneFlight!LateRecordCorrects ("a late record corrects a guess") with faults | FlightClaim | `MayFault = TRUE`, no commands | a late update with a fault's code overwrites EDGE_UNREACHABLE; everything after it is refused, the outcome too |
| DroneFlight!CommandsAreTaken ("commands first") | FlightClaim | `AdapterRaises = TRUE` | a command before the launch stops every cycle of the gateway: the adapter raises something nobody catches |
| DroneFlight!EveryCommandAnswered ("every command, and what became of it") behind a gateway | FlightClaim | none | a command of a flight closed for silence is never answered |
| FrameQueue!PoisonAgesOut ("age out and hit the MAX_DELIVERY_ATTEMPTS guard") | FrameGroup | none | every look at the own pending list makes a failed frame young again, so it is never claimed and never discarded |
| MailQueue!NothingStranded ("taken again later", "never silently dropped") | MailClaims | none | a worker that dies in the last attempt leaves the mail PROCESSING for ever |
| BreachAlerts!AlertsApart with a second intrusion worker | BreachZone | none | the key expires between one worker's SET and GET; both are told of a new breach |
| FootageJobs!HeldIsKept ("leaves alone anything under an evidence hold") | FootageVideo | none | the daily removal does not look again at what it listed before the hold, and a delete that waited for the row does not see the hold it waited for |
| EdgeOutbox!ResendLooksWanted ("a resend must not look unwanted") | OutboxMedia | none | a clip that is waited for is judged again after an area was drawn about it, and the answer does not name it: the gateway may prune it |

Where a property of a passing run has an exception, the exception can be seen the
same way, by striking it out: OneHolder, SentStays and TwiceOnlyUnrecorded without
`overtaken` (a pass of the operations or drone reports that outlasts STALE_CLAIM),
ReadyIsComplete without `short` (ffmpeg dies half way and the video is READY with
its end missing), AppliedOnce without the clip that both lists took.

What FlightBlind leaves standing is proved (OnlyUnheardFly): a gateway launches
only a session that is claimed and airborne in the record, or was given up for its
silence; never one cancelled, blocked or missed.

Three more are visible in the model and listed as hazards, without a property of
their own, because they need an adapter whose calls have an effect outside the
database (the simulator's state is in the row that is rolled back): a restart
between the adapter call and its record repeats the call (agent.py:149), a launch
call that timed out may have taken effect although the session is recorded as
never launched (drone_runner.py:341), and a launch transaction rolled back after
the call leaves the drone flying under a session that reads READY
(drone_runner.py:298).

## 5. What is proved

Every theorem holds for all values of the constants that satisfy the assumptions
named in the module. The safety properties are seldom inductive; what the
inductive invariant adds is the reason the property holds.

**EdgeOutbox**: type correctness, NothingLost, AppliedOnce, InOrder,
OnlyBadSetAside, UnwantedIsUnwanted, and that EdgeOutbox implements Delivery -
AppliedOnce with the one exception the code has, a clip accepted once to be kept and
once not to be, and UnwantedIsUnwanted with a clip found at an area at one time. That
a row is never lost when a batch is closed needs that the answer speaks of that
batch (`AnswersHonest`: an "ok" for a batch means that each of its rows is
applied, ignored or refused, and stays so); that the answer to a resend is honest
needs that the centre's own records tell which rows were applied (`Reflected`);
`Reflected` counts that a file was accepted as often as it is in one of the two
lists, whatever the areas were each time; that nothing below edge_seq is missing
needs that a batch is a prefix of what
waits (`Cut`), and that numbers grow with the row ids (`Numbered`). `IInv` is
their conjunction with the properties; the proof has one lemma per part, one step
per action in it, and the refinement follows from `IInv` and the same case split; in
it a clip accepted by both lists is one acceptance (`Acceptances`).
TLC checks `IInv` in OutboxIsolate.
RefusedAreKept says when the sentence about refused items holds: no receipt is
deleted and no batch has two transactions at a time, with the rest of the link as
bad as ever. Then a batch is judged once, and its one answer names what became of
every row (`Tells`). That it could not name a row that another batch has judged
before needs that batches which can be judged share no row, although isolation
takes a batch apart and cuts its rows anew (`OwnRows`, BatchesShareNoRow, proved
without a premise): only a malformed batch is taken apart, and none of those is
ever judged.

**FrameQueue**: type correctness, TwoAtOnceOnlyIfSlow, DeliveredIsPending, and
that it implements FrameJobs. The invariant says that a frame is open exactly
when it is pending or unread, never both (`Standing`), and that the frame a worker
has in hand is pending for it with an idle time no longer than the worker's own
clock, or the worker has had it longer than the idle limit (`Hand`): a claim by
another worker resets the idle time, which gives the two-workers property; an
entry removed by XACK is one that was processed, which gives the refinement.

**BreachAlerts**: type correctness; for any number of workers, that the alerts
each raises are a cooldown apart (ApartByWorker), that no more intrusion alerts
fall into one cooldown than there are workers that look for intrusions
(AlertsAreFew), and that every frame dealt with is accounted for (AccountedFor).
With one intrusion worker (`Alone`) the stronger AlertsApart and
MissingOnlyAfter follow; with two both are false (put either into BreachZone),
so there the premise is needed, and they are in no run. ApartByWorker,
AlertsAreFew and AlertsApart also need that the cooldown of the intrusion group
is not the longer one (`NoShorter`; by default 60 and 120 s): the key expires by
the cooldown of whoever asked last. By the invariant the key of every intrusion
alert lives until the alert's cooldown has passed (`Guarded`), and a worker told
of a new breach has no alert of its own within a cooldown before it (`Patient`);
AlertsAreFew sends each alert to its worker, which is injective within a
cooldown. AccountedFor needs that what any worker was told and what the key says
is backed by an alert, by an open transaction that knows of a new breach, or by
the history (`Known`, `Backed`): Redis and the database never agree at one
moment.

**MailQueue**: type correctness, OneHolder, SentStays, TwiceOnlyUnrecorded,
EffortBounded, for passes of any length. A mail in a worker's hands that was not
overtaken is PROCESSING and its claim exactly as old as the pass has run
(`HeldIsFresh`), so it cannot look abandoned to anybody else before the pass has
outlasted STALE_CLAIM; a mail that is overtaken stays in the history, and what follows from it is the
exception of the first three. A mail accepted and not recorded is in somebody's hands
or in `unrecorded` (`Once`); attempts beyond the
limit are paid for by workers with old lists, counted with finite-set
cardinalities (`Bounded`).

**FootageJobs**: type correctness, LeftoversAreLate, HeldLostOnlyToEarlier (only a
removal that listed a video, or a request that found no hold, before there was one
takes a held video's file, and none begins while it is held), ReadyIsComplete (a
READY video has every second up to the last that was read, and all of them unless its
reader broke off, `short`). A video not overrun has at most one worker that does not
hang, which has written what lies before its second, pictures and rows (`Whole`), and
what is left of a video in removal was written late (`Traced`).

**DroneFlight**: type correctness, EndedStaysEnded, ClosedNeverFlew, OneCommander
and OneInTheAir for all constants; StopsStop where every drone is behind a gateway
or the database loses no transaction of the runner's (`Edge = Sessions \/ MaxCrashes
= 0`) - and for any mixture and any faults that a stop reported as done has worked,
with the one exception of a direct flight cancelled on the ground by a record that
lost its launch (StopsWorkUnlessLost, which is the hazard at drone_runner.py:298 and
no other); and LateRecordCorrects where the aircraft reports no fault, since with faults it is
false (section 4). No more was sent than is on the gateway's disk, nor recorded at
the centre than was sent (`TypeInv`, which the types of the log rest on). The
record calls a session claimed exactly while it is airborne or has flown, and the
gateway has nothing of an unclaimed one (`ClaimedInv`): the close of an operator
and the claim of the gateway are decided in one row, which is why a session closed
before launch never flies. A command the gateway collected is about a claimed
session and was not the runner's to do (`WhoInv`). The disk is behind the aircraft
and the outcome is the last word of its log (`FlownInv`), so a stop recorded as
done has reached the aircraft (`StopInv`). OneInTheAir counts not only flights in
the air but whatever may still become one - a claim on its way, a claim granted -
and allows one of each drone (`Potential`, `Apart`). Last, a flight that is over
was either given up for its silence or has been told to the end (`LateInv`).

**DroneFlight implements PatrolLife** (DroneLifeProofs), for the sessions behind
gateways and with faults, late answers, lost and late messages and restarts: the
step-by-step proof splits Next by what it does to record and truth. A landing is
told only when the outcome has crossed the disk, the link and the row lock, so the
invariant says that nothing but the aircraft's own result is passed on, and that a
result on record comes from the gateway's last report or is a failure the centre
assumed (`TrueInv`); that Accept and TakeOff are free to happen comes from
`Potential`. What PatrolLife promises by itself (PatrolLifeProofs: a result on record
is the result there was, who was not accepted is on the ground, a drone is up for
one patrol at most) is then true of the sessions (SessionsAreTrue). OutcomesAreReported
keeps of LateRecordCorrects what faults leave: a session recorded COMPLETED or
ABORTED has landed with just that result; only FAILED may be a guess that stays.

Only model-checked everywhere: liveness (fairness and ENABLED are beyond the
prover).

## 6. Plan

Done: EdgeOutbox, Delivery, DroneFlight, PatrolLife, FrameQueue, FrameJobs,
BreachAlerts, MailQueue, FootageJobs, with proofs for each (those about Delivery
and FrameJobs are the refinements).

What would add most, in this order:
1. `EdgeMedia`: files at the site, what the centre wants, uploads, pruning;
   composed with the outbox's view of a file.
2. `DroneVerification`: verifications over the command table of DroneFlight.
3. `DroneStatus`: health polling, heartbeat sweep and the status of a drone.
4. Schedules (a run is created once), webhook delivery, refresh-token rotation,
   the mobile outbox.

## 7. Not modelled

User interfaces, neural networks, geometry, cryptography, device protocols and
deployment, which are data or I/O; handlers that change one row in one
transaction and compute over stored records (roster, payroll, billing, most of
the 128 routers), where no order of steps can go wrong; and the parts of the plan
not reached yet. Most of the repository's lines are of these kinds. The list with
reasons is in `PROJECT.json`.
