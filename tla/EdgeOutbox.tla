----------------------------- MODULE EdgeOutbox -----------------------------
(***************************************************************************)
(* Store-and-forward between a site edge gateway and the centre.           *)
(*                                                                         *)
(* The gateway writes everything it has to say to its outbox (a SQLite     *)
(* table), sends the oldest rows as one batch, and deletes them when the   *)
(* centre has answered for that batch.  The centre applies each item in a  *)
(* savepoint of its own and keeps a receipt, from which a batch that is    *)
(* sent again is answered.  Requests and answers are lost and delayed; the *)
(* gateway crashes between any two of its steps; a batch the centre cannot *)
(* parse at all (422) is taken apart one item at a time.                   *)
(*                                                                         *)
(* What a flight update or a command means is the business of module       *)
(* DroneFlight; here an item is what the delivery rules look at.           *)
(***************************************************************************)
EXTENDS Naturals, FiniteSets

CONSTANTS
    Sessions,       \* flights this gateway has claimed
    Drones,         \* idle drones whose health it polls
    Events,         \* sightings it may report (client_ref)
    Media,          \* files it may describe (client_ref)
    Commands,       \* operator commands it may close
    EventOf,        \* the sighting a file names, or NoEvent
    NoEvent,
    ReceiptsExpire, \* whether receipts may be deleted within the behaviour
    MaxItems,       \* batch_items
    IsolateLimit,   \* single-item batches sent before giving up the search
    MaxRows,        \* bound: rows ever queued
    MaxBatches,     \* bound: batches ever opened
    MaxReadings,    \* bound: health readings per drone
    MaxCrashes,     \* bound: gateway crashes
    MaxCopies,      \* bound: requests of one batch on their way at once
    Fits            \* how a new row may fare; a subset of RowFits

Kinds == {"health", "update", "command", "event", "media"}

\* "ok", "unfit" (the database refuses the value) or "malformed" (the request
\* body fails validation, so the whole batch is refused).
RowFits == {"ok", "unfit", "malformed"}

Refs == Sessions \cup Drones \cup Events \cup Media \cup Commands

ASSUME BoundsAssumption ==
    /\ MaxItems \in Nat \ {0} /\ IsolateLimit \in Nat \ {0}
    /\ MaxRows \in Nat /\ MaxBatches \in Nat
    /\ MaxReadings \in Nat /\ MaxCrashes \in Nat /\ MaxCopies \in Nat \ {0}
ASSUME EventOfAssumption == NoEvent \notin Events /\ EventOf \in [Media -> Events \cup {NoEvent}]
ASSUME FitsAssumption == Fits \subseteq RowFits /\ ReceiptsExpire \in BOOLEAN

RowIds   == 1..MaxRows      \* outbox.id, AUTOINCREMENT
BatchIds == 1..MaxBatches   \* a fresh uuid per batch
NoBatch  == 0
NoAnswer == [verdict |-> "none", rejected |-> {}, wanted |-> {}]
Invalid  == [verdict |-> "invalid", rejected |-> {}, wanted |-> {}]
NoRow    == [kind |-> "none"]

Row    == [kind : Kinds, ref : Refs, seq : 0..MaxRows, fit : RowFits]
Answer == [verdict : {"none", "ok", "invalid"}, rejected : SUBSET RowIds, wanted : SUBSET Media]
\* A request: the batch it carries, which of the copies on their way it is, and
\* the health readings its payload holds.
Request == [batch : BatchIds, copy : 1..MaxCopies, readings : [Drones -> 0..MaxReadings]]

VARIABLES
    \* The gateway's disk.
    row,        \* the content of every row ever queued
    next,       \* the id the next row gets
    waiting,    \* rows in the outbox
    number,     \* sessions.seq: the last update number of each session
    reading,    \* the latest health payload queued for each drone
    opened,     \* meta.open_batch, or NoBatch
    content,    \* the rows each batch was made of
    newBatch,   \* the next batch id
    setAside,   \* the `rejected` table
    wish,       \* media.wanted: what the gateway believes of each file
    \* The gateway's memory.
    pc, sending, answer, marking, limit, isolating, crashes,
    \* In flight.
    requests,
    \* The centre.
    busy,       \* requests being processed that found no receipt
    receipt,    \* drone_sync_receipts
    edgeSeq,    \* drone_patrol_sessions.edge_seq
    ended,      \* sessions ended for good: further updates are refused
    recorded,   \* observations, by client_ref
    closed,     \* commands no longer PENDING
    mediaState, \* drone_event_media.sync_state, "none" before the row exists
    withheld,   \* drone_media_withheld: clips not kept, by client_ref
    heard,      \* drones.last_heartbeat_at
    \* History, for the properties only.
    times,      \* how often the centre has applied each row (3: three times or more)
    ignored,    \* rows the centre judged not worth recording
    refused,    \* rows the centre rejected
    seen        \* the latest health reading of each drone the centre was sent

disk   == <<row, next, waiting, number, reading, opened, content, newBatch, setAside, wish>>
memory == <<pc, sending, answer, marking, limit, isolating>>
centre == <<busy, receipt, edgeSeq, ended, recorded, closed, mediaState, withheld, heard>>
hist   == <<times, ignored, refused, seen>>
vars   == <<disk, memory, crashes, requests, centre, hist>>

Allocated == 1..(next - 1)

TypeOK ==
    /\ next \in 1..(MaxRows + 1)
    /\ row \in [RowIds -> Row \cup {NoRow}]
    /\ \A i \in Allocated : row[i] \in Row
    /\ waiting \subseteq Allocated
    /\ number \in [Sessions -> 0..MaxRows]
    /\ reading \in [Drones -> 0..MaxReadings]
    /\ opened \in BatchIds \cup {NoBatch}
    /\ content \in [BatchIds -> SUBSET RowIds]
    /\ newBatch \in 1..(MaxBatches + 1)
    /\ setAside \subseteq Allocated
    /\ wish \in [Media -> {"unknown", "yes", "no"}]
    /\ pc \in {"idle", "sent", "marking"}
    /\ sending \in BatchIds \cup {NoBatch}
    /\ answer \in Answer
    /\ marking \in [Media -> {"none", "yes", "no"}]
    /\ limit \in {1, MaxItems}
    /\ isolating \in 0..IsolateLimit
    /\ crashes \in 0..MaxCrashes
    /\ requests \subseteq Request
    /\ busy \subseteq Request
    /\ receipt \in [BatchIds -> Answer]
    /\ edgeSeq \in [Sessions -> 0..MaxRows]
    /\ ended \subseteq Sessions
    /\ recorded \subseteq Events
    /\ closed \subseteq Commands
    /\ mediaState \in [Media -> {"none", "pending", "not_required", "synced"}] /\ withheld \subseteq Media
    /\ heard \in [Drones -> 0..MaxReadings]
    /\ times \in [RowIds -> 0..3]
    /\ ignored \subseteq RowIds /\ refused \subseteq RowIds
    /\ seen \in [Drones -> 0..MaxReadings]

Init ==
    /\ row = [i \in RowIds |-> NoRow] /\ next = 1 /\ waiting = {}
    /\ number = [s \in Sessions |-> 0]
    /\ reading = [d \in Drones |-> 0]
    /\ opened = NoBatch /\ content = [b \in BatchIds |-> {}] /\ newBatch = 1
    /\ setAside = {} /\ wish = [m \in Media |-> "unknown"]
    /\ pc = "idle" /\ sending = NoBatch /\ answer = NoAnswer
    /\ marking = [m \in Media |-> "none"]
    /\ limit = MaxItems /\ isolating = 0 /\ crashes = 0
    /\ requests = {}
    /\ busy = {} /\ receipt = [b \in BatchIds |-> NoAnswer]
    /\ edgeSeq = [s \in Sessions |-> 0] /\ ended = {}
    /\ recorded = {} /\ closed = {}
    /\ mediaState = [m \in Media |-> "none"] /\ withheld = {} /\ heard = [d \in Drones |-> 0]
    /\ times = [i \in RowIds |-> 0] /\ ignored = {} /\ refused = {}
    /\ seen = [d \in Drones |-> 0]

-----------------------------------------------------------------------------
(* Filling the outbox.                                                     *)

\* UNIQUE (kind, ref): a sighting, a file or a command is queued once.
Fresh(kind, ref) == \A i \in Allocated : row[i].kind = kind => row[i].ref # ref

\* _queue: one row, written in the transaction of the change it reports.
Queue(kind, ref, seq, fit) ==
    /\ next <= MaxRows
    /\ row' = [row EXCEPT ![next] = [kind |-> kind, ref |-> ref, seq |-> seq, fit |-> fit]]
    /\ waiting' = waiting \cup {next}
    /\ next' = next + 1

\* record_update: the session's number and its outbox row, one transaction.
RecordUpdate(s) == \E fit \in Fits :
    /\ pc = "idle"
    /\ number' = [number EXCEPT ![s] = @ + 1]
    /\ Queue("update", s, number[s] + 1, fit)
    /\ UNCHANGED <<reading, opened, content, newBatch, setAside, wish, memory, crashes, requests, centre, hist>>

FinishCommand(c) ==
    /\ pc = "idle" /\ Fresh("command", c)
    /\ Queue("command", c, 0, "ok")
    /\ UNCHANGED <<number, reading, opened, content, newBatch, setAside, wish, memory, crashes, requests, centre, hist>>

\* report_event and record_media: called by whatever watches the pictures.
PutEvent(e) == \E fit \in Fits :
    /\ Fresh("event", e)
    /\ Queue("event", e, 0, fit)
    /\ UNCHANGED <<number, reading, opened, content, newBatch, setAside, wish, memory, crashes, requests, centre, hist>>

\* A file is described after the sighting it belongs to.
PutMedia(m) ==
    /\ Fresh("media", m)
    /\ EventOf[m] # NoEvent => ~Fresh("event", EventOf[m])
    /\ Queue("media", m, 0, "ok")
    /\ UNCHANGED <<number, reading, opened, content, newBatch, setAside, wish, memory, crashes, requests, centre, hist>>

HealthRows(d) == {i \in waiting : row[i].kind = "health" /\ row[i].ref = d}

\* put_health: only the latest reading per drone is kept - a row still waiting
\* keeps its id and takes the new payload.
PollHealth(d) ==
    /\ pc = "idle" /\ reading[d] < MaxReadings
    /\ reading' = [reading EXCEPT ![d] = @ + 1]
    /\ IF HealthRows(d) # {}
       THEN UNCHANGED <<row, next, waiting>>
       ELSE Queue("health", d, 0, "ok")
    /\ UNCHANGED <<number, opened, content, newBatch, setAside, wish, memory, crashes, requests, centre, hist>>

-----------------------------------------------------------------------------
(* The gateway: EdgeAgent._sync.                                           *)

\* The oldest rows waiting, at most `limit` of them and at least one; how many
\* fit depends on the samples they carry, so any such prefix may be the batch.
\* (Faulty: the ORDER BY is forgotten.)
OldestUnordered(ids) == ids \subseteq waiting /\ ids # {} /\ Cardinality(ids) <= limit

Oldest(ids) ==
    /\ ids \subseteq waiting /\ ids # {} /\ Cardinality(ids) <= limit
    /\ \A i \in ids, j \in waiting \ ids : i < j

\* The first copy number not on its way, or the last when all of them are.
NextCopy(b, c) ==
    LET used == {q.copy : q \in {x \in requests \cup busy : x.batch = b}}
    IN  1..(c - 1) \subseteq used /\ (c \in used => c = MaxCopies)

Post(b, ids) == \E c \in 1..MaxCopies :
    /\ NextCopy(b, c)
    /\ requests' = requests \cup {[batch |-> b, copy |-> c, readings |->
           [d \in Drones |-> IF \E i \in ids : row[i].kind = "health" /\ row[i].ref = d
                             THEN reading[d] ELSE 0]]}
    /\ pc' = "sent" /\ sending' = b /\ answer' = NoAnswer

\* open_batch, when the batch already open is still waiting in full.
SendAgain ==
    /\ pc = "idle" /\ opened # NoBatch /\ content[opened] \subseteq waiting
    /\ Post(opened, content[opened])
    /\ UNCHANGED <<disk, marking, limit, isolating, crashes, centre, hist>>

\* open_batch, otherwise: the oldest rows under a new id, remembered on disk.
SendNew == \E ids \in SUBSET waiting :
    /\ pc = "idle" /\ (opened # NoBatch => ~ content[opened] \subseteq waiting)
    /\ newBatch <= MaxBatches /\ Oldest(ids)
    /\ opened' = newBatch /\ newBatch' = newBatch + 1
    /\ content' = [content EXCEPT ![newBatch] = ids]
    /\ Post(newBatch, ids)
    /\ UNCHANGED <<row, next, waiting, number, reading, setAside, wish, marking, limit, isolating, crashes, centre, hist>>

\* CentralUnavailable: no answer in time, or none at all. The batch stays open.
GiveUp ==
    /\ pc = "sent" /\ answer = NoAnswer
    /\ pc' = "idle" /\ sending' = NoBatch
    /\ UNCHANGED <<disk, answer, marking, limit, isolating, crashes, requests, centre, hist>>

Idle == pc' = "idle" /\ sending' = NoBatch /\ answer' = NoAnswer

\* (Faulty: two items pass for one.)
SeveralOffByOne == Cardinality(content[sending]) > 2

Several == Cardinality(content[sending]) > 1

\* (Faulty: the open batch is kept, and sent again as it is.)
DropOpenBatchNot == opened' = opened

DropOpenBatch == opened' = NoBatch

\* 422 for several items: drop the open batch and send one item at a time.
StartIsolating ==
    /\ pc = "sent" /\ answer.verdict = "invalid" /\ Several
    /\ DropOpenBatch /\ limit' = 1 /\ isolating' = 1 /\ Idle
    /\ UNCHANGED <<row, next, waiting, number, reading, content, newBatch, setAside, wish, marking,
                   crashes, requests, centre, hist>>

\* close_batch: everything in the batch is done with; what was refused is kept.
\* (Faulty: the DELETE empties the outbox.)
CloseBatchAndAll(b, bad) ==
    /\ waiting' = {}
    /\ setAside' = setAside \cup (content[b] \cap bad)
    /\ opened' = NoBatch

CloseBatch(b, bad) ==
    /\ waiting' = waiting \ content[b]
    /\ setAside' = setAside \cup (content[b] \cap bad)
    /\ opened' = NoBatch

\* 422 for one item: that is the bad one.
SetAsideInvalid ==
    /\ pc = "sent" /\ answer.verdict = "invalid" /\ ~Several
    /\ CloseBatch(sending, content[sending])
    /\ limit' = MaxItems /\ isolating' = 0 /\ Idle
    /\ UNCHANGED <<row, next, number, reading, content, newBatch, wish, marking, crashes, requests, centre, hist>>

\* The files of a batch the centre took in.
FilesSent(b, bad) == {row[i].ref : i \in {j \in content[b] \ bad : row[j].kind = "media"}}

\* The search goes on for IsolateLimit single items, then full batches again.
\* (Faulty: off by one.)
NextIsolatingOffByOne == IF isolating \in 1..IsolateLimit THEN isolating + 1 ELSE 0

NextIsolating == IF isolating \in 1..(IsolateLimit - 1) THEN isolating + 1 ELSE 0

\* An answer: close the batch, then note file by file what the centre wants.
TakeAnswer ==
    /\ pc = "sent" /\ answer.verdict = "ok"
    /\ CloseBatch(sending, answer.rejected)
    /\ isolating' = NextIsolating
    /\ limit' = IF isolating = IsolateLimit THEN MaxItems ELSE limit
    /\ marking' = [m \in Media |-> IF m \notin FilesSent(sending, answer.rejected) THEN "none"
                                   ELSE IF m \in answer.wanted THEN "yes" ELSE "no"]
    /\ pc' = "marking" /\ sending' = NoBatch /\ answer' = NoAnswer
    /\ UNCHANGED <<row, next, number, reading, content, newBatch, wish, crashes, requests, centre, hist>>

\* mark_media: one autocommitted statement per file.
MarkMedia(m) ==
    /\ pc = "marking" /\ marking[m] # "none"
    /\ wish' = [wish EXCEPT ![m] = marking[m]]
    /\ marking' = [marking EXCEPT ![m] = "none"]
    /\ UNCHANGED <<row, next, waiting, number, reading, opened, content, newBatch, setAside,
                   pc, sending, answer, limit, isolating, crashes, requests, centre, hist>>

MarkingDone ==
    /\ pc = "marking" /\ \A m \in Media : marking[m] = "none"
    /\ pc' = "idle"
    /\ UNCHANGED <<disk, sending, answer, marking, limit, isolating, crashes, requests, centre, hist>>

\* The process dies and is started again: the disk is all that is left.
Crash ==
    /\ crashes < MaxCrashes /\ crashes' = crashes + 1
    /\ pc' = "idle" /\ sending' = NoBatch /\ answer' = NoAnswer
    /\ marking' = [m \in Media |-> "none"] /\ limit' = MaxItems /\ isolating' = 0
    /\ UNCHANGED <<disk, requests, centre, hist>>

-----------------------------------------------------------------------------
(* The centre: routers/drone_edge.sync and drone_edge_sync.process_batch.  *)

\* The answer reaches a gateway that is still waiting for it, or nobody.
\* (Faulty: a late answer is taken for the answer to the batch now open.)
ReplyToAny(b, a) == answer' \in {answer} \cup (IF pc = "sent" THEN {a} ELSE {})

Reply(b, a) == answer' \in {answer} \cup (IF pc = "sent" /\ sending = b THEN {a} ELSE {})

Malformed(b) == \E i \in content[b] : row[i].fit = "malformed"

\* Validation refuses the whole body before the handler runs.
RefuseInvalid(q) ==
    /\ q \in requests /\ Malformed(q.batch)
    /\ requests' = requests \ {q}
    /\ Reply(q.batch, Invalid)
    /\ UNCHANGED <<disk, pc, sending, marking, limit, isolating, crashes, centre, hist>>

\* A batch already answered is answered from its receipt.
AnswerFromReceipt(q) ==
    /\ q \in requests /\ ~Malformed(q.batch) /\ receipt[q.batch] # NoAnswer
    /\ requests' = requests \ {q}
    /\ Reply(q.batch, receipt[q.batch])
    /\ UNCHANGED <<disk, pc, sending, marking, limit, isolating, crashes, centre, hist>>

\* No receipt: a transaction starts on it. The same batch sent again meanwhile
\* finds no receipt either.
Begin(q) ==
    /\ q \in requests /\ ~Malformed(q.batch) /\ receipt[q.batch] = NoAnswer
    /\ requests' = requests \ {q} /\ busy' = busy \cup {q}
    /\ UNCHANGED <<disk, memory, crashes, receipt, edgeSeq, ended, recorded, closed, mediaState, withheld, heard, hist>>

OfKind(b, kind) == {i \in content[b] : row[i].kind = kind}
RefsOf(ids)     == {row[i].ref : i \in ids}

\* _apply_update in (session, seq) order: a number not above edge_seq is a
\* duplicate; a session ended for good refuses; a value the database refuses
\* is rolled back alone.
\* (Faulty: off by one.)
NewUpdatesOffByOne(b) == {i \in OfKind(b, "update") : row[i].seq >= edgeSeq[row[i].ref]}

NewUpdates(b) == {i \in OfKind(b, "update") : row[i].seq > edgeSeq[row[i].ref]}
GoodUpdates(b) == {i \in NewUpdates(b) : row[i].ref \notin ended /\ row[i].fit = "ok"}

IsHighest(n, S) == n \in S /\ \A k \in S : k <= n

\* _apply_command: a command is closed once.
GoodCommands(b) == {i \in OfKind(b, "command") : row[i].ref \notin closed}

\* _apply_event: one already recorded is a duplicate; the profile ignores some
\* (`skip`), the database refuses others.
\* (Faulty: nothing tells a duplicate.)
NewEventsUnchecked(b) == OfKind(b, "event")

NewEvents(b) == {i \in OfKind(b, "event") : row[i].ref \notin recorded}
GoodEvents(b, skip) == {i \in NewEvents(b) \ skip : row[i].fit = "ok"}

\* _apply_media. The sighting a file names must have been recorded, at the latest by
\* this batch.
Unsighted(b, skip) == {i \in OfKind(b, "media") :
    EventOf[row[i].ref] \notin recorded \cup RefsOf(GoodEvents(b, skip)) \cup {NoEvent}}

\* A clip taken at a privacy area, as the areas are now (`area`), goes to the list of
\* what is not kept, any other file to the files; a duplicate is looked for only there.
NewMedia(b, area) == {i \in OfKind(b, "media") :
    IF row[i].ref \in area THEN row[i].ref \notin withheld ELSE mediaState[row[i].ref] = "none"}
GoodMedia(b, skip, area) == NewMedia(b, area) \ Unsighted(b, skip)

Taken(b, skip, area) ==
    GoodUpdates(b) \cup GoodCommands(b) \cup GoodEvents(b, skip) \cup GoodMedia(b, skip, area)
Turned(b, skip) == (NewUpdates(b) \ GoodUpdates(b)) \cup Unsighted(b, skip)
                      \cup ((NewEvents(b) \ skip) \ GoodEvents(b, skip))

\* What the answer says: what was refused, and which files the centre waits for - but
\* for those judged at a privacy area this time.
\* (Faulty: a file already described is not named again.)
ResultForgetful(b, skip, area, state) ==
    [verdict |-> "ok", rejected |-> Turned(b, skip),
     wanted |-> {m \in RefsOf(GoodMedia(b, skip, area)) \ area : state[m] = "pending"}]

Result(b, skip, area, state) ==
    [verdict |-> "ok", rejected |-> Turned(b, skip),
     wanted |-> {m \in RefsOf(OfKind(b, "media") \ Unsighted(b, skip)) \ area : state[m] = "pending"}]

\* One transaction applies a batch, every item in its savepoint, and leaves the
\* receipt unless one is there; `area` are the clips it finds at a privacy area, `pick`
\* is what the recording policy says of each new file, `flying` the drones in the air.
Apply(q, skip, area, pick, flying) ==
    LET b == q.batch
    IN  /\ edgeSeq' \in [Sessions -> 0..MaxRows]
        /\ \A s \in Sessions : IsHighest(edgeSeq'[s],
               {edgeSeq[s]} \cup {row[i].seq : i \in {j \in GoodUpdates(b) : row[j].ref = s}})
        /\ closed' = closed \cup RefsOf(GoodCommands(b))
        /\ recorded' = recorded \cup RefsOf(GoodEvents(b, skip))
        /\ withheld' = withheld \cup (RefsOf(GoodMedia(b, skip, area)) \cap area)
        /\ mediaState' = [m \in Media |-> IF m \in RefsOf(GoodMedia(b, skip, area)) \ area
                                          THEN pick[m] ELSE mediaState[m]]
        \* _apply_health: older news, and news of a drone in the air, is dropped.
        /\ heard' = [d \in Drones |-> IF d \in flying \/ q.readings[d] <= heard[d]
                                      THEN heard[d] ELSE q.readings[d]]
        /\ receipt' = IF receipt[b] = NoAnswer
                      THEN [receipt EXCEPT ![b] = Result(b, skip, area, mediaState')] ELSE receipt
        /\ Reply(b, Result(b, skip, area, mediaState'))
        /\ times' = [i \in RowIds |-> IF i \in Taken(b, skip, area) /\ times[i] < 3 THEN times[i] + 1 ELSE times[i]]
        /\ ignored' = ignored \cup skip
        /\ refused' = refused \cup Turned(b, skip)
        /\ seen' = [d \in Drones |-> IF q.readings[d] > seen[d] THEN q.readings[d] ELSE seen[d]]

\* The transaction commits. It locks the gateway's own record right after it
\* looked for a receipt, so of two that overlap the second applies its items
\* after the first has committed - and does not look for a receipt again.
Commit(q) ==
    /\ q \in busy /\ busy' = busy \ {q}
    /\ \E skip \in SUBSET NewEvents(q.batch), area \in SUBSET RefsOf(OfKind(q.batch, "media")),
          pick \in [Media -> {"pending", "not_required"}], flying \in SUBSET Drones :
            Apply(q, skip, area, pick, flying)
    /\ UNCHANGED <<disk, pc, sending, marking, limit, isolating, crashes, requests, ended>>

\* upload_media: the bytes of a file the centre asked for have arrived.
StoreFile(m) ==
    /\ mediaState[m] = "pending"
    /\ mediaState' = [mediaState EXCEPT ![m] = "synced"]
    /\ UNCHANGED <<disk, memory, crashes, requests, busy, receipt, edgeSeq, ended, recorded, closed, withheld, heard, hist>>

\* The session's record is closed centrally and not as EDGE_UNREACHABLE.
EndSession(s) ==
    /\ s \notin ended /\ ended' = ended \cup {s}
    /\ UNCHANGED <<disk, memory, crashes, requests, busy, receipt, edgeSeq, recorded, closed, mediaState, withheld, heard, hist>>

\* check_health deletes receipts past RECEIPT_RETENTION, a week: no request is
\* that late, but a gateway may be off the air for longer than that.
ForgetReceipt(b) ==
    /\ ReceiptsExpire /\ receipt[b] # NoAnswer /\ \A q \in requests \cup busy : q.batch # b
    /\ ~(pc = "sent" /\ sending = b)
    /\ receipt' = [receipt EXCEPT ![b] = NoAnswer]
    /\ UNCHANGED <<disk, memory, crashes, requests, busy, edgeSeq, ended, recorded, closed, mediaState, withheld, heard, hist>>

\* A request never arrives, or its transaction is rolled back.
Lose(q) ==
    /\ q \in requests \cup busy
    /\ requests' = requests \ {q} /\ busy' = busy \ {q}
    /\ UNCHANGED <<disk, memory, crashes, receipt, edgeSeq, ended, recorded, closed, mediaState, withheld, heard, hist>>

-----------------------------------------------------------------------------
Gateway ==
    \/ \E s \in Sessions : RecordUpdate(s)
    \/ \E c \in Commands : FinishCommand(c)
    \/ \E e \in Events : PutEvent(e)
    \/ \E m \in Media : PutMedia(m)
    \/ \E d \in Drones : PollHealth(d)
    \/ SendAgain \/ SendNew \/ GiveUp \/ StartIsolating \/ SetAsideInvalid \/ TakeAnswer
    \/ \E m \in Media : MarkMedia(m)
    \/ MarkingDone \/ Crash

Centre ==
    \/ \E q \in requests : RefuseInvalid(q) \/ AnswerFromReceipt(q) \/ Begin(q)
    \/ \E q \in busy : Commit(q)
    \/ \E m \in Media : StoreFile(m)
    \/ \E s \in Sessions : EndSession(s)
    \/ \E b \in BatchIds : ForgetReceipt(b)
    \/ \E q \in requests \cup busy : Lose(q)

Next == Gateway \/ Centre

Spec == Init /\ [][Next]_vars

\* The agent's loop runs for ever; the link comes back again and again, and each
\* time it may carry a whole exchange: a request that keeps being sent is
\* processed in the end, and its answer gets through to the gateway waiting for it.
Answered(q) == pc = "sent" /\ q.batch = sending /\ answer' # NoAnswer

Fairness ==
    /\ WF_vars(SendAgain) /\ WF_vars(SendNew) /\ WF_vars(GiveUp)
    /\ WF_vars(StartIsolating) /\ WF_vars(SetAsideInvalid) /\ WF_vars(TakeAnswer)
    /\ WF_vars(\E m \in Media : MarkMedia(m)) /\ WF_vars(MarkingDone)
    /\ SF_vars(\E q \in requests : (RefuseInvalid(q) \/ AnswerFromReceipt(q)) /\ Answered(q))
    /\ SF_vars(\E q \in requests : q.batch = sending /\ Begin(q))
    /\ SF_vars(\E q \in busy : Commit(q) /\ Answered(q))

FairSpec == Spec /\ Fairness

-----------------------------------------------------------------------------
(* What delivery promises.                                                 *)

Applied  == {i \in RowIds : times[i] > 0}
Settled  == Applied \cup ignored \cup refused \cup setAside
Reported == {i \in Allocated : row[i].kind # "health"}

\* A row leaves the outbox only when the centre has applied it, judged it not
\* worth recording or refused it, or when it was found to be the malformed one:
\* lost answers, overlapping transactions, crashes between sending and closing
\* and forgotten receipts never lose one. (A health row is overwritten in place
\* and is the subject of HealthArrives.)
NothingLost == \A i \in Allocated \ waiting : row[i].kind # "health" => i \in Settled

\* However often a batch is sent, no row is applied twice - but for a clip that was
\* accepted once to be kept and once not to be: privacy areas are drawn and deleted.
AppliedOnce == \A i \in RowIds : times[i] > 1 =>
    /\ times[i] = 2 /\ row[i].kind = "media"
    /\ row[i].ref \in withheld /\ mediaState[row[i].ref] # "none"

\* The centre never applies an update of a flight past an earlier one that is
\* still unaccounted for: batches cut from the outbox, re-cut while isolating,
\* delayed and sent again keep the flight's order.
InOrder == \A i, j \in Allocated :
    /\ row[i].kind = "update" /\ row[j].kind = "update" /\ row[i].ref = row[j].ref
    /\ row[i].seq < row[j].seq /\ j \in Applied
    => i \in Settled

\* Taking a malformed batch apart sets aside only what is malformed or what the
\* centre itself refused.
OnlyBadSetAside == \A i \in setAside : row[i].fit = "malformed" \/ i \in refused

\* The gateway thinks a file unwanted - and may prune it - only if the centre does not
\* wait for its bytes, or has found it to be of a privacy area at one time.
Sought(m) == mediaState[m] \in {"none", "pending"} /\ m \notin withheld
UnwantedIsUnwanted == \A m \in Media : wish[m] = "no" => ~Sought(m)

\* services/drone_edge_sync.py: "a resend must not look unwanted". It does not hold: a
\* clip that is waited for is judged again when an area has been drawn about it.
ResendLooksWanted == \A m \in Media : wish[m] = "no" => mediaState[m] # "pending"

\* One bad item never blocks the rest: every row leaves the outbox in the end,
\* whatever is malformed, lost or crashed on the way.
Drains == \A i \in RowIds : (i \in waiting) ~> (i \notin waiting)

\* drone_edge/store.py: "A row leaves only when the centre has acknowledged it"
\* - for health: no row waiting means the centre was sent the latest reading.
HealthArrives == \A d \in Drones : HealthRows(d) = {} => seen[d] = reading[d]

\* drone_edge/store.py: "items the centre refused for good, kept with the reason
\* so a person at the site can see what was lost and why": a row that has left
\* without being applied or judged not worth recording is kept at the site.
RefusedIsKept == \A i \in Allocated \ waiting :
    row[i].kind # "health" /\ i \notin Applied \cup ignored => i \in setAside

-----------------------------------------------------------------------------
(* The promise: module Delivery, of everything but health.                 *)

\* A clip accepted to be kept and not to be is accepted; what it was last is not told.
Acceptances == [i \in RowIds |-> IF row[i].kind = "media" /\ times[i] > 1 THEN 1 ELSE times[i]]

UpdatesOf(s) == {i \in Allocated : row[i].kind = "update" /\ row[i].ref = s}

Promise == INSTANCE Delivery WITH
    Rows      <- RowIds,
    Flights   <- Sessions,
    submitted <- Reported,
    updates   <- [s \in Sessions |-> UpdatesOf(s)],
    queued    <- waiting \cap Reported,
    times     <- Acceptances,
    dropped   <- (ignored \cup refused \cup setAside) \cap Reported

\* The gateway, the link and the centre together keep the promise of Delivery.
ImplementsDelivery == Promise!Spec

-----------------------------------------------------------------------------
(* Why it holds: the inductive invariant.                                  *)

\* Ids, numbers and references are handed out once and in order.
Numbered ==
    /\ \A s \in Sessions : number[s] < next /\ edgeSeq[s] <= number[s]
    /\ \A i \in Allocated :
         /\ row[i].kind = "update"  => row[i].ref \in Sessions /\ row[i].seq \in 1..number[row[i].ref]
         /\ row[i].kind = "command" => row[i].ref \in Commands
         /\ row[i].kind = "event"   => row[i].ref \in Events
         /\ row[i].kind = "media"   => row[i].ref \in Media
    /\ \A i, j \in Allocated :
         row[i].kind = row[j].kind /\ row[i].ref = row[j].ref /\ i < j =>
             /\ row[i].kind \in {"update", "health"}
             /\ row[i].kind = "update" => row[i].seq < row[j].seq

\* In how many of its two lists the centre has a file.
Described(m) == (IF mediaState[m] = "none" THEN 0 ELSE 1) + (IF m \in withheld THEN 1 ELSE 0)

\* The centre's own records say which rows it has applied, and whatever is not
\* above edge_seq is accounted for.
Reflected ==
    /\ Applied \cup ignored \cup refused \subseteq Reported
    /\ \A i \in Allocated : row[i].kind = "update" =>
         /\ i \in Applied => row[i].seq <= edgeSeq[row[i].ref]
         /\ row[i].seq <= edgeSeq[row[i].ref] => i \in Settled
    /\ \A i \in Applied :
         /\ row[i].kind = "command" => row[i].ref \in closed
         /\ row[i].kind = "event"   => row[i].ref \in recorded
    /\ \A c \in closed   : \E i \in Applied : row[i].kind = "command" /\ row[i].ref = c
    /\ \A e \in recorded : \E i \in Applied : row[i].kind = "event" /\ row[i].ref = e
    /\ \A i \in Allocated : row[i].kind = "media" => times[i] = Described(row[i].ref)
    /\ \A m \in Media : Described(m) > 0 => ~Fresh("media", m)

\* Batch ids are used once, a batch being applied is well formed, and a batch is
\* a prefix of what was waiting: nothing older than one of its rows is waiting
\* outside it.
Cut ==
    /\ \A q \in requests \cup busy : q.batch < newBatch
    /\ \A q \in busy : ~Malformed(q.batch)
    /\ \A b \in BatchIds : receipt[b] # NoAnswer => b < newBatch
    /\ opened < newBatch /\ sending < newBatch
    /\ pc = "sent" => sending # NoBatch /\ content[sending] \subseteq waiting
    /\ \A b \in BatchIds : /\ content[b] \subseteq Allocated
                           /\ \A i \in content[b], j \in waiting : j < i => j \in content[b]

\* What an answer says of a batch is so, and stays so.
Honest(b, a) ==
    /\ a.verdict = "invalid" => Malformed(b)
    /\ a.verdict = "ok" =>
         /\ content[b] \cap Reported \subseteq Applied \cup ignored \cup refused
         /\ a.rejected \subseteq refused
         /\ \A m \in FilesSent(b, a.rejected) \ a.wanted : ~Sought(m)

AnswersHonest ==
    /\ \A b \in BatchIds : Honest(b, receipt[b])
    /\ pc = "sent" => Honest(sending, answer)
    /\ \A m \in Media : marking[m] = "no" => ~Sought(m)

IInv ==
    /\ TypeOK /\ Numbered /\ Reflected /\ Cut /\ AnswersHonest
    /\ NothingLost /\ AppliedOnce /\ OnlyBadSetAside /\ UnwantedIsUnwanted

=============================================================================
