-------------------------- MODULE EdgeOutboxProofs --------------------------
(* Proofs about EdgeOutbox, for every value of its constants.               *)
EXTENDS EdgeOutbox, FiniteSetTheorems, TLAPS

\* A row is queued: what every action that fills the outbox has in common.
NewRow(kind, ref, seq, fit) ==
    /\ Queue(kind, ref, seq, fit)
    /\ kind = "update" =>
         ref \in Sessions /\ seq = number[ref] + 1 /\ number' = [number EXCEPT ![ref] = seq]
    /\ kind # "update" => number' = number
    /\ kind = "command" => ref \in Commands /\ Fresh(kind, ref)
    /\ kind = "event" => ref \in Events /\ Fresh(kind, ref)
    /\ kind = "media" => ref \in Media /\ Fresh(kind, ref)
    /\ reading' \in [Drones -> 0..MaxReadings]
    /\ UNCHANGED <<opened, content, newBatch, setAside, wish, memory, crashes, requests, centre, hist>>

Fill == \E kind \in Kinds, ref \in Refs, seq \in 0..MaxRows, fit \in RowFits : NewRow(kind, ref, seq, fit)

\* A health row is overwritten in place.
Overwrite ==
    /\ reading' \in [Drones -> 0..MaxReadings]
    /\ UNCHANGED <<row, next, waiting, number, opened, content, newBatch, setAside, wish, memory,
                   crashes, requests, centre, hist>>

\* Every way of filling the outbox is one of the two.
LEMMA Filling ==
    ASSUME IInv,
           \/ \E s \in Sessions : RecordUpdate(s)
           \/ \E c \in Commands : FinishCommand(c)
           \/ \E e \in Events : PutEvent(e)
           \/ \E m \in Media : PutMedia(m)
           \/ \E d \in Drones : PollHealth(d)
    PROVE  Fill \/ Overwrite
<1> USE BoundsAssumption, FitsAssumption DEF Kinds, RowFits, Refs
<1>0. number \in [Sessions -> 0..MaxRows] /\ reading \in [Drones -> 0..MaxReadings]
      /\ next \in 1..(MaxRows + 1) /\ \A s \in Sessions : number[s] < next
  BY DEF IInv, TypeOK, Numbered
<1>1. ASSUME NEW s \in Sessions, RecordUpdate(s) PROVE Fill
  <2>1. PICK fit \in Fits : Queue("update", s, number[s] + 1, fit)
    BY <1>1 DEF RecordUpdate
  <2>2. number[s] + 1 \in 0..MaxRows
    BY <1>0, <2>1 DEF Queue
  <2>3. NewRow("update", s, number[s] + 1, fit)
    BY <1>0, <1>1, <2>1, <2>2 DEF RecordUpdate, NewRow
  <2> QED  BY <2>2, <2>3 DEF Fill
<1>2. ASSUME NEW c \in Commands, FinishCommand(c) PROVE Fill
  <2>1. NewRow("command", c, 0, "ok")
    BY <1>0, <1>2 DEF FinishCommand, NewRow
  <2> QED  BY <2>1 DEF Fill
<1>3. ASSUME NEW e \in Events, PutEvent(e) PROVE Fill
  <2>1. PICK fit \in Fits : NewRow("event", e, 0, fit)
    BY <1>0, <1>3 DEF PutEvent, NewRow
  <2> QED  BY <2>1 DEF Fill
<1>4. ASSUME NEW m \in Media, PutMedia(m) PROVE Fill
  <2>1. NewRow("media", m, 0, "ok")
    BY <1>0, <1>4 DEF PutMedia, NewRow
  <2> QED  BY <2>1 DEF Fill
<1>5. ASSUME NEW d \in Drones, PollHealth(d) PROVE Fill \/ Overwrite
  <2>1. reading' \in [Drones -> 0..MaxReadings]
    BY <1>0, <1>5 DEF PollHealth
  <2>2. CASE HealthRows(d) # {}
    BY <1>5, <2>1, <2>2 DEF PollHealth, Overwrite
  <2>3. CASE HealthRows(d) = {}
    <3>1. NewRow("health", d, 0, "ok")
      BY <1>5, <2>1, <2>3 DEF PollHealth, NewRow
    <3> QED  BY <3>1 DEF Fill
  <2> QED  BY <2>2, <2>3
<1> QED  BY <1>1, <1>2, <1>3, <1>4, <1>5

\* What a new row changes, and that what was there stays.
LEMMA NewRowFacts ==
    ASSUME IInv, NEW kind \in Kinds, NEW ref \in Refs, NEW seq \in 0..MaxRows, NEW fit \in RowFits,
           NewRow(kind, ref, seq, fit)
    PROVE  /\ next \in RowIds /\ next \notin Allocated /\ next' = next + 1
           /\ Allocated' = Allocated \cup {next}
           /\ \A i \in Allocated : i < next
           /\ Allocated \subseteq RowIds
           /\ row' \in [RowIds -> Row \cup {NoRow}]
           /\ row'[next] = [kind |-> kind, ref |-> ref, seq |-> seq, fit |-> fit]
           /\ \A i \in Allocated : row'[i] = row[i]
           /\ waiting' = waiting \cup {next}
<1>1. next \in 1..(MaxRows + 1) /\ row \in [RowIds -> Row \cup {NoRow}]
  BY DEF IInv, TypeOK
<1>2. /\ next <= MaxRows /\ next' = next + 1 /\ waiting' = waiting \cup {next}
      /\ row' = [row EXCEPT ![next] = [kind |-> kind, ref |-> ref, seq |-> seq, fit |-> fit]]
  BY DEF NewRow, Queue
<1>3. next \in RowIds /\ next \notin Allocated /\ Allocated' = Allocated \cup {next}
      /\ Allocated \subseteq RowIds /\ \A i \in Allocated : i < next
  BY <1>1, <1>2, BoundsAssumption DEF Allocated, RowIds
<1>4. [kind |-> kind, ref |-> ref, seq |-> seq, fit |-> fit] \in Row
  BY DEF Row
<1> QED  BY <1>1, <1>2, <1>3, <1>4

-----------------------------------------------------------------------------
(* The invariant, conjunct by conjunct. The lemmas share one split of Next.  *)

\* Every request on its way, and every answer the centre gives, is of its type.
LEMMA PostType ==
    ASSUME TypeOK, NEW b \in BatchIds, NEW ids, Post(b, ids)
    PROVE  requests' \subseteq Request /\ pc' = "sent" /\ sending' = b /\ answer' = NoAnswer
<1>1. PICK c \in 1..MaxCopies :
        requests' = requests \cup {[batch |-> b, copy |-> c, readings |->
           [d \in Drones |-> IF \E i \in ids : row[i].kind = "health" /\ row[i].ref = d
                             THEN reading[d] ELSE 0]]}
  BY DEF Post
<1>2. [d \in Drones |-> IF \E i \in ids : row[i].kind = "health" /\ row[i].ref = d
                        THEN reading[d] ELSE 0] \in [Drones -> 0..MaxReadings]
  BY BoundsAssumption DEF TypeOK
<1>3. requests' \subseteq Request
  BY <1>1, <1>2 DEF TypeOK, Request
<1> QED  BY <1>3 DEF Post

LEMMA AnswerTypes == NoAnswer \in Answer /\ Invalid \in Answer
BY DEF NoAnswer, Invalid, Answer

\* The centre tells the rows of a batch apart: the parts are parts of it, and
\* none of them is a health row.
LEMMA BatchParts ==
    ASSUME IInv, NEW b \in BatchIds, NEW skip \in SUBSET NewEvents(b),
           NEW area \in SUBSET RefsOf(OfKind(b, "media"))
    PROVE  /\ content[b] \subseteq Allocated /\ Allocated \subseteq RowIds
           /\ GoodUpdates(b) \subseteq content[b] /\ GoodCommands(b) \subseteq content[b]
           /\ GoodEvents(b, skip) \subseteq content[b] /\ GoodMedia(b, skip, area) \subseteq content[b]
           /\ Taken(b, skip, area) \subseteq Reported /\ Taken(b, skip, area) \subseteq content[b]
           /\ Turned(b, skip) \subseteq Reported /\ Turned(b, skip) \subseteq content[b]
           /\ skip \subseteq Reported
           /\ RefsOf(GoodCommands(b)) \subseteq Commands
           /\ RefsOf(GoodEvents(b, skip)) \subseteq Events
           /\ RefsOf(OfKind(b, "media")) \subseteq Media
           /\ RefsOf(GoodMedia(b, skip, area)) \subseteq Media
<1>1. next \in 1..(MaxRows + 1) /\ content[b] \subseteq Allocated /\ Allocated \subseteq RowIds
  BY BoundsAssumption DEF IInv, TypeOK, Cut, Allocated, RowIds
<1>2. /\ GoodUpdates(b) \subseteq OfKind(b, "update") /\ NewUpdates(b) \subseteq OfKind(b, "update")
      /\ GoodCommands(b) \subseteq OfKind(b, "command")
      /\ GoodEvents(b, skip) \subseteq OfKind(b, "event") /\ NewEvents(b) \subseteq OfKind(b, "event")
      /\ GoodMedia(b, skip, area) \subseteq OfKind(b, "media") /\ NewMedia(b, area) \subseteq OfKind(b, "media")
      /\ Unsighted(b, skip) \subseteq OfKind(b, "media")
  BY DEF GoodUpdates, NewUpdates, GoodCommands, GoodEvents, NewEvents, GoodMedia, NewMedia, Unsighted
<1>3. \A kind : OfKind(b, kind) \subseteq content[b] /\ (kind # "health" => OfKind(b, kind) \subseteq Reported)
  BY <1>1 DEF OfKind, Reported
<1>4. Taken(b, skip, area) \subseteq OfKind(b, "update") \cup OfKind(b, "command") \cup OfKind(b, "event")
                                 \cup OfKind(b, "media")
  BY <1>2 DEF Taken
<1>5. Turned(b, skip) \subseteq OfKind(b, "update") \cup OfKind(b, "event") \cup OfKind(b, "media")
  BY <1>2 DEF Turned
<1>6. \A kind : \A i \in OfKind(b, kind) : i \in Allocated /\ row[i].kind = kind
  BY <1>1 DEF OfKind
<1>7. /\ \A i \in OfKind(b, "command") : row[i].ref \in Commands
      /\ \A i \in OfKind(b, "event") : row[i].ref \in Events
      /\ \A i \in OfKind(b, "media") : row[i].ref \in Media
  BY <1>6 DEF IInv, Numbered
<1>8. /\ RefsOf(GoodCommands(b)) \subseteq Commands
      /\ RefsOf(GoodEvents(b, skip)) \subseteq Events
      /\ RefsOf(OfKind(b, "media")) \subseteq Media
      /\ RefsOf(GoodMedia(b, skip, area)) \subseteq Media
  BY <1>2, <1>7 DEF RefsOf
<1>9. Taken(b, skip, area) \subseteq Reported /\ Turned(b, skip) \subseteq Reported /\ skip \subseteq Reported
  BY <1>2, <1>3, <1>4, <1>5
<1>10. Taken(b, skip, area) \subseteq content[b] /\ Turned(b, skip) \subseteq content[b]
  BY <1>3, <1>4, <1>5
<1> QED  BY <1>1, <1>2, <1>3, <1>8, <1>9, <1>10

\* The state a commit leaves is of its type.
LEMMA CommitType ==
    ASSUME IInv, NEW q \in busy, Commit(q)
    PROVE  TypeOK'
<1> USE BoundsAssumption
<1> DEFINE b == q.batch
<1>1. PICK skip \in SUBSET NewEvents(b), area \in SUBSET RefsOf(OfKind(b, "media")),
           pick \in [Media -> {"pending", "not_required"}], flying \in SUBSET Drones :
               Apply(q, skip, area, pick, flying)
  BY DEF Commit
<1>2. b \in BatchIds /\ q \in Request /\ q.readings \in [Drones -> 0..MaxReadings]
  BY DEF IInv, TypeOK, Request
<1>3. TypeOK /\ Allocated \subseteq RowIds /\ Turned(b, skip) \subseteq RowIds /\ skip \subseteq RowIds
      /\ RefsOf(GoodCommands(b)) \subseteq Commands
      /\ RefsOf(GoodEvents(b, skip)) \subseteq Events
      /\ RefsOf(GoodMedia(b, skip, area)) \subseteq Media
      /\ RefsOf(OfKind(b, "media") \ Unsighted(b, skip)) \subseteq Media
  <2>1. RefsOf(OfKind(b, "media") \ Unsighted(b, skip)) \subseteq RefsOf(OfKind(b, "media"))
    BY DEF RefsOf
  <2> QED  BY <1>2, <2>1, BatchParts DEF IInv, Reported
<1> HIDE DEF b
<1>4. Result(b, skip, area, mediaState') \in Answer
  BY <1>3 DEF Result, Answer
<1>5. edgeSeq' \in [Sessions -> 0..MaxRows] /\ closed' \subseteq Commands /\ recorded' \subseteq Events
  BY <1>1, <1>3 DEF Apply, TypeOK, b
<1>6. mediaState' \in [Media -> {"none", "pending", "not_required", "synced"}] /\ withheld' \subseteq Media
  <2> DEFINE Good == RefsOf(GoodMedia(b, skip, area))
  <2>1. /\ withheld' = withheld \cup (Good \cap area)
        /\ mediaState' = [m \in Media |-> IF m \in Good \ area THEN pick[m] ELSE mediaState[m]]
    BY <1>1 DEF Apply, b
  <2>2. Good \subseteq Media
    BY <1>3
  <2> HIDE DEF Good
  <2> QED  BY <1>3, <2>1, <2>2 DEF TypeOK
<1>7. heard' \in [Drones -> 0..MaxReadings] /\ seen' \in [Drones -> 0..MaxReadings]
  BY <1>1, <1>2, <1>3 DEF Apply, TypeOK
<1>8. receipt' \in [BatchIds -> Answer]
  BY <1>1, <1>2, <1>3, <1>4 DEF Apply, TypeOK, b
<1>9. answer' \in Answer
  BY <1>1, <1>3, <1>4 DEF Apply, Reply, TypeOK, b
<1>10. times' \in [RowIds -> 0..3] /\ ignored' \subseteq RowIds /\ refused' \subseteq RowIds
  BY <1>1, <1>3 DEF Apply, TypeOK, b
<1>11. busy' \subseteq Request
  BY <1>3 DEF Commit, TypeOK
<1>12. UNCHANGED <<disk, pc, sending, marking, limit, isolating, crashes, requests, ended>>
  BY DEF Commit
<1> QED  BY <1>3, <1>5, <1>6, <1>7, <1>8, <1>9, <1>10, <1>11, <1>12 DEF TypeOK, disk, Allocated

LEMMA TypeStep == ASSUME IInv, [Next]_vars PROVE TypeOK'
<1> USE BoundsAssumption
<1>0. TypeOK /\ NoBatch \notin BatchIds
  BY DEF IInv, NoBatch, BatchIds
<1>1. CASE Fill
  <2>1. PICK kind \in Kinds, ref \in Refs, seq \in 0..MaxRows, fit \in RowFits : NewRow(kind, ref, seq, fit)
    BY <1>1 DEF Fill
  <2>2. /\ next \in RowIds /\ next' = next + 1 /\ Allocated' = Allocated \cup {next}
        /\ row' \in [RowIds -> Row \cup {NoRow}] /\ waiting' = waiting \cup {next}
        /\ row'[next] = [kind |-> kind, ref |-> ref, seq |-> seq, fit |-> fit]
        /\ \A i \in Allocated : row'[i] = row[i]
    BY <2>1, NewRowFacts, Zenon
  <2>3. row'[next] \in Row
    BY <2>2 DEF Row
  <2>4. next' \in 1..(MaxRows + 1) /\ waiting' \subseteq Allocated' /\ \A i \in Allocated' : row'[i] \in Row
    BY <1>0, <2>2, <2>3 DEF TypeOK, RowIds
  <2>5. number' \in [Sessions -> 0..MaxRows] /\ reading' \in [Drones -> 0..MaxReadings]
    BY <1>0, <2>1 DEF NewRow, TypeOK
  <2> QED  BY <1>0, <2>1, <2>2, <2>4, <2>5 DEF NewRow, TypeOK, memory, centre, hist
<1>2. CASE Overwrite
  BY <1>0, <1>2 DEF Overwrite, TypeOK, Allocated, memory, centre, hist
<1>3. CASE SendAgain
  BY <1>0, <1>3, PostType, AnswerTypes DEF SendAgain, TypeOK, Allocated, disk, centre, hist
<1>4. CASE SendNew
  <2>1. PICK ids \in SUBSET waiting : Post(newBatch, ids) /\ content' = [content EXCEPT ![newBatch] = ids]
    BY <1>4 DEF SendNew
  <2>2. newBatch \in BatchIds /\ opened' = newBatch /\ newBatch' = newBatch + 1
    BY <1>0, <1>4 DEF SendNew, TypeOK, BatchIds
  <2>3. ids \subseteq RowIds /\ newBatch' \in 1..(MaxBatches + 1)
    BY <1>0, <2>2 DEF TypeOK, Allocated, RowIds, BatchIds
  <2>4. content' \in [BatchIds -> SUBSET RowIds]
    BY <1>0, <2>1, <2>3 DEF TypeOK
  <2> QED  BY <1>0, <1>4, <2>1, <2>2, <2>3, <2>4, PostType, AnswerTypes
           DEF SendNew, TypeOK, Allocated, centre, hist
<1>5. CASE GiveUp
  BY <1>0, <1>5 DEF GiveUp, TypeOK, Allocated, disk, centre, hist
<1>6. CASE StartIsolating
  BY <1>0, <1>6, AnswerTypes DEF StartIsolating, DropOpenBatch, Idle, TypeOK, Allocated, centre, hist
<1>7. CASE SetAsideInvalid
  <2>1. sending \in BatchIds /\ content[sending] \subseteq Allocated
    BY <1>0, <1>7 DEF SetAsideInvalid, TypeOK, IInv, Cut
  <2>2. waiting' \subseteq Allocated /\ setAside' \subseteq Allocated /\ opened' = NoBatch
    BY <1>0, <1>7, <2>1 DEF SetAsideInvalid, CloseBatch, TypeOK
  <2> QED  BY <1>0, <1>7, <2>2, AnswerTypes DEF SetAsideInvalid, Idle, TypeOK, Allocated, centre, hist
<1>8. CASE TakeAnswer
  <2>1. isolating' \in 0..IsolateLimit /\ limit' \in {1, MaxItems}
    BY <1>0, <1>8 DEF TakeAnswer, NextIsolating, TypeOK
  <2>2. marking' \in [Media -> {"none", "yes", "no"}]
    BY <1>8 DEF TakeAnswer
  <2>3. waiting' \subseteq Allocated /\ setAside' \subseteq Allocated /\ opened' = NoBatch
    BY <1>0, <1>8 DEF TakeAnswer, CloseBatch, TypeOK, IInv, Cut, Answer
  <2> QED  BY <1>0, <1>8, <2>1, <2>2, <2>3, AnswerTypes DEF TakeAnswer, TypeOK, Allocated, centre, hist
<1>9. ASSUME NEW m \in Media, MarkMedia(m) PROVE TypeOK'
  <2>1. marking[m] \in {"yes", "no"}
    BY <1>0, <1>9 DEF MarkMedia, TypeOK
  <2> QED  BY <1>0, <1>9, <2>1 DEF MarkMedia, TypeOK, Allocated, centre, hist
<1>10. CASE MarkingDone
  BY <1>0, <1>10 DEF MarkingDone, TypeOK, Allocated, disk, centre, hist
<1>11. CASE Crash
  BY <1>0, <1>11, AnswerTypes DEF Crash, TypeOK, Allocated, disk, centre, hist
<1>12. ASSUME NEW q \in requests, RefuseInvalid(q) PROVE TypeOK'
  BY <1>0, <1>12, AnswerTypes DEF RefuseInvalid, Reply, TypeOK, Allocated, disk, centre, hist
<1>13. ASSUME NEW q \in requests, AnswerFromReceipt(q) PROVE TypeOK'
  <2>1. receipt[q.batch] \in Answer
    BY <1>0 DEF TypeOK, Request
  <2> QED  BY <1>0, <1>13, <2>1 DEF AnswerFromReceipt, Reply, TypeOK, Allocated, disk, centre, hist
<1>14. ASSUME NEW q \in requests, Begin(q) PROVE TypeOK'
  BY <1>0, <1>14 DEF Begin, TypeOK, Allocated, disk, memory, hist
<1>15. ASSUME NEW q \in busy, Commit(q) PROVE TypeOK'
  BY <1>15, CommitType
<1>16. ASSUME NEW m \in Media, StoreFile(m) PROVE TypeOK'
  BY <1>0, <1>16 DEF StoreFile, TypeOK, Allocated, disk, memory, hist
<1>17. ASSUME NEW s \in Sessions, EndSession(s) PROVE TypeOK'
  BY <1>0, <1>17 DEF EndSession, TypeOK, Allocated, disk, memory, hist
<1>18. ASSUME NEW c \in BatchIds, ForgetReceipt(c) PROVE TypeOK'
  BY <1>0, <1>18, AnswerTypes DEF ForgetReceipt, TypeOK, Allocated, disk, memory, hist
<1>19. ASSUME NEW q \in requests \cup busy, Lose(q) PROVE TypeOK'
  BY <1>0, <1>19 DEF Lose, TypeOK, Allocated, disk, memory, hist
<1>20. CASE UNCHANGED vars
  BY <1>0, <1>20 DEF vars, TypeOK, Allocated, disk, memory, centre, hist
<1> QED  BY <1>1, <1>2, <1>3, <1>4, <1>5, <1>6, <1>7, <1>8, <1>9, <1>10, <1>11, <1>12, <1>13, <1>14,
            <1>15, <1>16, <1>17, <1>18, <1>19, <1>20, Filling DEF Next, Gateway, Centre

Committing == \E q \in busy : Commit(q)
Storing    == \E m \in Media : StoreFile(m)
Closing    == SetAsideInvalid \/ TakeAnswer

\* Who may change what.
LEMMA Frame == ASSUME IInv, [Next]_vars PROVE
    /\ Fill \/ UNCHANGED <<row, next, number>>
    /\ Fill \/ Closing \/ UNCHANGED waiting
    /\ Closing \/ UNCHANGED setAside
    /\ SendNew \/ UNCHANGED <<content, newBatch>>
    /\ Committing \/ UNCHANGED <<edgeSeq, closed, recorded, withheld, times, ignored, refused>>
    /\ Committing \/ Storing \/ UNCHANGED mediaState
    /\ (\E m \in Media : MarkMedia(m)) \/ UNCHANGED wish
<1> USE DEF Next, Gateway, Centre, Committing, Storing, Closing, disk, memory, centre, hist
<1>1. CASE Fill \/ Overwrite
  BY <1>1 DEF Fill, NewRow, Overwrite
<1>2. CASE SendAgain \/ SendNew \/ GiveUp \/ StartIsolating
  BY <1>2 DEF SendAgain, SendNew, GiveUp, StartIsolating
<1>3. CASE SetAsideInvalid \/ TakeAnswer
  BY <1>3 DEF SetAsideInvalid, TakeAnswer
<1>4. CASE (\E m \in Media : MarkMedia(m)) \/ MarkingDone \/ Crash
  BY <1>4 DEF MarkMedia, MarkingDone, Crash
<1>5. CASE \E q \in requests : RefuseInvalid(q) \/ AnswerFromReceipt(q) \/ Begin(q)
  BY <1>5 DEF RefuseInvalid, AnswerFromReceipt, Begin
<1>6. CASE \E q \in busy : Commit(q)
  BY <1>6 DEF Commit
<1>7. CASE \E m \in Media : StoreFile(m)
  BY <1>7 DEF StoreFile
<1>8. CASE \/ \E s \in Sessions : EndSession(s)
           \/ \E b \in BatchIds : ForgetReceipt(b)
           \/ \E q \in requests \cup busy : Lose(q)
  BY <1>8 DEF EndSession, ForgetReceipt, Lose
<1>9. CASE UNCHANGED vars
  BY <1>9 DEF vars
<1> QED  BY <1>1, <1>2, <1>3, <1>4, <1>5, <1>6, <1>7, <1>8, <1>9, Filling

\* The three kinds of step exclude one another.
LEMMA Exclusive == ASSUME IInv PROVE
    /\ Fill => UNCHANGED <<setAside, content, newBatch, edgeSeq, closed, recorded, times, ignored, refused,
                           mediaState, withheld, wish, receipt, answer, sending, pc, marking, requests, busy, opened>>
    /\ Closing => UNCHANGED <<row, next, number, content, newBatch, edgeSeq, closed, recorded, times, ignored,
                              refused, mediaState, withheld, wish, receipt, requests, busy>>
    /\ Committing => UNCHANGED <<row, next, number, waiting, setAside, content, newBatch, wish, sending, pc,
                                 marking, requests, opened>>
BY DEF Fill, NewRow, Closing, SetAsideInvalid, TakeAnswer, Committing, Commit, disk, memory, centre, hist

LEMMA NumberedStep == ASSUME IInv, [Next]_vars PROVE Numbered'
<1>0. Numbered /\ TypeOK
  BY DEF IInv
<1>1. CASE Fill
  <2>1. PICK kind \in Kinds, ref \in Refs, seq \in 0..MaxRows, fit \in RowFits : NewRow(kind, ref, seq, fit)
    BY <1>1 DEF Fill
  <2>2. /\ next \in RowIds /\ next \notin Allocated /\ next' = next + 1 /\ Allocated' = Allocated \cup {next}
        /\ \A i \in Allocated : i < next /\ row'[i] = row[i]
        /\ row'[next] = [kind |-> kind, ref |-> ref, seq |-> seq, fit |-> fit]
    BY <2>1, NewRowFacts, Zenon
  <2>3. edgeSeq' = edgeSeq /\ number \in [Sessions -> 0..MaxRows] /\ next \in Nat /\ Allocated \subseteq Nat
    BY <1>0, <1>1, Exclusive DEF TypeOK, Allocated
  <2>4. number' \in [Sessions -> 0..MaxRows] /\ \A s \in Sessions : number'[s] \in Nat /\ number[s] \in Nat /\ number[s] <= number'[s]
    BY <2>1, <2>3, BoundsAssumption DEF NewRow
  <2>5. \A s \in Sessions : number'[s] < next' /\ edgeSeq'[s] <= number'[s]
    BY <1>0, <2>1, <2>2, <2>3, <2>4 DEF Numbered, NewRow, TypeOK
  <2>6. \A i \in Allocated' :
           /\ row'[i].kind = "update"  => row'[i].ref \in Sessions /\ row'[i].seq \in 1..number'[row'[i].ref]
           /\ row'[i].kind = "command" => row'[i].ref \in Commands
           /\ row'[i].kind = "event"   => row'[i].ref \in Events
           /\ row'[i].kind = "media"   => row'[i].ref \in Media
    BY <1>0, <2>1, <2>2, <2>3, <2>4 DEF Numbered, NewRow
  <2>7. \A i \in Allocated : row[i].kind = kind /\ row[i].ref = ref =>
           kind \in {"update", "health"} /\ (kind = "update" => row[i].seq < seq)
    BY <1>0, <2>1, <2>3 DEF Numbered, NewRow, Fresh, Kinds
  <2>8. \A i, j \in Allocated' :
         row'[i].kind = row'[j].kind /\ row'[i].ref = row'[j].ref /\ i < j =>
             /\ row'[i].kind \in {"update", "health"}
             /\ row'[i].kind = "update" => row'[i].seq < row'[j].seq
    <3>1. SUFFICES ASSUME NEW i \in Allocated', NEW j \in Allocated',
                          row'[i].kind = row'[j].kind, row'[i].ref = row'[j].ref, i < j
                   PROVE  row'[i].kind \in {"update", "health"}
                          /\ (row'[i].kind = "update" => row'[i].seq < row'[j].seq)
      OBVIOUS
    <3>2. i \in Allocated /\ row'[i] = row[i]
      BY <2>2, <2>3, <3>1
    <3>3. CASE j \in Allocated
      BY <1>0, <2>2, <3>1, <3>2, <3>3 DEF Numbered
    <3>4. CASE j = next
      BY <2>2, <2>7, <3>1, <3>2, <3>4
    <3> QED  BY <2>2, <3>3, <3>4
  <2> QED  BY <2>5, <2>6, <2>8 DEF Numbered
<1>2. CASE Committing
  <2>1. PICK q \in busy : Commit(q)
    BY <1>2 DEF Committing
  <2>2. PICK skip \in SUBSET NewEvents(q.batch), area \in SUBSET RefsOf(OfKind(q.batch, "media")),
             pick \in [Media -> {"pending", "not_required"}], flying \in SUBSET Drones :
               Apply(q, skip, area, pick, flying)
    BY <2>1 DEF Commit
  <2>3. UNCHANGED <<row, next, number>>
    BY <1>2, Exclusive
  <2>4. \A s \in Sessions : edgeSeq'[s] <= number[s]
    <3>1. SUFFICES ASSUME NEW s \in Sessions PROVE edgeSeq'[s] <= number[s]
      OBVIOUS
    <3>2. edgeSeq'[s] \in {edgeSeq[s]} \cup {row[i].seq : i \in {j \in GoodUpdates(q.batch) : row[j].ref = s}}
      BY <2>2 DEF Apply, IsHighest
    <3>3. \A i \in GoodUpdates(q.batch) : row[i].kind = "update" /\ i \in Allocated
      BY <1>0 DEF GoodUpdates, NewUpdates, OfKind, IInv, Cut, TypeOK, Request
    <3> QED  BY <1>0, <3>2, <3>3 DEF Numbered, TypeOK
  <2> QED  BY <1>0, <2>3, <2>4 DEF Numbered, Allocated
<1>3. CASE UNCHANGED <<row, next, number, edgeSeq>>
  BY <1>0, <1>3 DEF Numbered, Allocated
<1> QED  BY <1>1, <1>2, <1>3, Frame

-----------------------------------------------------------------------------
(* What a commit does to the rows of its batch.                            *)

LEMMA RowTimes == ASSUME IInv
    PROVE  Allocated \subseteq RowIds /\ \A i \in RowIds : times[i] \in 0..3
BY BoundsAssumption DEF IInv, TypeOK, Allocated, RowIds

\* An item is unknown to the centre exactly when it has not been applied.
LEMMA Unknown ==
    ASSUME IInv, NEW i \in Allocated
    PROVE  /\ row[i].kind = "command" => (i \in Applied <=> row[i].ref \in closed)
           /\ row[i].kind = "event"   => (i \in Applied <=> row[i].ref \in recorded)
           /\ row[i].kind = "media"   => (i \in Applied <=> Described(row[i].ref) > 0)
<1>1. Reflected /\ Numbered /\ Applied \subseteq Allocated
  BY DEF IInv, Reflected, Reported
<1>2. \A j \in Allocated : row[j].kind = row[i].kind /\ row[j].ref = row[i].ref
                             /\ row[i].kind \in {"command", "event", "media"} => i = j
  BY <1>1 DEF Numbered, IInv, TypeOK, Allocated
<1>3. row[i].kind = "command" => (i \in Applied <=> row[i].ref \in closed)
  BY <1>1, <1>2 DEF Reflected
<1>4. row[i].kind = "event" => (i \in Applied <=> row[i].ref \in recorded)
  BY <1>1, <1>2 DEF Reflected
<1>5. row[i].kind = "media" => (i \in Applied <=> Described(row[i].ref) > 0)
  <2>1. row[i].kind = "media" => times[i] = Described(row[i].ref)
    BY <1>1 DEF Reflected
  <2>2. i \in RowIds
    BY RowTimes
  <2> QED  BY <2>1, <2>2 DEF Applied
<1> QED  BY <1>3, <1>4, <1>5

\* Only rows never applied before are taken - or a file's row that is in one of the
\* centre's two lists and goes to the other.
LEMMA TakenOnce ==
    ASSUME IInv, NEW b \in BatchIds, NEW skip \in SUBSET NewEvents(b),
           NEW area \in SUBSET RefsOf(OfKind(b, "media"))
    PROVE  \A i \in Taken(b, skip, area) : times[i] < 2 /\ (row[i].kind # "media" => times[i] = 0)
<1>0. /\ \A i \in content[b] : i \in Allocated
      /\ \A i \in Allocated : i \notin Applied => times[i] = 0
  BY RowTimes DEF IInv, Cut, Applied
<1>1. \A i \in GoodUpdates(b) : i \notin Applied
  BY <1>0 DEF GoodUpdates, NewUpdates, OfKind, IInv, Reflected, Numbered, TypeOK, Allocated
<1>2. \A i \in GoodCommands(b) : i \notin Applied
  BY <1>0, Unknown DEF GoodCommands, OfKind
<1>3. \A i \in GoodEvents(b, skip) : i \notin Applied
  BY <1>0, Unknown DEF GoodEvents, NewEvents, OfKind
<1>4. \A i \in GoodMedia(b, skip, area) : row[i].kind = "media" /\ times[i] < 2
  <2>1. ASSUME NEW i \in GoodMedia(b, skip, area) PROVE row[i].kind = "media" /\ times[i] < 2
    <3>1. /\ i \in Allocated /\ row[i].kind = "media"
          /\ row[i].ref \notin withheld \/ mediaState[row[i].ref] = "none"
      BY <1>0 DEF GoodMedia, NewMedia, OfKind
    <3>2. times[i] = Described(row[i].ref)
      BY <3>1 DEF IInv, Reflected
    <3> QED  BY <3>1, <3>2 DEF Described
  <2> QED  BY <2>1
<1>5. \A i \in GoodUpdates(b) \cup GoodCommands(b) \cup GoodEvents(b, skip) : i \in content[b]
  BY DEF GoodUpdates, NewUpdates, GoodCommands, GoodEvents, NewEvents, OfKind
<1> QED  BY <1>0, <1>1, <1>2, <1>3, <1>4, <1>5 DEF Taken

\* Every item of the batch but health is accounted for: taken now or before, or
\* judged not worth recording, or refused.
LEMMA AllAccounted ==
    ASSUME IInv, NEW q \in busy, NEW skip \in SUBSET NewEvents(q.batch),
           NEW area \in SUBSET RefsOf(OfKind(q.batch, "media")),
           NEW i \in content[q.batch],
           row[i].kind # "health"
    PROVE  i \in Taken(q.batch, skip, area) \cup Turned(q.batch, skip) \cup skip \cup Applied \cup ignored \cup refused
<1> DEFINE b == q.batch
<1>0. b \in BatchIds /\ i \in Allocated /\ row[i] \in Row
  BY DEF IInv, TypeOK, Request, Cut
<1>1. row[i].kind \in {"update", "command", "event", "media"}
  BY <1>0 DEF Row, Kinds
<1>2. CASE row[i].kind = "update"
  <2>1. CASE i \in NewUpdates(b)
    BY <2>1 DEF Taken, Turned
  <2>2. CASE i \notin NewUpdates(b)
    <3>1. row[i].seq <= edgeSeq[row[i].ref]
      BY <1>0, <1>2, <2>2 DEF NewUpdates, OfKind, IInv, TypeOK, Numbered
    <3>2. i \in Settled
      BY <1>0, <1>2, <3>1 DEF IInv, Reflected
    <3>3. row[i].fit # "malformed"
      BY DEF IInv, Cut, Malformed
    <3>4. i \in setAside => i \in refused
      BY <3>3 DEF IInv, OnlyBadSetAside
    <3> QED  BY <3>2, <3>4 DEF Settled
  <2> QED  BY <2>1, <2>2
<1>3. CASE row[i].kind = "command"
  BY <1>0, <1>3, Unknown DEF GoodCommands, OfKind, Taken
<1>4. CASE row[i].kind = "event"
  <2>1. i \in NewEvents(b) \/ i \in Applied
    BY <1>0, <1>4, Unknown DEF NewEvents, OfKind
  <2> QED  BY <2>1 DEF Taken, Turned
<1>5. CASE row[i].kind = "media"
  <2>1. i \in NewMedia(b, area) \/ Described(row[i].ref) > 0
    BY <1>0, <1>5 DEF NewMedia, OfKind, Described
  <2>2. i \in NewMedia(b, area) \/ i \in Applied
    BY <1>0, <1>5, <2>1, Unknown
  <2> QED  BY <2>2 DEF Taken, Turned, GoodMedia
<1> QED  BY <1>1, <1>2, <1>3, <1>4, <1>5

\* What a commit makes of the history.
LEMMA CommitTimes ==
    ASSUME IInv, NEW q \in busy, NEW skip \in SUBSET NewEvents(q.batch),
           NEW area \in SUBSET RefsOf(OfKind(q.batch, "media")),
           NEW pick \in [Media -> {"pending", "not_required"}], NEW flying \in SUBSET Drones,
           Apply(q, skip, area, pick, flying)
    PROVE  times' = [i \in RowIds |-> IF i \in Taken(q.batch, skip, area) THEN times[i] + 1 ELSE times[i]]
<1>1. q.batch \in BatchIds
  BY DEF IInv, TypeOK, Request
<1>2. Taken(q.batch, skip, area) \subseteq RowIds
  BY <1>1, BatchParts DEF Reported
<1>3. \A i \in Taken(q.batch, skip, area) : times[i] < 2
  BY <1>1, TakenOnce
<1>4. \A i \in Taken(q.batch, skip, area) : times[i] < 3
  BY <1>2, <1>3, RowTimes
<1> QED  BY <1>4 DEF Apply

LEMMA CommitOutcome ==
    ASSUME IInv, NEW q \in busy, NEW skip \in SUBSET NewEvents(q.batch),
           NEW area \in SUBSET RefsOf(OfKind(q.batch, "media")),
           NEW pick \in [Media -> {"pending", "not_required"}], NEW flying \in SUBSET Drones,
           Apply(q, skip, area, pick, flying), UNCHANGED <<row, next, content, setAside>>
    PROVE  /\ Applied' = Applied \cup Taken(q.batch, skip, area)
           /\ ignored' = ignored \cup skip /\ refused' = refused \cup Turned(q.batch, skip)
           /\ Settled \subseteq Settled'
           /\ content[q.batch] \cap Reported \subseteq Applied' \cup ignored' \cup refused'
<1> DEFINE b == q.batch
<1>1. b \in BatchIds /\ Taken(b, skip, area) \subseteq RowIds
  BY BatchParts DEF IInv, TypeOK, Request, Reported
<1>2. times' = [i \in RowIds |-> IF i \in Taken(b, skip, area) THEN times[i] + 1 ELSE times[i]]
  BY CommitTimes
<1>3. Applied' = Applied \cup Taken(b, skip, area)
  <2> HIDE DEF b
  <2> QED  BY <1>1, <1>2, RowTimes DEF Applied
<1>4. ignored' = ignored \cup skip /\ refused' = refused \cup Turned(b, skip)
  BY DEF Apply
<1>5. Settled \subseteq Settled'
  BY <1>3, <1>4 DEF Settled
<1>6. content[b] \cap Reported \subseteq Applied' \cup ignored' \cup refused'
  BY <1>3, <1>4, AllAccounted DEF Reported
<1> QED  BY <1>3, <1>4, <1>5, <1>6

-----------------------------------------------------------------------------
(* Accounting.                                                             *)

\* The centre's transaction, opened up once for the lemmas below.
LEMMA CommitParts ==
    ASSUME IInv, Committing
    PROVE  \E q \in busy : \E skip \in SUBSET NewEvents(q.batch), area \in SUBSET RefsOf(OfKind(q.batch, "media")),
              pick \in [Media -> {"pending", "not_required"}], flying \in SUBSET Drones :
                /\ Commit(q) /\ Apply(q, skip, area, pick, flying) /\ q.batch \in BatchIds
                /\ UNCHANGED <<row, next, number, waiting, content, setAside>>
BY Exclusive DEF Committing, Commit, IInv, TypeOK, Request

\* What is settled stays settled.
LEMMA SettledGrows == ASSUME IInv, [Next]_vars PROVE Settled \subseteq Settled' /\ Applied \subseteq Applied'
<1>1. CASE Committing
  BY <1>1, CommitParts, CommitOutcome
<1>2. CASE UNCHANGED <<times, ignored, refused>>
  <2>1. setAside \subseteq setAside'
    BY Frame DEF Closing, SetAsideInvalid, TakeAnswer, CloseBatch
  <2> QED  BY <1>2, <2>1 DEF Settled, Applied
<1> QED  BY <1>1, <1>2, Frame

\* An update is applied only when every earlier one of its flight is settled:
\* an earlier one is in the batch too, or has left the outbox before.
LEMMA OrderKept ==
    ASSUME IInv, NEW q \in busy, NEW skip \in SUBSET NewEvents(q.batch),
           NEW area \in SUBSET RefsOf(OfKind(q.batch, "media")),
           NEW pick \in [Media -> {"pending", "not_required"}], NEW flying \in SUBSET Drones,
           Apply(q, skip, area, pick, flying), UNCHANGED <<row, next, content, setAside>>,
           NEW i \in content[q.batch], NEW j \in Allocated, row[j].kind # "health", j < i
    PROVE  j \in Settled'
<1>0. q.batch \in BatchIds
  BY DEF IInv, TypeOK, Request
<1>1. CASE j \in content[q.batch]
  BY <1>1, CommitOutcome DEF Reported, Settled
<1>2. CASE j \notin content[q.batch]
  <2>1. j \notin waiting
    BY <1>0, <1>2 DEF IInv, Cut
  <2>2. j \in Settled
    BY <2>1 DEF IInv, NothingLost
  <2> QED  BY <2>2, CommitOutcome
<1> QED  BY <1>1, <1>2

LEMMA ReflectedStep == ASSUME IInv, [Next]_vars PROVE Reflected'
<1>0. Reflected /\ Numbered /\ TypeOK /\ Applied \subseteq Allocated /\ Allocated \subseteq Nat
  BY DEF IInv, Reflected, Reported, TypeOK, Allocated
<1>1. CASE Fill
  <2>1. PICK kind \in Kinds, ref \in Refs, seq \in 0..MaxRows, fit \in RowFits : NewRow(kind, ref, seq, fit)
    BY <1>1 DEF Fill
  <2>2. /\ next \notin Allocated /\ Allocated' = Allocated \cup {next}
        /\ \A i \in Allocated : row'[i] = row[i]
        /\ row'[next] = [kind |-> kind, ref |-> ref, seq |-> seq, fit |-> fit]
    BY <2>1, NewRowFacts, Zenon
  <2>3. UNCHANGED <<setAside, edgeSeq, closed, recorded, times, ignored, refused, mediaState, withheld>>
    BY <1>1, Exclusive
  <2>4. Applied' = Applied /\ Settled' = Settled
    BY <2>3 DEF Applied, Settled
  <2>5. Reported \subseteq Reported'
    BY <2>2 DEF Reported
  <2>6. kind = "update" => ~(seq <= edgeSeq[ref])
    BY <1>0, <2>1 DEF NewRow, Numbered, TypeOK
  <2>7. next \notin Applied
    BY <1>0, <2>2
  <2>8. \A i \in Allocated' : row'[i].kind = "update" =>
         /\ i \in Applied' => row'[i].seq <= edgeSeq'[row'[i].ref]
         /\ row'[i].seq <= edgeSeq'[row'[i].ref] => i \in Settled'
    <3>1. \A i \in Allocated : row[i].kind = "update" =>
             /\ i \in Applied => row[i].seq <= edgeSeq[row[i].ref]
             /\ row[i].seq <= edgeSeq[row[i].ref] => i \in Settled
      BY <1>0 DEF Reflected
    <3> QED  BY <2>2, <2>3, <2>4, <2>6, <2>7, <3>1
  <2>9. \A i \in Applied : row'[i] = row[i]
    BY <1>0, <2>2
  <2>10. Applied' \cup ignored' \cup refused' \subseteq Reported'
    BY <1>0, <2>3, <2>4, <2>5 DEF Reflected
  <2>11. \A i \in Applied' : /\ row'[i].kind = "command" => row'[i].ref \in closed'
                             /\ row'[i].kind = "event"   => row'[i].ref \in recorded'
    BY <1>0, <2>3, <2>4, <2>9 DEF Reflected
  <2>12. /\ \A c \in closed'   : \E i \in Applied' : row'[i].kind = "command" /\ row'[i].ref = c
         /\ \A e \in recorded' : \E i \in Applied' : row'[i].kind = "event" /\ row'[i].ref = e
    BY <1>0, <2>3, <2>4, <2>9 DEF Reflected
  <2>13. \A m : Described(m)' = Described(m)
    BY <2>3 DEF Described
  <2>14. \A m \in Media : Described(m)' > 0 => ~Fresh("media", m)'
    <3>1. \A m \in Media : Fresh("media", m)' => Fresh("media", m)
      BY <2>2 DEF Fresh
    <3> QED  BY <1>0, <2>13, <3>1 DEF Reflected
  <2>15. row'[next].kind = "media" => row'[next].ref \in Media /\ Described(row'[next].ref) = 0
    <3>1. row'[next].kind = kind /\ row'[next].ref = ref
      BY <2>2
    <3>2. kind = "media" => ref \in Media /\ Fresh("media", ref)
      BY <2>1 DEF NewRow
    <3>3. kind = "media" => Described(ref) = 0
      BY <1>0, <3>2 DEF Reflected, Described
    <3> QED  BY <3>1, <3>2, <3>3
  <2>16. times[next] = 0
    <3>1. next \in RowIds
      BY <2>1, NewRowFacts, Zenon
    <3> QED  BY <2>7, <3>1, RowTimes DEF Applied
  <2>17. \A i \in Allocated' : row'[i].kind = "media" => times'[i] = Described(row[i].ref)'
    BY <1>0, <2>2, <2>3, <2>13, <2>15, <2>16 DEF Reflected
  <2> QED  BY <2>8, <2>10, <2>11, <2>12, <2>14, <2>17 DEF Reflected
<1>2. CASE Committing
  <2>1. PICK q \in busy : \E skip \in SUBSET NewEvents(q.batch), area \in SUBSET RefsOf(OfKind(q.batch, "media")),
              pick \in [Media -> {"pending", "not_required"}], flying \in SUBSET Drones :
                /\ Commit(q) /\ Apply(q, skip, area, pick, flying) /\ q.batch \in BatchIds
                /\ UNCHANGED <<row, next, number, waiting, content, setAside>>
    BY <1>2, CommitParts
  <2>2. PICK skip \in SUBSET NewEvents(q.batch), area \in SUBSET RefsOf(OfKind(q.batch, "media")),
             pick \in [Media -> {"pending", "not_required"}], flying \in SUBSET Drones :
                /\ Apply(q, skip, area, pick, flying) /\ q.batch \in BatchIds
                /\ UNCHANGED <<row, next, number, waiting, content, setAside>>
    BY <2>1
  <2> DEFINE b == q.batch
  <2>3. /\ Applied' = Applied \cup Taken(b, skip, area)
        /\ ignored' = ignored \cup skip /\ refused' = refused \cup Turned(b, skip)
        /\ Settled \subseteq Settled'
    <3>1. Apply(q, skip, area, pick, flying) /\ UNCHANGED <<row, next, content, setAside>>
      BY <2>2
    <3> QED  BY <3>1, CommitOutcome, Zenon
  <2>4. /\ Taken(b, skip, area) \subseteq Reported /\ Turned(b, skip) \subseteq Reported /\ skip \subseteq Reported
        /\ Taken(b, skip, area) \subseteq content[b] /\ Reported' = Reported /\ content[b] \subseteq Allocated
    BY <2>2, BatchParts DEF Reported, Allocated
  <2>5. \A s \in Sessions : /\ edgeSeq[s] <= edgeSeq'[s]
                            /\ \A k \in GoodUpdates(b) : row[k].ref = s => row[k].seq <= edgeSeq'[s]
                            /\ \/ edgeSeq'[s] = edgeSeq[s]
                               \/ \E k \in GoodUpdates(b) : row[k].ref = s /\ edgeSeq'[s] = row[k].seq
    BY <2>2 DEF Apply, IsHighest
  <2>6. edgeSeq' \in [Sessions -> 0..MaxRows] /\ edgeSeq \in [Sessions -> 0..MaxRows]
    BY <1>0, <2>2 DEF Apply, TypeOK
  <2>7. \A i \in Taken(b, skip, area) : row[i].kind = "update" => i \in GoodUpdates(b)
    BY DEF Taken, GoodCommands, GoodEvents, NewEvents, GoodMedia, NewMedia, OfKind
  <2>8. ASSUME NEW i \in Allocated, row[i].kind = "update"
        PROVE  /\ i \in Applied' => row[i].seq <= edgeSeq'[row[i].ref]
               /\ row[i].seq <= edgeSeq'[row[i].ref] => i \in Settled'
    <3>1. row[i].ref \in Sessions /\ row[i].seq \in Nat
      BY <1>0, <2>8 DEF Numbered, TypeOK
    <3>2. i \in Applied => row[i].seq <= edgeSeq'[row[i].ref]
      BY <1>0, <2>5, <2>6, <2>8, <3>1 DEF Reflected
    <3>3. i \in Taken(b, skip, area) => row[i].seq <= edgeSeq'[row[i].ref]
      BY <2>5, <2>7, <2>8, <3>1
    <3>4. CASE row[i].seq <= edgeSeq[row[i].ref]
      BY <1>0, <2>3, <2>8, <3>2, <3>3, <3>4 DEF Reflected
    <3>5. ASSUME ~(row[i].seq <= edgeSeq[row[i].ref]), row[i].seq <= edgeSeq'[row[i].ref]
          PROVE  i \in Settled'
      <4>1. PICK k \in GoodUpdates(b) : row[k].ref = row[i].ref /\ row[i].seq <= row[k].seq
        BY <2>5, <3>1, <3>5
      <4>2. k \in content[b] /\ k \in Taken(b, skip, area) /\ k \in Allocated /\ row[k].kind = "update"
        BY <2>4, <4>1 DEF GoodUpdates, NewUpdates, OfKind, Taken
      <4>3. k = i \/ i < k
        BY <1>0, <2>8, <3>1, <4>1, <4>2 DEF Numbered, TypeOK
      <4>4. CASE k = i
        BY <2>3, <4>2, <4>4 DEF Settled
      <4>5. CASE i < k
        BY <2>2, <2>8, <4>2, <4>5, OrderKept
      <4> QED  BY <4>3, <4>4, <4>5
    <3> QED  BY <2>3, <3>2, <3>3, <3>4, <3>5
  <2>9. /\ closed' = closed \cup RefsOf(GoodCommands(b))
        /\ recorded' = recorded \cup RefsOf(GoodEvents(b, skip))
        /\ \A m \in Media : Described(m)' = IF m \in RefsOf(GoodMedia(b, skip, area))
                                           THEN Described(m) + 1 ELSE Described(m)
    <3> DEFINE Good == RefsOf(GoodMedia(b, skip, area))
    <3>1. /\ closed' = closed \cup RefsOf(GoodCommands(b))
          /\ recorded' = recorded \cup RefsOf(GoodEvents(b, skip))
      BY <2>2 DEF Apply
    <3>2. /\ withheld' = withheld \cup (Good \cap area)
          /\ \E kept \in [Media -> {"pending", "not_required"}] :
               mediaState' = [m \in Media |-> IF m \in Good \ area THEN kept[m] ELSE mediaState[m]]
      BY <2>2 DEF Apply
    <3>3. \A m \in Good : IF m \in area THEN m \notin withheld ELSE mediaState[m] = "none"
      BY DEF RefsOf, GoodMedia, NewMedia
    <3> HIDE DEF Good, b
    <3>4. ASSUME NEW m \in Media
          PROVE  Described(m)' = IF m \in Good THEN Described(m) + 1 ELSE Described(m)
      <4>1. PICK kept \in [Media -> {"pending", "not_required"}] :
               mediaState' = [x \in Media |-> IF x \in Good \ area THEN kept[x] ELSE mediaState[x]]
        BY <3>2
      <4>2. /\ mediaState'[m] = IF m \in Good \ area THEN kept[m] ELSE mediaState[m]
            /\ kept[m] # "none"
        BY <3>4, <4>1
      <4>3. m \in withheld' <=> m \in withheld \/ (m \in Good /\ m \in area)
        BY <3>2
      <4> QED  BY <3>3, <4>2, <4>3 DEF Described
    <3> QED  BY <3>1, <3>4 DEF Good
  <2>10. /\ \A i \in Taken(b, skip, area) :
              /\ row[i].kind = "command" => i \in GoodCommands(b)
              /\ row[i].kind = "event" => i \in GoodEvents(b, skip)
              /\ row[i].kind = "media" => i \in GoodMedia(b, skip, area) /\ row[i].ref \in Media
         /\ \A i \in GoodCommands(b) : i \in Taken(b, skip, area) /\ row[i].kind = "command"
         /\ \A i \in GoodEvents(b, skip) : i \in Taken(b, skip, area) /\ row[i].kind = "event"
         /\ \A i \in GoodMedia(b, skip, area) : i \in Taken(b, skip, area) /\ row[i].kind = "media"
    <3>1. \A i \in Taken(b, skip, area) : row[i].kind = "media" => row[i].ref \in Media
      BY <1>0, <2>4 DEF Numbered
    <3> QED  BY <3>1 DEF Taken, GoodUpdates, NewUpdates, GoodCommands, GoodEvents, NewEvents, GoodMedia, NewMedia, OfKind
  <2>11. \A i \in Applied' : /\ row[i].kind = "command" => row[i].ref \in closed'
                             /\ row[i].kind = "event"   => row[i].ref \in recorded'
    <3> HIDE DEF b
    <3>1. \A i \in Applied' : row[i].kind = "command" => row[i].ref \in closed'
      BY <1>0, <2>3, <2>9, <2>10 DEF Reflected, RefsOf
    <3>2. \A i \in Applied' : row[i].kind = "event" => row[i].ref \in recorded'
      BY <1>0, <2>3, <2>9, <2>10 DEF Reflected, RefsOf
    <3> QED  BY <3>1, <3>2
  <2>12. /\ \A c \in closed'   : \E i \in Applied' : row[i].kind = "command" /\ row[i].ref = c
         /\ \A e \in recorded' : \E i \in Applied' : row[i].kind = "event" /\ row[i].ref = e
    <3> HIDE DEF b
    <3>1. \A c \in closed' : \E i \in Applied' : row[i].kind = "command" /\ row[i].ref = c
      <4>1. \A c \in RefsOf(GoodCommands(b)) : \E i \in Taken(b, skip, area) : row[i].kind = "command" /\ row[i].ref = c
        BY <2>10 DEF RefsOf
      <4>2. \A c \in closed : \E i \in Applied : row[i].kind = "command" /\ row[i].ref = c
        BY <1>0 DEF Reflected
      <4>3. Applied' = Applied \cup Taken(b, skip, area) /\ closed' = closed \cup RefsOf(GoodCommands(b))
        BY <2>3, <2>9
      <4> QED  BY <4>1, <4>2, <4>3
    <3>2. \A e \in recorded' : \E i \in Applied' : row[i].kind = "event" /\ row[i].ref = e
      <4>1. \A e \in RefsOf(GoodEvents(b, skip)) : \E i \in Taken(b, skip, area) : row[i].kind = "event" /\ row[i].ref = e
        BY <2>10 DEF RefsOf
      <4> QED  BY <1>0, <2>3, <2>9, <4>1 DEF Reflected
    <3> QED  BY <3>1, <3>2
  <2>13. Applied' \cup ignored' \cup refused' \subseteq Reported'
    BY <1>0, <2>3, <2>4 DEF Reflected
  \* A file's one row is taken exactly when the file goes to a list.
  <2>14. ASSUME NEW i \in Allocated, row[i].kind = "media"
         PROVE  times'[i] = Described(row[i].ref)'
    <3>1. times[i] = Described(row[i].ref) /\ row[i].ref \in Media /\ i \in RowIds
      BY <1>0, <2>4, <2>14, BoundsAssumption DEF Reflected, Numbered, TypeOK, Allocated, RowIds
    <3>2. times'[i] = IF i \in Taken(b, skip, area) THEN times[i] + 1 ELSE times[i]
      BY <2>2, <3>1, CommitTimes
    <3>3. \A j \in Allocated : row[j].kind = "media" /\ row[j].ref = row[i].ref => i = j
      BY <1>0, <2>14 DEF Numbered
    <3>4. i \in Taken(b, skip, area) <=> row[i].ref \in RefsOf(GoodMedia(b, skip, area))
      <4>1. i \in Taken(b, skip, area) => row[i].ref \in RefsOf(GoodMedia(b, skip, area))
        BY <2>10, <2>14 DEF RefsOf
      <4>2. ASSUME row[i].ref \in RefsOf(GoodMedia(b, skip, area)) PROVE i \in Taken(b, skip, area)
        <5>1. PICK j \in GoodMedia(b, skip, area) : row[j].ref = row[i].ref
          BY <4>2 DEF RefsOf
        <5>2. j \in Taken(b, skip, area) /\ row[j].kind = "media" /\ j \in Allocated
          BY <2>4, <2>10, <5>1
        <5> QED  BY <3>3, <5>1, <5>2
      <4> QED  BY <4>1, <4>2
    <3>5. Described(row[i].ref)' = IF row[i].ref \in RefsOf(GoodMedia(b, skip, area))
                                   THEN Described(row[i].ref) + 1 ELSE Described(row[i].ref)
      BY <2>2, <2>9, <3>1 DEF Described
    <3> QED  BY <3>1, <3>2, <3>4, <3>5
  <2>15. ASSUME NEW m \in Media, Described(m)' > 0 PROVE ~Fresh("media", m)'
    <3>1. CASE m \in RefsOf(GoodMedia(b, skip, area))
      <4>1. PICK i \in GoodMedia(b, skip, area) : row[i].ref = m
        BY <3>1 DEF RefsOf
      <4>2. i \in Allocated /\ row[i].kind = "media"
        BY <2>4, <2>10, <4>1
      <4> QED  BY <2>2, <4>1, <4>2 DEF Fresh, Allocated
    <3>2. CASE m \notin RefsOf(GoodMedia(b, skip, area))
      <4>1. Described(m) > 0
        BY <2>9, <2>15, <3>2
      <4>2. ~Fresh("media", m)
        BY <1>0, <4>1 DEF Reflected
      <4> QED  BY <2>2, <4>2 DEF Fresh, Allocated
    <3> QED  BY <3>1, <3>2
  <2> QED  BY <2>2, <2>8, <2>11, <2>12, <2>13, <2>14, <2>15 DEF Reflected, Allocated
<1>3. CASE Storing
  <2>1. PICK m \in Media : StoreFile(m)
    BY <1>3 DEF Storing
  <2>2. \A x \in Media : Described(x)' = Described(x)
    <3>1. \A x \in Media : mediaState'[x] # "none" <=> mediaState[x] # "none"
      BY <1>0, <2>1 DEF StoreFile, TypeOK
    <3>2. withheld' = withheld
      BY <2>1 DEF StoreFile
    <3> QED  BY <3>1, <3>2 DEF Described
  <2>3. UNCHANGED <<row, next, edgeSeq, closed, recorded, times, ignored, refused, setAside>>
    BY <2>1 DEF StoreFile, disk, hist
  <2>4. \A i \in Allocated : row[i].kind = "media" => row[i].ref \in Media
    BY <1>0 DEF Numbered
  <2>5. \A i \in Allocated : row[i].kind = "media" => times'[i] = Described(row[i].ref)'
    BY <1>0, <2>2, <2>3, <2>4 DEF Reflected, Described
  <2>6. \A x \in Media : Described(x)' > 0 => ~Fresh("media", x)'
    BY <1>0, <2>2, <2>3 DEF Reflected, Fresh, Allocated
  <2> QED  BY <1>0, <2>3, <2>5, <2>6 DEF Reflected, Applied, Settled, Reported, Allocated
<1>4. CASE UNCHANGED <<row, next, number, edgeSeq, closed, recorded, times, ignored, refused, mediaState, withheld>>
  BY <1>0, <1>4, SettledGrows DEF Reflected, Applied, Reported, Allocated, Described, Fresh
<1> QED  BY <1>1, <1>2, <1>3, <1>4, Frame

LEMMA NothingLostStep == ASSUME IInv, [Next]_vars PROVE NothingLost'
<1>0. NothingLost /\ TypeOK
  BY DEF IInv
<1>1. CASE Fill
  <2>1. PICK kind \in Kinds, ref \in Refs, seq \in 0..MaxRows, fit \in RowFits : NewRow(kind, ref, seq, fit)
    BY <1>1 DEF Fill
  <2>2. /\ Allocated' = Allocated \cup {next} /\ \A i \in Allocated : row'[i] = row[i]
        /\ waiting' = waiting \cup {next}
    BY <2>1, NewRowFacts, Zenon
  <2> QED  BY <1>0, <2>2, SettledGrows DEF NothingLost
<1>2. CASE Closing
  <2>1. UNCHANGED <<row, next>> /\ Allocated' = Allocated
    BY <1>2, Exclusive DEF Allocated
  <2>2. waiting' = waiting \ content[sending] /\ pc = "sent" /\ sending \in BatchIds
    BY <1>0, <1>2 DEF Closing, SetAsideInvalid, TakeAnswer, CloseBatch, IInv, Cut, TypeOK
  <2>3. \A i \in content[sending] : i \in Allocated /\ row[i].kind # "health" => i \in Settled'
    <3>1. CASE SetAsideInvalid
      BY <3>1 DEF SetAsideInvalid, CloseBatch, Settled
    <3>2. CASE TakeAnswer
      <4>1. content[sending] \cap Reported \subseteq Settled
        BY <2>2, <3>2 DEF TakeAnswer, IInv, AnswersHonest, Honest, Settled
      <4> QED  BY <4>1, SettledGrows DEF Reported
    <3> QED  BY <1>2, <3>1, <3>2 DEF Closing
  <2> QED  BY <1>0, <2>1, <2>2, <2>3, SettledGrows DEF NothingLost
<1>3. CASE UNCHANGED <<row, next, number, waiting>>
  BY <1>0, <1>3, SettledGrows DEF NothingLost, Allocated
<1> QED  BY <1>1, <1>2, <1>3, Frame

\* What an answer promises is never taken back.
LEMMA Monotone == ASSUME IInv, [Next]_vars PROVE
    /\ Applied \cup ignored \cup refused \subseteq Applied' \cup ignored' \cup refused'
    /\ refused \subseteq refused'
    /\ \A i \in Allocated : i \in Allocated' /\ row'[i] = row[i]
    /\ \A m \in Media : ~Sought(m) => ~Sought(m)'
<1>0. TypeOK
  BY DEF IInv
<1>1. refused \subseteq refused' /\ ignored \subseteq ignored'
  BY Frame DEF Committing, Commit, Apply
<1>2. \A i \in Allocated : i \in Allocated' /\ row'[i] = row[i]
  <2>1. CASE Fill
    <3>1. PICK kind \in Kinds, ref \in Refs, seq \in 0..MaxRows, fit \in RowFits : NewRow(kind, ref, seq, fit)
      BY <2>1 DEF Fill
    <3>2. Allocated' = Allocated \cup {next} /\ \A i \in Allocated : row'[i] = row[i]
      BY <3>1, NewRowFacts, Zenon
    <3> QED  BY <3>2
  <2> QED  BY <2>1, Frame DEF Allocated
<1>3. ASSUME NEW m \in Media, ~Sought(m) PROVE ~Sought(m)'
  <2>1. CASE Committing
    <3>0. PICK q \in busy : Commit(q)
      BY <2>1 DEF Committing
    <3>1. PICK skip \in SUBSET NewEvents(q.batch), area \in SUBSET RefsOf(OfKind(q.batch, "media")),
               pick \in [Media -> {"pending", "not_required"}], flying \in SUBSET Drones :
               Apply(q, skip, area, pick, flying)
      BY <3>0 DEF Commit
    <3>2. withheld \subseteq withheld'
      BY <3>1 DEF Apply
    <3>3. CASE m \in withheld
      BY <3>2, <3>3 DEF Sought
    <3>4. CASE mediaState[m] \notin {"none", "pending"}
      <4>1. m \notin RefsOf(GoodMedia(q.batch, skip, area)) \ area
        BY <3>4 DEF RefsOf, GoodMedia, NewMedia
      <4>2. mediaState'[m] = mediaState[m]
        BY <3>1, <4>1 DEF Apply
      <4> QED  BY <3>4, <4>2 DEF Sought
    <3> QED  BY <1>3, <3>3, <3>4 DEF Sought
  <2>2. CASE Storing
    BY <1>0, <1>3, <2>2 DEF Storing, StoreFile, TypeOK, Sought
  <2>3. CASE UNCHANGED <<mediaState, withheld>>
    BY <1>3, <2>3 DEF Sought
  <2> QED  BY <2>1, <2>2, <2>3, Frame
<1> QED  BY <1>1, <1>2, <1>3, SettledGrows

\* A row of any other kind is taken once only; a file's row as often as the centre
\* has the file in a list.
LEMMA AppliedOnceStep == ASSUME IInv, [Next]_vars PROVE AppliedOnce'
<1>0. Reflected' /\ TypeOK' /\ TypeOK /\ Numbered'
  BY ReflectedStep, TypeStep, NumberedStep DEF IInv
<1>1. ASSUME NEW i \in RowIds, times'[i] > 1
      PROVE  i \in Allocated'
  <2>1. i \in Applied'
    BY <1>0, <1>1 DEF Applied, TypeOK
  <2>2. Applied' \subseteq Reported'
    BY <1>0 DEF Reflected
  <2> QED  BY <2>1, <2>2 DEF Reported
<1>2. ASSUME NEW i \in RowIds, times'[i] > 1, row'[i].kind = "media"
      PROVE  times'[i] = 2 /\ row'[i].ref \in withheld' /\ mediaState'[row'[i].ref] # "none"
  <2>1. times'[i] = Described(row[i].ref)'
    BY <1>0, <1>1, <1>2 DEF Reflected
  <2> QED  BY <1>2, <2>1 DEF Described
<1>3. ASSUME NEW i \in RowIds, times'[i] > 1 PROVE row'[i].kind = "media"
  <2>1. CASE Committing
    <3>1. PICK q \in busy : \E skip \in SUBSET NewEvents(q.batch), area \in SUBSET RefsOf(OfKind(q.batch, "media")),
              pick \in [Media -> {"pending", "not_required"}], flying \in SUBSET Drones :
                /\ Commit(q) /\ Apply(q, skip, area, pick, flying) /\ q.batch \in BatchIds
                /\ UNCHANGED <<row, next, number, waiting, content, setAside>>
      BY <2>1, CommitParts
    <3>2. PICK skip \in SUBSET NewEvents(q.batch), area \in SUBSET RefsOf(OfKind(q.batch, "media")),
               pick \in [Media -> {"pending", "not_required"}], flying \in SUBSET Drones :
                /\ Apply(q, skip, area, pick, flying) /\ q.batch \in BatchIds
                /\ UNCHANGED <<row, next, number, waiting, content, setAside>>
      BY <3>1
    <3>3. times' = [k \in RowIds |-> IF k \in Taken(q.batch, skip, area) THEN times[k] + 1 ELSE times[k]]
      BY <3>2, CommitTimes
    <3>4. i \in Taken(q.batch, skip, area) => row[i].kind = "media" \/ times[i] = 0
      BY <3>2, TakenOnce
    <3>5. times[i] > 1 => row[i].kind = "media"
      BY DEF IInv, AppliedOnce
    <3> QED  BY <1>0, <1>3, <3>2, <3>3, <3>4, <3>5 DEF TypeOK
  <2>2. CASE UNCHANGED times
    <3>1. i \in Applied /\ row[i].kind = "media"
      BY <1>3, <2>2 DEF Applied, IInv, AppliedOnce
    <3>2. i \in Allocated
      BY <3>1 DEF IInv, Reflected, Reported
    <3> QED  BY <3>1, <3>2, Monotone
  <2> QED  BY <2>1, <2>2, Frame
<1> QED  BY <1>2, <1>3 DEF AppliedOnce

LEMMA HonestKept ==
    ASSUME IInv, [Next]_vars, NEW b \in BatchIds, NEW a \in Answer, content'[b] = content[b], Honest(b, a)
    PROVE  Honest(b, a)'
<1>0. content[b] \subseteq Allocated
  BY DEF IInv, Cut
<1>1. content'[b] \cap Reported' \subseteq content[b] \cap Reported
  BY <1>0, Monotone DEF Reported
<1>2. FilesSent(b, a.rejected)' = FilesSent(b, a.rejected) /\ FilesSent(b, a.rejected) \subseteq Media
  BY <1>0, Monotone DEF FilesSent, IInv, Numbered
<1>3. Malformed(b) => Malformed(b)'
  BY <1>0, Monotone DEF Malformed
<1>4. \A m \in Media : ~Sought(m) => ~Sought(m)'
  BY Monotone
<1> QED  BY <1>1, <1>2, <1>3, <1>4, Monotone DEF Honest

\* The answer to a batch says of it what the commit makes so.
LEMMA ResultHonest ==
    ASSUME IInv, [Next]_vars, NEW q \in busy, NEW skip \in SUBSET NewEvents(q.batch),
           NEW area \in SUBSET RefsOf(OfKind(q.batch, "media")),
           NEW pick \in [Media -> {"pending", "not_required"}], NEW flying \in SUBSET Drones,
           Apply(q, skip, area, pick, flying), UNCHANGED <<row, next, number, waiting, content, setAside>>,
           NEW a, a = Result(q.batch, skip, area, mediaState')
    PROVE  Honest(q.batch, a)' /\ a \in Answer
<1> DEFINE b == q.batch
<1>0. b \in BatchIds /\ TypeOK
  BY DEF IInv, TypeOK, Request
<1>1. /\ content[b] \subseteq Allocated /\ Allocated \subseteq RowIds /\ Turned(b, skip) \subseteq content[b]
      /\ RefsOf(OfKind(b, "media")) \subseteq Media
      /\ RefsOf(OfKind(b, "media") \ Unsighted(b, skip)) \subseteq RefsOf(OfKind(b, "media"))
  <2>1. RefsOf(OfKind(b, "media") \ Unsighted(b, skip)) \subseteq RefsOf(OfKind(b, "media"))
    BY DEF RefsOf
  <2> QED  BY <1>0, <2>1, BatchParts
<1>2. a.verdict = "ok" /\ a.rejected = Turned(b, skip)
      /\ a.wanted = {m \in RefsOf(OfKind(b, "media") \ Unsighted(b, skip)) \ area : mediaState'[m] = "pending"}
  BY DEF Result
<1>3. a \in Answer
  <2> HIDE DEF b
  <2> QED  BY <1>1 DEF Result, Answer, b
<1>4. content'[b] \cap Reported' \subseteq Applied' \cup ignored' \cup refused'
  BY CommitOutcome DEF Reported, Allocated
<1>5. a.rejected \subseteq refused'
  <2>1. refused' = refused \cup Turned(q.batch, skip)
    BY CommitOutcome
  <2> QED  BY <1>2, <2>1
<1>6. ASSUME NEW m \in FilesSent(b, a.rejected)', m \notin a.wanted
      PROVE  ~Sought(m)'
  <2>1. PICK j \in content[b] : j \notin Turned(b, skip) /\ row[j].kind = "media" /\ row[j].ref = m
    BY <1>2, <1>6 DEF FilesSent
  <2>2. j \in OfKind(b, "media") /\ j \notin Unsighted(b, skip)
    BY <2>1 DEF OfKind, Turned
  <2>3. m \in RefsOf(OfKind(b, "media") \ Unsighted(b, skip)) /\ m \in Media
    BY <1>1, <2>1, <2>2 DEF RefsOf
  <2>4. j \in NewMedia(b, area) => m \in RefsOf(GoodMedia(b, skip, area))
    BY <2>1, <2>2 DEF GoodMedia, RefsOf
  \* Judged at a privacy area: it is in the list of what is not kept.
  <2>5. CASE m \in area
    <3>1. m \in withheld \/ j \in NewMedia(b, area)
      BY <2>1, <2>2, <2>5 DEF NewMedia
    <3>2. m \in withheld'
      BY <2>4, <2>5, <3>1 DEF Apply
    <3> QED  BY <3>2 DEF Sought
  \* Judged as a file to keep: had it been pending it were named.
  <2>6. CASE m \notin area
    <3>1. mediaState'[m] # "pending"
      BY <1>2, <1>6, <2>3, <2>6
    <3>2. mediaState[m] # "none" \/ j \in NewMedia(b, area)
      BY <2>1, <2>2, <2>6 DEF NewMedia
    <3>3. mediaState'[m] # "none"
      BY <2>3, <2>4, <2>6, <3>2 DEF Apply
    <3> QED  BY <3>1, <3>3 DEF Sought
  <2> QED  BY <2>5, <2>6
<1> QED  BY <1>2, <1>3, <1>4, <1>5, <1>6 DEF Honest

LEMMA AnswersHonestStep == ASSUME IInv, [Next]_vars PROVE AnswersHonest'
<1>0. /\ AnswersHonest /\ TypeOK /\ Cut
      /\ \A b \in BatchIds : receipt[b] \in Answer
      /\ pc = "sent" => sending \in BatchIds /\ answer \in Answer
  BY DEF IInv, TypeOK, Cut
<1>1. \A b \in BatchIds : Honest(b, NoAnswer)'
  BY DEF Honest, NoAnswer
<1>2. \A b \in BatchIds : content'[b] = content[b] \/ (SendNew /\ b = newBatch)
  BY <1>0, Frame DEF SendNew, TypeOK
<1>3. \A b \in BatchIds : (Honest(b, receipt[b]) /\ receipt'[b] = receipt[b]) => Honest(b, receipt[b])'
  <2>1. SUFFICES ASSUME NEW b \in BatchIds, Honest(b, receipt[b]), receipt'[b] = receipt[b]
                 PROVE  Honest(b, receipt[b])'
    OBVIOUS
  <2>2. CASE content'[b] = content[b]
    <3>1. PICK a \in Answer : a = receipt[b]
      BY <1>0
    <3>2. Honest(b, a)'
      BY <2>1, <2>2, <3>1, HonestKept
    <3> QED  BY <2>1, <3>1, <3>2
  <2>3. CASE SendNew /\ b = newBatch
    <3>1. receipt[b] = NoAnswer
      BY <1>0, <2>3 DEF Cut, TypeOK
    <3> QED  BY <1>1, <2>1, <3>1
  <2> QED  BY <1>2, <2>2, <2>3
<1>4. \A b \in BatchIds : Honest(b, receipt[b])'
  <2>1. SUFFICES ASSUME NEW b \in BatchIds PROVE Honest(b, receipt[b])'
    OBVIOUS
  <2>2. CASE Committing
    <3>1. PICK q \in busy : \E skip \in SUBSET NewEvents(q.batch), area \in SUBSET RefsOf(OfKind(q.batch, "media")),
              pick \in [Media -> {"pending", "not_required"}], flying \in SUBSET Drones :
                /\ Commit(q) /\ Apply(q, skip, area, pick, flying) /\ q.batch \in BatchIds
                /\ UNCHANGED <<row, next, number, waiting, content, setAside>>
      BY <2>2, CommitParts
    <3>2. PICK skip \in SUBSET NewEvents(q.batch), area \in SUBSET RefsOf(OfKind(q.batch, "media")),
             pick \in [Media -> {"pending", "not_required"}], flying \in SUBSET Drones :
                /\ Apply(q, skip, area, pick, flying) /\ q.batch \in BatchIds
                /\ UNCHANGED <<row, next, number, waiting, content, setAside>>
      BY <3>1
    <3>3. PICK a : a = Result(q.batch, skip, area, mediaState')
      OBVIOUS
    <3>4. Honest(q.batch, a)'
      BY <3>2, <3>3, ResultHonest
    <3>5. receipt'[b] = receipt[b] \/ (b = q.batch /\ receipt'[b] = a)
      BY <1>0, <3>2, <3>3 DEF Apply, TypeOK
    <3> QED  BY <1>0, <1>3, <3>4, <3>5 DEF AnswersHonest
  <2>3. CASE \E c \in BatchIds : ForgetReceipt(c)
    <3>1. receipt'[b] = receipt[b] \/ receipt'[b] = NoAnswer
      BY <1>0, <2>3 DEF ForgetReceipt, TypeOK
    <3> QED  BY <1>0, <1>1, <1>3, <3>1 DEF AnswersHonest
  <2>4. CASE UNCHANGED receipt
    BY <1>0, <1>3, <2>4 DEF AnswersHonest
  <2>5. Committing \/ (\E c \in BatchIds : ForgetReceipt(c)) \/ UNCHANGED receipt
    <3> USE DEF disk, memory, centre, hist
    <3>1. CASE Fill \/ Overwrite
      BY <3>1 DEF Fill, NewRow, Overwrite
    <3>2. CASE SendAgain \/ SendNew \/ GiveUp \/ StartIsolating \/ SetAsideInvalid \/ TakeAnswer
      BY <3>2 DEF SendAgain, SendNew, GiveUp, StartIsolating, SetAsideInvalid, TakeAnswer
    <3>3. CASE (\E m \in Media : MarkMedia(m)) \/ MarkingDone \/ Crash
      BY <3>3 DEF MarkMedia, MarkingDone, Crash
    <3>4. CASE \/ \E q \in requests : RefuseInvalid(q) \/ AnswerFromReceipt(q) \/ Begin(q)
               \/ \E m \in Media : StoreFile(m)
               \/ \E s \in Sessions : EndSession(s)
               \/ \E q \in requests \cup busy : Lose(q)
      BY <3>4 DEF RefuseInvalid, AnswerFromReceipt, Begin, StoreFile, EndSession, Lose
    <3>5. CASE UNCHANGED vars
      BY <3>5 DEF vars
    <3> QED  BY <3>1, <3>2, <3>3, <3>4, <3>5, Filling DEF Next, Gateway, Centre, Committing
  <2> QED  BY <2>2, <2>3, <2>4, <2>5
<1>5. ASSUME pc' = "sent" PROVE Honest(sending, answer)'
  <2> DEFINE Same == UNCHANGED <<pc, sending, answer>> /\ content' = content
  <2>1. CASE SendAgain \/ SendNew
    <3>1. answer' = NoAnswer /\ sending' \in BatchIds
      BY <1>0, <2>1 DEF SendAgain, SendNew, Post, TypeOK, BatchIds, NoBatch
    <3> QED  BY <1>1, <3>1
  <2>2. CASE GiveUp \/ StartIsolating \/ SetAsideInvalid \/ TakeAnswer \/ MarkingDone \/ Crash
             \/ \E m \in Media : MarkMedia(m)
    BY <1>5, <2>2 DEF GiveUp, StartIsolating, SetAsideInvalid, TakeAnswer, Idle, MarkingDone, Crash, MarkMedia
  <2>3. CASE Same
    <3>1. PICK a \in Answer : a = answer
      BY <1>0, <1>5, <2>3
    <3>2. PICK b \in BatchIds : b = sending
      BY <1>0, <1>5, <2>3
    <3>3. Honest(b, a)'
      BY <1>0, <1>5, <2>3, <3>1, <3>2, HonestKept DEF AnswersHonest
    <3> QED  BY <2>3, <3>1, <3>2, <3>3
  <2>4. ASSUME NEW q \in requests, RefuseInvalid(q) PROVE Honest(sending, answer)'
    <3>1. q.batch \in BatchIds /\ Malformed(q.batch) /\ Reply(q.batch, Invalid) /\ content' = content
          /\ pc' = pc /\ sending' = sending
      BY <1>0, <2>4 DEF RefuseInvalid, TypeOK, Request, disk
    <3>2. CASE answer' = answer
      BY <2>3, <3>1, <3>2
    <3>3. CASE sending = q.batch /\ answer' = Invalid
      <4>1. Malformed(q.batch)'
        BY <2>4 DEF RefuseInvalid, Malformed, disk
      <4> QED  BY <3>1, <3>3, <4>1 DEF Honest, Invalid
    <3> QED  BY <3>1, <3>2, <3>3 DEF Reply
  <2>5. ASSUME NEW q \in requests, AnswerFromReceipt(q) PROVE Honest(sending, answer)'
    <3>1. q.batch \in BatchIds /\ Reply(q.batch, receipt[q.batch]) /\ content' = content /\ receipt' = receipt
          /\ pc' = pc /\ sending' = sending
      BY <1>0, <2>5 DEF AnswerFromReceipt, TypeOK, Request, disk, centre
    <3>2. CASE answer' = answer
      BY <2>3, <3>1, <3>2
    <3>3. CASE sending = q.batch /\ answer' = receipt[q.batch]
      BY <1>4, <3>1, <3>3
    <3> QED  BY <3>1, <3>2, <3>3 DEF Reply
  <2>6. CASE Committing
    <3>1. PICK q \in busy : \E skip \in SUBSET NewEvents(q.batch), area \in SUBSET RefsOf(OfKind(q.batch, "media")),
              pick \in [Media -> {"pending", "not_required"}], flying \in SUBSET Drones :
                /\ Commit(q) /\ Apply(q, skip, area, pick, flying) /\ q.batch \in BatchIds
                /\ UNCHANGED <<row, next, number, waiting, content, setAside>>
      BY <2>6, CommitParts
    <3>2. PICK skip \in SUBSET NewEvents(q.batch), area \in SUBSET RefsOf(OfKind(q.batch, "media")),
             pick \in [Media -> {"pending", "not_required"}], flying \in SUBSET Drones :
                /\ Apply(q, skip, area, pick, flying) /\ q.batch \in BatchIds
                /\ UNCHANGED <<row, next, number, waiting, content, setAside>>
      BY <3>1
    <3>3. PICK a : a = Result(q.batch, skip, area, mediaState')
      OBVIOUS
    <3>4. Honest(q.batch, a)'
      BY <3>2, <3>3, ResultHonest
    <3>5. pc' = pc /\ sending' = sending /\ (answer' = answer \/ (sending = q.batch /\ answer' = a))
      BY <2>6, <3>2, <3>3, Exclusive DEF Apply, Reply
    <3> QED  BY <2>3, <3>2, <3>4, <3>5
  <2>7. CASE Fill \/ Overwrite
    BY <2>3, <2>7 DEF Fill, NewRow, Overwrite, memory
  <2>8. CASE \/ \E q \in requests : Begin(q)
             \/ \E m \in Media : StoreFile(m)
             \/ \E s \in Sessions : EndSession(s)
             \/ \E b \in BatchIds : ForgetReceipt(b)
             \/ \E q \in requests \cup busy : Lose(q)
    BY <2>3, <2>8 DEF Begin, StoreFile, EndSession, ForgetReceipt, Lose, disk, memory
  <2>9. CASE UNCHANGED vars
    BY <2>3, <2>9 DEF vars, disk, memory
  <2> QED  BY <2>1, <2>2, <2>4, <2>5, <2>6, <2>7, <2>8, <2>9, Filling DEF Next, Gateway, Centre, Committing
<1>6. ASSUME NEW m \in Media, marking'[m] = "no" PROVE ~Sought(m)'
  <2>1. CASE marking[m] = "no"
    BY <1>0, <2>1, Monotone DEF AnswersHonest
  <2>2. CASE TakeAnswer
    <3>1. m \in FilesSent(sending, answer.rejected) \ answer.wanted /\ pc = "sent" /\ answer.verdict = "ok"
      BY <1>6, <2>2 DEF TakeAnswer
    <3>2. ~Sought(m)
      BY <1>0, <3>1 DEF AnswersHonest, Honest
    <3> QED  BY <3>2, Monotone
  <2>3. marking[m] = "no" \/ TakeAnswer
    <3> USE DEF disk, memory, centre, hist
    <3>1. CASE Fill \/ Overwrite
      BY <1>6, <3>1 DEF Fill, NewRow, Overwrite
    <3>2. CASE SendAgain \/ SendNew \/ GiveUp \/ StartIsolating \/ SetAsideInvalid
      BY <1>6, <3>2 DEF SendAgain, SendNew, GiveUp, StartIsolating, SetAsideInvalid
    <3>3. CASE MarkingDone \/ Crash
      BY <1>6, <3>3 DEF MarkingDone, Crash
    <3>4. ASSUME NEW x \in Media, MarkMedia(x) PROVE marking[m] = "no"
      BY <1>0, <1>6, <3>4 DEF MarkMedia, TypeOK
    <3>5. CASE \E q \in requests : RefuseInvalid(q) \/ AnswerFromReceipt(q) \/ Begin(q)
      BY <1>6, <3>5 DEF RefuseInvalid, AnswerFromReceipt, Begin
    <3>6. CASE \E q \in busy : Commit(q)
      BY <1>6, <3>6 DEF Commit
    <3>7. CASE \/ \E x \in Media : StoreFile(x)
               \/ \E s \in Sessions : EndSession(s)
               \/ \E b \in BatchIds : ForgetReceipt(b)
               \/ \E q \in requests \cup busy : Lose(q)
      BY <1>6, <3>7 DEF StoreFile, EndSession, ForgetReceipt, Lose
    <3>8. CASE UNCHANGED vars
      BY <1>6, <3>8 DEF vars
    <3> QED  BY <3>1, <3>2, <3>3, <3>4, <3>5, <3>6, <3>7, <3>8, Filling DEF Next, Gateway, Centre
  <2> QED  BY <2>1, <2>2, <2>3
<1> QED  BY <1>4, <1>5, <1>6 DEF AnswersHonest

\* A batch stays a prefix of what waits, and its requests stay its own.
LEMMA CutStep == ASSUME IInv, [Next]_vars PROVE Cut'
<1>0. /\ Cut /\ TypeOK /\ newBatch \in Nat /\ NoBatch = 0
      /\ \A q \in requests \cup busy : q \in Request /\ q.batch \in BatchIds
  BY DEF IInv, TypeOK, Request, NoBatch
<1> DEFINE Prefix == \A b \in BatchIds : /\ content[b] \subseteq Allocated
                                         /\ \A i \in content[b], j \in waiting : j < i => j \in content[b]
           Ours == /\ \A q \in requests \cup busy : q.batch < newBatch
                   /\ \A q \in busy : ~Malformed(q.batch)
                   /\ \A b \in BatchIds : receipt[b] # NoAnswer => b < newBatch
                   /\ opened < newBatch /\ sending < newBatch
                   /\ pc = "sent" => sending # NoBatch
           Whole == pc = "sent" => content[sending] \subseteq waiting
<1>1. SUFFICES Prefix' /\ Ours' /\ Whole'
  BY DEF Cut
<1>2. Prefix'
  <2>1. CASE Fill
    <3>1. PICK kind \in Kinds, ref \in Refs, seq \in 0..MaxRows, fit \in RowFits : NewRow(kind, ref, seq, fit)
      BY <2>1 DEF Fill
    <3>2. /\ Allocated' = Allocated \cup {next} /\ \A i \in Allocated : i < next
          /\ waiting' = waiting \cup {next} /\ Allocated \subseteq RowIds /\ next \in RowIds
      BY <3>1, NewRowFacts, Zenon
    <3>3. content' = content
      BY <2>1, Exclusive
    <3>4. \A b \in BatchIds : content'[b] \subseteq Allocated'
      BY <1>0, <3>2, <3>3 DEF Cut
    <3>5. ASSUME NEW b \in BatchIds, NEW i \in content'[b], NEW j \in waiting', j < i PROVE j \in content'[b]
      <4>1. i \in Allocated
        BY <1>0, <3>3, <3>5 DEF Cut
      <4>2. i < next /\ i \in Nat /\ next \in Nat
        BY <1>0, <3>2, <4>1 DEF TypeOK, Allocated
      <4>3. j \in waiting
        BY <3>2, <3>5, <4>2
      <4> QED  BY <1>0, <3>3, <3>5, <4>3 DEF Cut
    <3> QED  BY <3>4, <3>5
  <2>2. CASE SendNew
    <3>1. PICK ids \in SUBSET waiting : Oldest(ids) /\ content' = [content EXCEPT ![newBatch] = ids]
      BY <2>2 DEF SendNew
    <3>2. UNCHANGED <<next, waiting>>
      BY <2>2 DEF SendNew
    <3>3. ids \subseteq Allocated /\ Allocated \subseteq Nat /\ waiting \subseteq Nat
      BY <1>0 DEF TypeOK, Allocated
    <3>4. \A i \in ids, j \in waiting : j < i => j \in ids
      BY <3>1, <3>3 DEF Oldest
    <3> QED  BY <1>0, <3>1, <3>2, <3>3, <3>4 DEF Cut, TypeOK, Allocated
  <2>3. CASE UNCHANGED <<row, next, number, content, newBatch>> /\ waiting' \subseteq waiting
    BY <1>0, <2>3 DEF Cut, Allocated
  <2>4. waiting' \subseteq waiting \/ Fill
    BY Frame DEF Closing, SetAsideInvalid, TakeAnswer, CloseBatch
  <2>5. SendNew => waiting' \subseteq waiting
    BY DEF SendNew
  <2> QED  BY <2>1, <2>2, <2>3, <2>4, <2>5, Frame
<1>3. \A b \in BatchIds : b < newBatch => (Malformed(b)' => Malformed(b))
  <2>1. SUFFICES ASSUME NEW b \in BatchIds, b < newBatch PROVE Malformed(b)' => Malformed(b)
    OBVIOUS
  <2>2. content'[b] = content[b]
    BY <1>0, <2>1, Frame DEF SendNew, TypeOK
  <2>3. content[b] \subseteq Allocated
    BY <1>0 DEF Cut
  <2> QED  BY <2>2, <2>3, Monotone DEF Malformed
<1>4. Ours'
  <2>0. newBatch <= newBatch'
    BY <1>0, Frame DEF SendNew
  <2>1. CASE Fill \/ Overwrite
    BY <1>0, <1>3, <2>1 DEF Fill, NewRow, Overwrite, Cut, memory, centre
  <2>2. CASE SendAgain
    <3>1. \A q \in requests' : q \in requests \/ q.batch = opened
      BY <2>2 DEF SendAgain, Post
    <3>2. sending' = opened /\ opened # NoBatch
      BY <2>2 DEF SendAgain, Post
    <3> QED  BY <1>0, <1>3, <2>2, <3>1, <3>2 DEF SendAgain, Cut, disk, centre
  <2>3. CASE SendNew
    <3>1. \A q \in requests' : q \in requests \/ q.batch = newBatch
      BY <2>3 DEF SendNew, Post
    <3>2. sending' = newBatch /\ newBatch # NoBatch /\ newBatch' = newBatch + 1 /\ opened' = newBatch
      BY <1>0, <2>3 DEF SendNew, Post, TypeOK
    <3>3. busy' = busy /\ receipt' = receipt
      BY <2>3 DEF SendNew, centre
    <3>4. \A q \in requests \cup busy : q.batch \in Nat /\ q.batch < newBatch
      BY <1>0 DEF Cut, BatchIds
    <3>5. \A b \in BatchIds : b \in Nat
      BY DEF BatchIds
    <3>6. \A q \in requests' \cup busy' : q.batch < newBatch'
      BY <1>0, <3>1, <3>2, <3>3, <3>4
    <3>7. \A b \in BatchIds : receipt'[b] # NoAnswer => b < newBatch'
      BY <1>0, <3>2, <3>3, <3>5 DEF Cut
    <3> QED  BY <1>0, <1>3, <3>2, <3>3, <3>4, <3>6, <3>7 DEF Cut
  <2>4. CASE GiveUp \/ MarkingDone \/ Crash
    BY <1>0, <1>3, <2>4 DEF GiveUp, MarkingDone, Crash, Cut, disk, centre, TypeOK
  <2>5. CASE StartIsolating \/ SetAsideInvalid \/ TakeAnswer
    BY <1>0, <1>3, <2>5 DEF StartIsolating, DropOpenBatch, SetAsideInvalid, TakeAnswer, CloseBatch, Idle, Cut, centre, TypeOK
  <2>6. CASE \E m \in Media : MarkMedia(m)
    BY <1>0, <1>3, <2>6 DEF MarkMedia, Cut, centre
  <2>7. CASE \E q \in requests : RefuseInvalid(q) \/ AnswerFromReceipt(q)
    BY <1>0, <1>3, <2>7 DEF RefuseInvalid, AnswerFromReceipt, Cut, centre, disk
  <2>8. CASE \E q \in requests : Begin(q)
    BY <1>0, <1>3, <2>8 DEF Begin, Cut, disk, memory
  <2>9. CASE Committing
    <3>1. PICK q \in busy : \E skip \in SUBSET NewEvents(q.batch), area \in SUBSET RefsOf(OfKind(q.batch, "media")),
              pick \in [Media -> {"pending", "not_required"}], flying \in SUBSET Drones :
                /\ Commit(q) /\ Apply(q, skip, area, pick, flying) /\ q.batch \in BatchIds
                /\ UNCHANGED <<row, next, number, waiting, content, setAside>>
      BY <2>9, CommitParts
    <3>2. busy' \subseteq busy /\ UNCHANGED <<requests, newBatch, opened, sending, pc>>
      BY <3>1 DEF Commit, disk
    <3>3. \A b \in BatchIds : receipt'[b] = receipt[b] \/ b = q.batch
      BY <1>0, <3>1 DEF Apply, TypeOK
    <3> QED  BY <1>0, <1>3, <3>1, <3>2, <3>3 DEF Cut
  <2>10. CASE \/ \E m \in Media : StoreFile(m)
              \/ \E s \in Sessions : EndSession(s)
              \/ \E q \in requests \cup busy : Lose(q)
    BY <1>0, <1>3, <2>10 DEF StoreFile, EndSession, Lose, Cut, disk, memory
  <2>11. ASSUME NEW c \in BatchIds, ForgetReceipt(c) PROVE Ours'
    <3>1. \A b \in BatchIds : receipt'[b] # NoAnswer => receipt[b] # NoAnswer
      BY <1>0, <2>11 DEF ForgetReceipt, TypeOK
    <3> QED  BY <1>0, <1>3, <2>11, <3>1 DEF ForgetReceipt, Cut, disk, memory
  <2>12. CASE UNCHANGED vars
    BY <1>0, <1>3, <2>12 DEF vars, disk, memory, centre, Cut
  <2> QED  BY <2>1, <2>2, <2>3, <2>4, <2>5, <2>6, <2>7, <2>8, <2>9, <2>10, <2>11, <2>12, Filling
           DEF Next, Gateway, Centre, Committing
<1>5. Whole'
  <2>1. CASE Fill
    <3>1. waiting \subseteq waiting'
      BY <2>1 DEF Fill, NewRow, Queue
    <3> QED  BY <1>0, <2>1, <3>1, Exclusive DEF Cut
  <2>2. CASE SendAgain
    BY <2>2 DEF SendAgain, Post, disk
  <2>3. CASE SendNew
    <3>1. PICK ids \in SUBSET waiting : content' = [content EXCEPT ![newBatch] = ids] /\ newBatch <= MaxBatches
      BY <2>3 DEF SendNew
    <3>2. sending' = newBatch /\ waiting' = waiting /\ newBatch \in BatchIds
      BY <1>0, <2>3, <3>1, BoundsAssumption DEF SendNew, Post, TypeOK, BatchIds
    <3> QED  BY <1>0, <3>1, <3>2 DEF TypeOK
  <2>4. CASE pc' = "sent" /\ UNCHANGED <<pc, sending, content, waiting>>
    BY <1>0, <2>4 DEF Cut
  <2>5. CASE Committing
    BY <1>0, <2>5, Exclusive DEF Cut
  <2>6. CASE Overwrite
    BY <1>0, <2>6 DEF Overwrite, Cut, memory
  <2> QED  BY <2>1, <2>2, <2>3, <2>4, <2>5, <2>6, Filling
           DEF Next, Gateway, Centre, GiveUp, StartIsolating, Idle, SetAsideInvalid, TakeAnswer, MarkMedia,
               MarkingDone, Crash, RefuseInvalid, AnswerFromReceipt, Begin, Committing, StoreFile, EndSession,
               ForgetReceipt, Lose, disk, memory, vars
<1> QED  BY <1>2, <1>4, <1>5

LEMMA OnlyBadSetAsideStep == ASSUME IInv, [Next]_vars PROVE OnlyBadSetAside'
<1>0. OnlyBadSetAside /\ TypeOK /\ setAside \subseteq Allocated
  BY DEF IInv, TypeOK
<1>1. CASE SetAsideInvalid
  <2>1. sending \in BatchIds /\ content[sending] \subseteq RowIds /\ Malformed(sending)
    BY <1>0, <1>1 DEF SetAsideInvalid, IInv, Cut, TypeOK, AnswersHonest, Honest
  <2>2. PICK i : content[sending] = {i}
    <3>1. IsFiniteSet(RowIds)
      BY FS_Interval, BoundsAssumption DEF RowIds
    <3>2. IsFiniteSet(content[sending])
      BY <2>1, <3>1, FS_Subset
    <3>3. Cardinality(content[sending]) = 1
      BY <1>1, <2>1, <3>2, FS_CardinalityType, FS_EmptySet DEF SetAsideInvalid, Several, Malformed
    <3> QED  BY <3>2, <3>3, FS_Singleton
  <2>4. row[i].fit = "malformed"
    BY <2>1, <2>2 DEF Malformed
  <2> QED  BY <1>0, <1>1, <2>2, <2>4, Monotone DEF SetAsideInvalid, CloseBatch, OnlyBadSetAside
<1>2. CASE TakeAnswer
  <2>1. answer.rejected \subseteq refused
    BY <1>2 DEF TakeAnswer, IInv, AnswersHonest, Honest
  <2> QED  BY <1>0, <1>2, <2>1, Monotone DEF TakeAnswer, CloseBatch, OnlyBadSetAside
<1>3. CASE UNCHANGED setAside
  BY <1>0, <1>3, Monotone DEF OnlyBadSetAside
<1> QED  BY <1>1, <1>2, <1>3, Frame DEF Closing

LEMMA UnwantedStep == ASSUME IInv, [Next]_vars PROVE UnwantedIsUnwanted'
<1>0. UnwantedIsUnwanted /\ AnswersHonest /\ TypeOK
  BY DEF IInv
<1>1. ASSUME NEW m \in Media, MarkMedia(m) PROVE UnwantedIsUnwanted'
  <2>1. \A x \in Media : wish'[x] = "no" => wish[x] = "no" \/ (x = m /\ marking[m] = "no")
    BY <1>0, <1>1 DEF MarkMedia, TypeOK
  <2> QED  BY <1>0, <2>1, Monotone DEF UnwantedIsUnwanted, AnswersHonest
<1>2. CASE UNCHANGED wish
  BY <1>0, <1>2, Monotone DEF UnwantedIsUnwanted
<1> QED  BY <1>1, <1>2, Frame

-----------------------------------------------------------------------------
(* The theorems.                                                           *)

LEMMA InitInv == Init => IInv
<1> SUFFICES ASSUME Init PROVE IInv
  OBVIOUS
<1> USE BoundsAssumption DEF Init
<1>1. Allocated = {} /\ Applied = {}
  BY DEF Allocated, Applied
<1>2. TypeOK
  BY <1>1, AnswerTypes DEF TypeOK, RowIds, BatchIds, NoBatch
<1>3. Numbered /\ Reflected
  BY <1>1 DEF Numbered, Reflected, Settled, Reported, Described
<1>4. Cut
  BY <1>1 DEF Cut, BatchIds, NoBatch
<1>5. AnswersHonest
  BY DEF AnswersHonest, Honest, NoAnswer
<1>6. NothingLost /\ AppliedOnce /\ OnlyBadSetAside /\ UnwantedIsUnwanted
  BY <1>1 DEF NothingLost, AppliedOnce, OnlyBadSetAside, UnwantedIsUnwanted
<1> QED  BY <1>2, <1>3, <1>4, <1>5, <1>6 DEF IInv

\* The invariant holds in every state, whatever the numbers of flights, rows,
\* batches, requests and crashes.
THEOREM Invariance == Spec => []IInv
<1>1. IInv /\ [Next]_vars => IInv'
  BY TypeStep, NumberedStep, ReflectedStep, CutStep, AnswersHonestStep, NothingLostStep, AppliedOnceStep,
     OnlyBadSetAsideStep, UnwantedStep DEF IInv
<1> QED  BY InitInv, <1>1, PTL DEF Spec

\* The state is always well typed.
THEOREM TypeCorrect == Spec => []TypeOK
BY Invariance, PTL DEF IInv

\* No row but health leaves the outbox unaccounted for (store.close_batch,
\* process_batch and its receipts).
THEOREM NothingIsLost == Spec => []NothingLost
BY Invariance, PTL DEF IInv

\* No row is ever applied twice (edge_seq, client_ref, command status), but for a file
\* that _apply_media has put in both of the centre's lists, a privacy area having been
\* drawn or deleted between two judgements of it.
THEOREM AppliedAtMostOnce == Spec => []AppliedOnce
BY Invariance, PTL DEF IInv

\* Only malformed or refused items are set aside (the isolation in _sync).
THEOREM SetAsideIsBad == Spec => []OnlyBadSetAside
BY Invariance, PTL DEF IInv

\* A file thought unwanted is not waited for, or was once found to be of a privacy area
\* (mark_media, _apply_media).
THEOREM UnwantedStays == Spec => []UnwantedIsUnwanted
BY Invariance, PTL DEF IInv

\* A flight's updates are applied in order (_apply_update).
THEOREM UpdatesInOrder == Spec => []InOrder
<1>1. IInv => InOrder
  <2>1. SUFFICES ASSUME IInv, NEW i \in Allocated, NEW j \in Allocated, row[i].kind = "update",
                        row[j].kind = "update", row[i].ref = row[j].ref, row[i].seq < row[j].seq, j \in Applied
                 PROVE  i \in Settled
    BY DEF InOrder
  <2>2. row[j].seq <= edgeSeq[row[j].ref] /\ row[j].ref \in Sessions
    BY <2>1 DEF IInv, Reflected, Numbered
  <2>3. row[i].seq \in Nat /\ row[j].seq \in Nat /\ edgeSeq[row[j].ref] \in Nat
    BY <2>1, <2>2 DEF IInv, TypeOK, Numbered
  <2>4. row[i].seq <= edgeSeq[row[i].ref]
    BY <2>1, <2>2, <2>3
  <2> QED  BY <2>1, <2>4 DEF IInv, Reflected
<1> QED  BY Invariance, <1>1, PTL

-----------------------------------------------------------------------------
(* What the centre refuses is kept at the site, as the sentence in store.py  *)
(* has it - as long as no batch has two transactions at a time and no        *)
(* receipt is deleted: then each batch is judged once, and the one judgement *)
(* is what the gateway hears. That it hears of a row what became of it needs *)
(* that no other batch has judged the row.                                   *)

Judged == Applied \cup ignored \cup refused

\* The gateway works at the batch it has on disk, and that one waits in full.
OpenBatch ==
    /\ opened # NoBatch => content[opened] \subseteq waiting
    /\ pc = "sent" => sending = opened

\* Batches that can be judged share no row, and a row that waits is in none but the
\* open one; a row that was judged is in a batch that could be.
OwnRows ==
    /\ \A b, c \in BatchIds : b # c /\ ~Malformed(b) /\ ~Malformed(c) => content[b] \cap content[c] = {}
    /\ \A b \in BatchIds : ~Malformed(b) /\ b # opened => content[b] \cap waiting = {}
    /\ \A i \in Judged : \E b \in BatchIds : b < newBatch /\ ~Malformed(b) /\ i \in content[b]

OneEach == \A p, q \in busy : p.batch = q.batch => p = q

\* A batch without a receipt was not judged yet.
Unjudged ==
    /\ \A q \in busy : receipt[q.batch] = NoAnswer
    /\ \A b \in BatchIds : receipt[b] = NoAnswer /\ ~Malformed(b) => content[b] \cap Judged = {}

\* An answer names every row of the batch that was neither applied nor ignored.
Tells(b, a) == a.verdict = "ok" => content[b] \cap Reported \subseteq Applied \cup ignored \cup a.rejected

Kept ==
    /\ Unjudged /\ RefusedIsKept
    /\ \A b \in BatchIds : Tells(b, receipt[b])
    /\ pc = "sent" => Tells(sending, answer)

Quiet ==
    /\ UNCHANGED <<row, next, waiting, opened, content, newBatch, setAside, receipt, times, ignored, refused>>
    /\ busy' \subseteq busy
    /\ pc' # "sent" \/ UNCHANGED <<pc, sending, answer>>

\* The split of Next these proofs share.
LEMMA KindsOfStep ==
    ASSUME IInv, [Next]_vars
    PROVE  \/ Fill \/ SendAgain \/ SendNew \/ StartIsolating \/ Closing \/ Committing \/ Quiet
           \/ \E q \in requests : RefuseInvalid(q) \/ AnswerFromReceipt(q) \/ Begin(q)
           \/ \E b \in BatchIds : ForgetReceipt(b)
<1> USE DEF disk, memory, centre, hist, Quiet
<1>1. CASE Overwrite
  BY <1>1 DEF Overwrite
<1>2. CASE GiveUp \/ MarkingDone \/ Crash
  BY <1>2 DEF GiveUp, MarkingDone, Crash
<1>3. ASSUME NEW m \in Media, MarkMedia(m) PROVE Quiet
  BY <1>3 DEF MarkMedia
<1>4. CASE \/ \E m \in Media : StoreFile(m)
           \/ \E s \in Sessions : EndSession(s)
           \/ \E q \in requests \cup busy : Lose(q)
  BY <1>4 DEF StoreFile, EndSession, Lose
<1>5. CASE UNCHANGED vars
  BY <1>5 DEF vars
<1> QED  BY <1>1, <1>2, <1>3, <1>4, <1>5, Filling DEF Next, Gateway, Centre, Closing, Committing

\* What a batch is made of is fixed when it is cut.
LEMMA BatchesStay ==
    ASSUME IInv, [Next]_vars
    PROVE  /\ \A b \in BatchIds : b < newBatch => content'[b] = content[b]
           /\ \A b \in BatchIds : content'[b] = content[b] => (Malformed(b)' <=> Malformed(b))
           /\ \A b \in BatchIds : content[b] \subseteq Allocated
           /\ newBatch <= newBatch' /\ newBatch \in Nat
           /\ waiting \subseteq Allocated
<1>0. TypeOK /\ \A b \in BatchIds : content[b] \subseteq Allocated
  BY DEF IInv, Cut
<1>1. \A b \in BatchIds : content'[b] = content[b] => (Malformed(b)' <=> Malformed(b))
  BY <1>0, Monotone DEF Malformed
<1>2. newBatch \in Nat /\ newBatch <= newBatch' /\ \A b \in BatchIds : b < newBatch => content'[b] = content[b]
  BY <1>0, Frame DEF SendNew, TypeOK
<1> QED  BY <1>0, <1>1, <1>2 DEF TypeOK

\* What a transaction judges is in its batch.
LEMMA JudgedInBatch ==
    ASSUME IInv, Committing
    PROVE  \E q \in busy :
             /\ q.batch \in BatchIds /\ q.batch < newBatch /\ ~Malformed(q.batch)
             /\ Judged' \subseteq Judged \cup content[q.batch]
             /\ UNCHANGED <<row, next, waiting, content, newBatch, opened, setAside, sending, pc>>
<1>1. PICK q \in busy : \E skip \in SUBSET NewEvents(q.batch), area \in SUBSET RefsOf(OfKind(q.batch, "media")),
          pick \in [Media -> {"pending", "not_required"}], flying \in SUBSET Drones :
            /\ Commit(q) /\ Apply(q, skip, area, pick, flying) /\ q.batch \in BatchIds
            /\ UNCHANGED <<row, next, number, waiting, content, setAside>>
  BY CommitParts
<1>2. PICK skip \in SUBSET NewEvents(q.batch), area \in SUBSET RefsOf(OfKind(q.batch, "media")),
           pick \in [Media -> {"pending", "not_required"}], flying \in SUBSET Drones :
            /\ Apply(q, skip, area, pick, flying) /\ q.batch \in BatchIds
            /\ UNCHANGED <<row, next, number, waiting, content, setAside>>
  BY <1>1
<1>3. /\ Taken(q.batch, skip, area) \subseteq content[q.batch] /\ Turned(q.batch, skip) \subseteq content[q.batch]
      /\ skip \subseteq content[q.batch]
  BY <1>2, BatchParts DEF NewEvents, OfKind
<1>4. Judged' \subseteq Judged \cup content[q.batch]
  <2>1. /\ Applied' = Applied \cup Taken(q.batch, skip, area) /\ ignored' = ignored \cup skip
        /\ refused' = refused \cup Turned(q.batch, skip)
    <3>1. Apply(q, skip, area, pick, flying) /\ UNCHANGED <<row, next, content, setAside>>
      BY <1>2
    <3> QED  BY <3>1, CommitOutcome, Zenon
  <2> QED  BY <1>3, <2>1 DEF Judged
<1> QED  BY <1>1, <1>4, Exclusive DEF IInv, Cut

\* Batches keep to themselves, whatever is lost, repeated or taken apart.
LEMMA OwnRowsStep ==
    ASSUME IInv, OpenBatch, OwnRows, [Next]_vars
    PROVE  OpenBatch' /\ OwnRows'
<1>0. /\ TypeOK /\ Cut /\ NoBatch = 0 /\ \A b \in BatchIds : b \in Nat /\ b # 0
      /\ opened # NoBatch => opened \in BatchIds
      /\ pc = "sent" => sending \in BatchIds /\ sending = opened
  <2>1. TypeOK /\ Cut /\ NoBatch = 0 /\ \A b \in BatchIds : b \in Nat /\ b # 0
    BY DEF IInv, NoBatch, BatchIds
  <2>2. (opened # NoBatch => opened \in BatchIds) /\ sending \in BatchIds \cup {NoBatch}
    BY <2>1 DEF TypeOK
  <2> QED  BY <2>1, <2>2 DEF Cut, OpenBatch
<1>1. /\ \A b \in BatchIds : b < newBatch => content'[b] = content[b]
      /\ \A b \in BatchIds : content'[b] = content[b] => (Malformed(b)' <=> Malformed(b))
      /\ \A b \in BatchIds : content[b] \subseteq Allocated
      /\ newBatch <= newBatch' /\ newBatch \in Nat
      /\ waiting \subseteq Allocated
  BY BatchesStay
<1>2. \A i \in Judged : \E b \in BatchIds : b < newBatch' /\ ~Malformed(b)' /\ i \in content'[b]
  <2>1. SUFFICES ASSUME NEW i \in Judged
                 PROVE  \E b \in BatchIds : b < newBatch' /\ ~Malformed(b)' /\ i \in content'[b]
    OBVIOUS
  <2>2. PICK b \in BatchIds : b < newBatch /\ ~Malformed(b) /\ i \in content[b]
    BY DEF OwnRows
  <2>3. b < newBatch' /\ b \in Nat /\ newBatch' \in Nat
    BY <1>0, <1>1, <2>2, TypeStep DEF TypeOK
  <2> QED  BY <1>1, <2>2, <2>3
<1>3. ASSUME content' = content, Judged' = Judged, waiting' \subseteq waiting \cup {next},
             \A b \in BatchIds : ~Malformed(b) /\ b # opened' => content[b] \cap waiting' = {}
      PROVE  OwnRows'
  BY <1>1, <1>2, <1>3 DEF OwnRows
<1>4. CASE Fill
  <2>1. PICK kind \in Kinds, ref \in Refs, seq \in 0..MaxRows, fit \in RowFits : NewRow(kind, ref, seq, fit)
    BY <1>4 DEF Fill
  <2>2. waiting' = waiting \cup {next} /\ next \notin Allocated
    BY <2>1, NewRowFacts, Zenon
  <2>3. UNCHANGED <<content, opened, pc, sending, times, ignored, refused>>
    BY <1>4, Exclusive
  <2>4. Judged' = Judged
    BY <2>3 DEF Judged, Applied
  <2>5. \A b \in BatchIds : ~Malformed(b) /\ b # opened' => content[b] \cap waiting' = {}
    BY <1>1, <2>2, <2>3 DEF OwnRows
  <2>6. OpenBatch'
    BY <2>2, <2>3 DEF OpenBatch
  <2> QED  BY <1>3, <2>2, <2>3, <2>4, <2>5, <2>6
<1>5. CASE SendAgain
  BY <1>3, <1>5 DEF SendAgain, Post, OpenBatch, OwnRows, disk, hist, Judged, Applied
<1>6. CASE SendNew
  <2>1. PICK ids \in SUBSET waiting : content' = [content EXCEPT ![newBatch] = ids] /\ newBatch <= MaxBatches
    BY <1>6 DEF SendNew
  <2>2. opened = NoBatch /\ opened' = newBatch /\ newBatch' = newBatch + 1 /\ sending' = newBatch
        /\ UNCHANGED <<row, next, waiting, times, ignored, refused>>
    BY <1>6 DEF SendNew, OpenBatch, Post, hist
  <2>3. newBatch \in BatchIds /\ content'[newBatch] = ids /\ \A b \in BatchIds \ {newBatch} : content'[b] = content[b]
    BY <1>0, <1>1, <2>1, BoundsAssumption DEF TypeOK, BatchIds
  <2>4. \A b \in BatchIds : b # opened
    BY <1>0, <2>2
  <2>5. \A b \in BatchIds \ {newBatch} : ~Malformed(b)' => content'[b] \cap waiting = {}
    BY <1>1, <2>3, <2>4 DEF OwnRows
  <2>6. \A b, c \in BatchIds : b # c /\ ~Malformed(b)' /\ ~Malformed(c)' => content'[b] \cap content'[c] = {}
    BY <1>1, <2>3, <2>5 DEF OwnRows
  <2>7. Judged' = Judged
    BY <2>2 DEF Judged, Applied
  <2> QED  BY <1>2, <2>2, <2>3, <2>5, <2>6, <2>7 DEF OwnRows, OpenBatch
<1>7. CASE StartIsolating
  <2>1. Malformed(opened) /\ opened' = NoBatch /\ pc' = "idle"
        /\ UNCHANGED <<content, waiting, times, ignored, refused>>
    BY <1>0, <1>7 DEF StartIsolating, DropOpenBatch, Idle, hist, IInv, AnswersHonest, Honest
  <2>2. \A b \in BatchIds : ~Malformed(b) => content[b] \cap waiting' = {}
    BY <2>1 DEF OwnRows
  <2>3. Judged' = Judged
    BY <2>1 DEF Judged, Applied
  <2> QED  BY <1>3, <2>1, <2>2, <2>3 DEF OpenBatch
<1>8. CASE Closing
  <2>1. /\ opened' = NoBatch /\ pc' # "sent" /\ waiting' = waiting \ content[opened]
        /\ UNCHANGED <<content, times, ignored, refused>>
    BY <1>0, <1>8, Exclusive DEF Closing, SetAsideInvalid, TakeAnswer, CloseBatch, Idle
  <2>2. \A b \in BatchIds : ~Malformed(b) => content[b] \cap waiting' = {}
    BY <2>1 DEF OwnRows
  <2>3. Judged' = Judged
    BY <2>1 DEF Judged, Applied
  <2> QED  BY <1>3, <2>1, <2>2, <2>3 DEF OpenBatch
<1>9. CASE Committing
  <2>1. PICK q \in busy :
             /\ q.batch \in BatchIds /\ q.batch < newBatch /\ ~Malformed(q.batch)
             /\ Judged' \subseteq Judged \cup content[q.batch]
             /\ UNCHANGED <<row, next, waiting, content, newBatch, opened, setAside, sending, pc>>
    BY <1>9, JudgedInBatch
  <2>2. \A i \in Judged' : \E b \in BatchIds : b < newBatch' /\ ~Malformed(b)' /\ i \in content'[b]
    BY <1>1, <1>2, <2>1
  <2> QED  BY <1>1, <2>1, <2>2 DEF OwnRows, OpenBatch
<1>10. CASE Quiet
  BY <1>3, <1>10 DEF Quiet, OpenBatch, OwnRows, Judged, Applied
<1>11. CASE \/ \E q \in requests : RefuseInvalid(q) \/ AnswerFromReceipt(q) \/ Begin(q)
            \/ \E b \in BatchIds : ForgetReceipt(b)
  BY <1>3, <1>11 DEF RefuseInvalid, AnswerFromReceipt, Begin, ForgetReceipt, OpenBatch, OwnRows, Judged, Applied,
                     disk, memory, hist
<1> QED  BY <1>4, <1>5, <1>6, <1>7, <1>8, <1>9, <1>10, <1>11, KindsOfStep

\* The one judgement of a batch is complete.
LEMMA CommitTells ==
    ASSUME IInv, OwnRows, Kept, OneEach, Committing
    PROVE  \E q \in busy, a \in Answer :
             /\ q.batch \in BatchIds /\ a # NoAnswer /\ Tells(q.batch, a)'
             /\ receipt' = [receipt EXCEPT ![q.batch] = a]
             /\ answer' = answer \/ (sending = q.batch /\ answer' = a)
             /\ Judged' \subseteq Judged \cup content[q.batch] /\ ~Malformed(q.batch)
             /\ busy' = busy \ {q}
             /\ UNCHANGED <<row, next, waiting, content, newBatch, opened, setAside, sending, pc>>
<1>1. PICK q \in busy : \E skip \in SUBSET NewEvents(q.batch), area \in SUBSET RefsOf(OfKind(q.batch, "media")),
          pick \in [Media -> {"pending", "not_required"}], flying \in SUBSET Drones :
            /\ Commit(q) /\ Apply(q, skip, area, pick, flying) /\ q.batch \in BatchIds
            /\ UNCHANGED <<row, next, number, waiting, content, setAside>>
  BY CommitParts
<1>2. PICK skip \in SUBSET NewEvents(q.batch), area \in SUBSET RefsOf(OfKind(q.batch, "media")),
           pick \in [Media -> {"pending", "not_required"}], flying \in SUBSET Drones :
            /\ Commit(q) /\ Apply(q, skip, area, pick, flying) /\ q.batch \in BatchIds
            /\ UNCHANGED <<row, next, number, waiting, content, setAside>>
  BY <1>1
<1>3. /\ Taken(q.batch, skip, area) \subseteq content[q.batch] /\ Turned(q.batch, skip) \subseteq content[q.batch]
      /\ skip \subseteq content[q.batch]
  BY <1>2, BatchParts DEF NewEvents, OfKind
<1>4. /\ Applied' = Applied \cup Taken(q.batch, skip, area) /\ ignored' = ignored \cup skip
      /\ refused' = refused \cup Turned(q.batch, skip)
  <2>1. Apply(q, skip, area, pick, flying) /\ UNCHANGED <<row, next, content, setAside>>
    BY <1>2
  <2> QED  BY <2>1, CommitOutcome, Zenon
<1>5. receipt[q.batch] = NoAnswer /\ ~Malformed(q.batch)
  BY DEF Kept, Unjudged, IInv, Cut
<1>6. content[q.batch] \cap Judged = {}
  BY <1>2, <1>5 DEF Kept, Unjudged
<1>7. PICK a : a = Result(q.batch, skip, area, mediaState')
  OBVIOUS
<1>8. a \in Answer /\ a # NoAnswer /\ a.rejected = Turned(q.batch, skip)
  <2>1. a \in Answer
    <3>1. RefsOf(OfKind(q.batch, "media") \ Unsighted(q.batch, skip)) \subseteq RefsOf(OfKind(q.batch, "media"))
      BY DEF RefsOf
    <3> QED  BY <1>2, <1>7, <3>1, BatchParts DEF Result, Answer
  <2> QED  BY <1>7, <2>1 DEF Result, NoAnswer
<1>9. Tells(q.batch, a)'
  <2>1. \A i \in content[q.batch] \cap Reported : i \in Taken(q.batch, skip, area) \cup Turned(q.batch, skip) \cup skip
    BY <1>2, <1>6, AllAccounted DEF Reported, Judged
  <2>2. Reported' = Reported
    BY <1>2 DEF Reported, Allocated
  <2> QED  BY <1>2, <1>4, <1>8, <2>1, <2>2 DEF Tells
<1>10. /\ receipt' = [receipt EXCEPT ![q.batch] = a]
       /\ answer' = answer \/ (sending = q.batch /\ answer' = a)
  BY <1>2, <1>5, <1>7 DEF Apply, Reply
<1>11. Judged' \subseteq Judged \cup content[q.batch]
  BY <1>3, <1>4 DEF Judged
<1> QED  BY <1>2, <1>5, <1>8, <1>9, <1>10, <1>11, Exclusive DEF Commit

LEMMA KeptStep ==
    ASSUME ~ReceiptsExpire, IInv, OpenBatch, OwnRows, Kept, OneEach, [Next]_vars
    PROVE  Kept'
<1>0. /\ TypeOK /\ TypeOK' /\ Cut
      /\ \A q \in busy : q.batch \in BatchIds
      /\ pc = "sent" => sending \in BatchIds /\ sending = opened
      /\ receipt \in [BatchIds -> Answer]
  BY TypeStep DEF IInv, TypeOK, Cut, NoBatch, OpenBatch, Request
<1>1. /\ \A b \in BatchIds : b < newBatch => content'[b] = content[b]
      /\ \A b \in BatchIds : content'[b] = content[b] => (Malformed(b)' <=> Malformed(b))
      /\ \A b \in BatchIds : content[b] \subseteq Allocated
      /\ waiting \subseteq Allocated
  BY BatchesStay
<1>2. Applied \subseteq Applied' /\ ignored \subseteq ignored' /\ setAside \subseteq setAside'
  <2>1. ignored \subseteq ignored'
    BY Frame DEF Committing, Commit, Apply
  <2>2. setAside \subseteq setAside'
    BY Frame DEF Closing, SetAsideInvalid, TakeAnswer, CloseBatch
  <2> QED  BY <2>1, <2>2, SettledGrows
<1>3. ASSUME NEW b \in BatchIds, NEW a, content'[b] = content[b], Tells(b, a) PROVE Tells(b, a)'
  <2>1. content'[b] \cap Reported' \subseteq content[b] \cap Reported
    BY <1>1, <1>3, Monotone DEF Reported
  <2> QED  BY <1>2, <1>3, <2>1 DEF Tells
\* A step that judges nothing leaves a batch without receipt unjudged.
<1>4. ASSUME UNCHANGED <<content, receipt, times, ignored, refused>>,
             \A q \in busy' : q \in busy \/ receipt[q.batch] = NoAnswer
      PROVE  Unjudged'
  BY <1>1, <1>4 DEF Kept, Unjudged, Judged, Applied
<1>5. ASSUME UNCHANGED <<content, receipt>> PROVE \A b \in BatchIds : Tells(b, receipt[b])'
  BY <1>3, <1>5 DEF Kept
<1>6. ASSUME UNCHANGED <<row, next, waiting>> PROVE RefusedIsKept'
  BY <1>2, <1>6 DEF Kept, RefusedIsKept, Allocated
<1>7. ASSUME pc' # "sent" \/ (UNCHANGED <<pc, sending, content>> /\ answer' = answer)
      PROVE  pc' = "sent" => Tells(sending, answer)'
  BY <1>0, <1>3, <1>7 DEF Kept
<1>8. CASE Fill
  <2>1. PICK kind \in Kinds, ref \in Refs, seq \in 0..MaxRows, fit \in RowFits : NewRow(kind, ref, seq, fit)
    BY <1>8 DEF Fill
  <2>2. /\ Allocated' = Allocated \cup {next} /\ \A i \in Allocated : row'[i] = row[i]
        /\ waiting' = waiting \cup {next}
    BY <2>1, NewRowFacts, Zenon
  <2>3. UNCHANGED <<content, receipt, times, ignored, refused, busy, pc, sending, answer>>
    BY <1>8, Exclusive
  <2>4. RefusedIsKept'
    BY <1>2, <2>2 DEF Kept, RefusedIsKept
  <2> QED  BY <1>4, <1>5, <1>7, <2>3, <2>4 DEF Kept
<1>9. CASE SendAgain \/ StartIsolating
  <2>1. /\ UNCHANGED <<row, next, waiting, content, receipt, times, ignored, refused, busy>>
        /\ pc' # "sent" \/ answer' = NoAnswer
    BY <1>9 DEF SendAgain, StartIsolating, Post, Idle, disk, centre, hist
  <2>2. pc' = "sent" => Tells(sending, answer)'
    BY <2>1 DEF Tells, NoAnswer
  <2> QED  BY <1>4, <1>5, <1>6, <2>1, <2>2 DEF Kept
<1>10. CASE SendNew
  <2>1. PICK ids \in SUBSET waiting : content' = [content EXCEPT ![newBatch] = ids] /\ newBatch <= MaxBatches
    BY <1>10 DEF SendNew
  <2>2. /\ opened = NoBatch /\ UNCHANGED <<row, next, waiting, receipt, times, ignored, refused, busy>>
        /\ answer' = NoAnswer
    BY <1>10 DEF SendNew, OpenBatch, Post, centre, hist
  <2>3. newBatch \in BatchIds /\ content'[newBatch] = ids /\ \A b \in BatchIds \ {newBatch} : content'[b] = content[b]
    BY <1>0, <2>1, BoundsAssumption DEF TypeOK, BatchIds
  <2>4. receipt[newBatch] = NoAnswer
    BY <1>0, <2>3 DEF Cut, TypeOK
  <2>5. \A i \in waiting : i \notin Judged
    <3>1. \A b \in BatchIds : b # opened
      BY <2>2 DEF BatchIds, NoBatch
    <3> QED  BY <3>1 DEF OwnRows
  <2>6. Judged' = Judged
    BY <2>2 DEF Judged, Applied
  <2>7. Unjudged'
    BY <1>1, <2>2, <2>3, <2>5, <2>6 DEF Kept, Unjudged
  <2>8. ASSUME NEW b \in BatchIds PROVE Tells(b, receipt[b])'
    <3>1. CASE b = newBatch
      BY <2>2, <2>4, <3>1 DEF Tells, NoAnswer
    <3>2. CASE b # newBatch
      <4>1. Tells(b, receipt[b]) /\ content'[b] = content[b]
        BY <2>3, <3>2 DEF Kept
      <4> QED  BY <1>3, <2>2, <4>1
    <3> QED  BY <3>1, <3>2
  <2>9. Tells(sending, answer)'
    BY <2>2 DEF Tells, NoAnswer
  <2> QED  BY <1>6, <2>2, <2>7, <2>8, <2>9 DEF Kept
<1>11. CASE Closing
  <2>1. /\ UNCHANGED <<row, next, content, receipt, times, ignored, refused, busy>> /\ pc' # "sent"
        /\ waiting' = waiting \ content[sending] /\ pc = "sent"
    BY <1>11, Exclusive DEF Closing, SetAsideInvalid, TakeAnswer, CloseBatch, Idle
  <2>2. ASSUME NEW i \in content[sending], row[i].kind # "health", i \notin Applied \cup ignored
        PROVE  i \in setAside'
    <3>1. CASE SetAsideInvalid
      BY <2>2, <3>1 DEF SetAsideInvalid, CloseBatch
    <3>2. CASE TakeAnswer
      <4>1. i \in Reported
        BY <1>0, <1>1, <2>1, <2>2 DEF Reported
      <4>2. i \in answer.rejected
        BY <2>1, <2>2, <3>2, <4>1 DEF TakeAnswer, Kept, Tells
      <4> QED  BY <2>2, <3>2, <4>2 DEF TakeAnswer, CloseBatch
    <3> QED  BY <1>11, <3>1, <3>2 DEF Closing
  <2>3. RefusedIsKept'
    BY <1>2, <2>1, <2>2 DEF Kept, RefusedIsKept, Allocated, Applied
  <2> QED  BY <1>4, <1>5, <1>7, <2>1, <2>3 DEF Kept
<1>12. CASE Committing
  <2>1. PICK q \in busy, a \in Answer :
             /\ q.batch \in BatchIds /\ a # NoAnswer /\ Tells(q.batch, a)'
             /\ receipt' = [receipt EXCEPT ![q.batch] = a]
             /\ answer' = answer \/ (sending = q.batch /\ answer' = a)
             /\ Judged' \subseteq Judged \cup content[q.batch] /\ ~Malformed(q.batch)
             /\ busy' = busy \ {q}
             /\ UNCHANGED <<row, next, waiting, content, newBatch, opened, setAside, sending, pc>>
    BY <1>12, CommitTells
  <2>2. \A b \in BatchIds : IF b = q.batch THEN receipt'[b] = a ELSE receipt'[b] = receipt[b]
    BY <1>0, <2>1
  <2>3. \A p \in busy' : p.batch # q.batch /\ p \in busy
    BY <2>1 DEF OneEach
  <2>4. \A p \in busy' : receipt'[p.batch] = NoAnswer
    BY <1>0, <2>2, <2>3 DEF Kept, Unjudged
  <2>5. ASSUME NEW b \in BatchIds, receipt'[b] = NoAnswer, ~Malformed(b)' PROVE content'[b] \cap Judged' = {}
    <3>1. b # q.batch /\ receipt[b] = NoAnswer /\ ~Malformed(b)
      BY <1>1, <2>1, <2>2, <2>5
    <3>2. content[b] \cap Judged = {} /\ content[b] \cap content[q.batch] = {}
      BY <2>1, <3>1 DEF Kept, Unjudged, OwnRows
    <3> QED  BY <2>1, <3>2
  <2>6. ASSUME NEW b \in BatchIds PROVE Tells(b, receipt[b])'
    <3>1. CASE b = q.batch
      BY <2>1, <2>2, <3>1 DEF Tells
    <3>2. CASE b # q.batch
      <4>1. Tells(b, receipt[b]) /\ receipt'[b] = receipt[b]
        BY <2>2, <3>2 DEF Kept
      <4> QED  BY <1>3, <2>1, <4>1 DEF Tells
    <3> QED  BY <3>1, <3>2
  <2>7. pc' = "sent" => Tells(sending, answer)'
    <3>1. CASE answer' = answer
      BY <1>7, <2>1, <3>1
    <3>2. CASE sending = q.batch /\ answer' = a
      BY <2>1, <3>2 DEF Tells
    <3> QED  BY <2>1, <3>1, <3>2
  <2> QED  BY <1>6, <2>1, <2>4, <2>5, <2>6, <2>7 DEF Kept, Unjudged
<1>13. CASE Quiet
  BY <1>4, <1>5, <1>6, <1>7, <1>13 DEF Quiet, Kept
<1>14. ASSUME NEW q \in requests, RefuseInvalid(q) \/ AnswerFromReceipt(q) \/ Begin(q) PROVE Kept'
  <2>1. /\ UNCHANGED <<row, next, waiting, content, receipt, times, ignored, refused, pc, sending>>
        /\ \A p \in busy' : p \in busy \/ receipt[p.batch] = NoAnswer
    BY <1>14 DEF RefuseInvalid, AnswerFromReceipt, Begin, disk, memory, centre, hist
  <2>2. pc' = "sent" => Tells(sending, answer)'
    <3>1. answer' = answer \/ answer' = Invalid \/ (sending = q.batch /\ answer' = receipt[q.batch])
      BY <1>14 DEF RefuseInvalid, AnswerFromReceipt, Begin, Reply, memory
    <3>2. CASE answer' = answer
      BY <1>7, <2>1, <3>2
    <3>3. CASE answer' = Invalid
      BY <3>3 DEF Tells, Invalid
    <3>4. CASE sending = q.batch /\ answer' = receipt[q.batch]
      <4>1. q.batch \in BatchIds
        BY <1>0 DEF TypeOK, Request
      <4>2. Tells(q.batch, receipt[q.batch])'
        BY <1>5, <2>1, <4>1
      <4> QED  BY <2>1, <3>4, <4>2 DEF Tells
    <3> QED  BY <3>1, <3>2, <3>3, <3>4
  <2> QED  BY <1>4, <1>5, <1>6, <2>1, <2>2 DEF Kept
<1>15. \A b \in BatchIds : ~ForgetReceipt(b)
  BY DEF ForgetReceipt
<1> QED  BY <1>8, <1>9, <1>10, <1>11, <1>12, <1>13, <1>14, <1>15, KindsOfStep

\* Batches that can be judged share no row, and what was judged but not yet dropped
\* is in the open batch: no row is ever judged under two batch ids.
THEOREM BatchesShareNoRow == Spec => []OwnRows
<1>1. Init => OpenBatch /\ OwnRows
  BY DEF Init, OpenBatch, OwnRows, Judged, Applied
<1>2. IInv /\ OpenBatch /\ OwnRows /\ [Next]_vars => OpenBatch' /\ OwnRows'
  BY OwnRowsStep
<1> QED  BY <1>1, <1>2, Invariance, PTL DEF Spec

\* store.py: "items the centre refused for good, kept with the reason so a person at
\* the site can see what was lost". So it is in every behaviour in which no receipt is
\* deleted and no batch has two transactions at a time, whatever else is lost, sent
\* again or late.
THEOREM RefusedAreKept ==
    ASSUME ~ReceiptsExpire
    PROVE  Spec /\ []OneEach => []RefusedIsKept
<1>1. Init => OpenBatch /\ OwnRows /\ Kept
  <2>1. Init => OpenBatch /\ OwnRows /\ Unjudged
    BY DEF Init, OpenBatch, OwnRows, Unjudged, Judged, Applied
  <2>2. Init => RefusedIsKept
    BY DEF Init, RefusedIsKept, Allocated
  <2>3. Init => (\A b \in BatchIds : Tells(b, receipt[b])) /\ pc # "sent"
    BY DEF Init, Tells, NoAnswer
  <2> QED  BY <2>1, <2>2, <2>3 DEF Kept
<1>2. IInv /\ OpenBatch /\ OwnRows /\ Kept /\ OneEach /\ [Next]_vars => OpenBatch' /\ OwnRows' /\ Kept'
  BY OwnRowsStep, KeptStep
<1>3. Kept => RefusedIsKept
  BY DEF Kept
<1> QED  BY <1>1, <1>2, <1>3, Invariance, PTL DEF Spec

-----------------------------------------------------------------------------
(* EdgeOutbox implements Delivery.                                         *)

\* Once reported, a row stays reported, with the flight it belongs to.
LEMMA ReportedKept == ASSUME IInv, UNCHANGED <<row, next>>
    PROVE Reported' = Reported /\ \A s \in Sessions : UpdatesOf(s)' = UpdatesOf(s)
BY DEF Reported, UpdatesOf, Allocated

\* A row is accepted if it was applied, and none more than once.
LEMMA AcceptedIsApplied == ASSUME IInv
    PROVE \A i \in RowIds : /\ times[i] > 0 <=> Acceptances[i] > 0
                            /\ Acceptances[i] = IF times[i] > 0 THEN 1 ELSE 0
<1>1. \A i \in RowIds : times[i] \in Nat /\ (times[i] > 1 => row[i].kind = "media")
  BY DEF IInv, TypeOK, AppliedOnce
<1>2. \A i \in RowIds : Acceptances[i] = IF row[i].kind = "media" /\ times[i] > 1 THEN 1 ELSE times[i]
  BY DEF Acceptances
<1> QED  BY <1>1, <1>2

\* A new row is submitted, unless it is a health row.
LEMMA FillSubmits ==
    ASSUME IInv, Fill
    PROVE  (\E i \in RowIds : Promise!Submit(i)) \/ UNCHANGED Promise!vars
<1>1. PICK kind \in Kinds, ref \in Refs, seq \in 0..MaxRows, fit \in RowFits : NewRow(kind, ref, seq, fit)
  BY DEF Fill
<1>2. /\ next \in RowIds /\ next \notin Allocated /\ Allocated' = Allocated \cup {next}
      /\ \A i \in Allocated : i < next /\ row'[i] = row[i]
      /\ row'[next].kind = kind /\ row'[next].ref = ref
      /\ waiting' = waiting \cup {next}
  <2> DEFINE new == [kind |-> kind, ref |-> ref, seq |-> seq, fit |-> fit]
  <2>1. /\ next \in RowIds /\ next \notin Allocated /\ Allocated' = Allocated \cup {next}
        /\ \A i \in Allocated : i < next
        /\ \A i \in Allocated : row'[i] = row[i]
        /\ row'[next] = new /\ waiting' = waiting \cup {next}
    BY <1>1, NewRowFacts, Zenon
  <2>2. new.kind = kind /\ new.ref = ref
    OBVIOUS
  <2> QED  BY <2>1, <2>2
<1>3. UNCHANGED <<times, ignored, refused, setAside>> /\ Acceptances' = Acceptances
  <2>1. UNCHANGED <<times, ignored, refused, setAside>>
    BY Exclusive
  <2>2. \A i \in RowIds : times[i] > 1 => row'[i] = row[i]
    <3>1. \A i \in RowIds : times[i] > 1 => i \in Allocated
      BY RowTimes DEF IInv, Reflected, Reported, Applied
    <3>2. \A i \in Allocated : row'[i] = row[i]
      BY <1>1, NewRowFacts, Zenon
    <3> QED  BY <3>1, <3>2
  <2> QED  BY <2>1, <2>2 DEF Acceptances
<1>4. waiting \subseteq Allocated /\ (ignored \cup refused \cup setAside) \subseteq Allocated
  BY DEF IInv, TypeOK, Reflected, Reported
<1>5. CASE kind = "health"
  <2>1. Reported' = Reported
    BY <1>2, <1>5 DEF Reported
  <2>2. \A s \in Sessions : UpdatesOf(s)' = UpdatesOf(s)
    BY <1>2, <1>5 DEF UpdatesOf
  <2>3. (waiting \cap Reported)' = waiting \cap Reported
    BY <1>2, <2>1 DEF Reported
  <2>4. ((ignored \cup refused \cup setAside) \cap Reported)' = (ignored \cup refused \cup setAside) \cap Reported
    BY <1>3, <2>1
  <2> QED  BY <1>3, <2>1, <2>2, <2>3, <2>4 DEF Promise!vars
<1>6. CASE kind # "health"
  <2>1. Reported' = Reported \cup {next} /\ \A j \in Reported : j < next
    BY <1>2, <1>6 DEF Reported
  <2>2. (waiting \cap Reported)' = (waiting \cap Reported) \cup {next}
    BY <1>2, <1>4, <2>1 DEF Reported
  <2>3. ((ignored \cup refused \cup setAside) \cap Reported)' = (ignored \cup refused \cup setAside) \cap Reported
    BY <1>2, <1>3, <1>4, <2>1
  <2>4. CASE kind = "update"
    <3>1. ref \in Sessions
      BY <1>1, <2>4 DEF NewRow
    <3>2. \A s \in Sessions : UpdatesOf(s)' = IF s = ref THEN UpdatesOf(s) \cup {next} ELSE UpdatesOf(s)
      BY <1>2, <2>4 DEF UpdatesOf
    <3>3. [s \in Sessions |-> UpdatesOf(s)]' =
          [[s \in Sessions |-> UpdatesOf(s)] EXCEPT ![ref] = @ \cup {next}]
      BY <3>1, <3>2
    <3>4. Promise!Submit(next)
      BY <1>2, <1>3, <2>1, <2>2, <2>3, <3>1, <3>3 DEF Promise!Submit
    <3> QED  BY <1>2, <3>4
  <2>5. CASE kind # "update"
    <3>1. \A s \in Sessions : UpdatesOf(s)' = UpdatesOf(s)
      BY <1>2, <2>5 DEF UpdatesOf
    <3>2. Promise!Submit(next)
      BY <1>2, <1>3, <2>1, <2>2, <2>3, <3>1 DEF Promise!Submit
    <3> QED  BY <1>2, <3>2
  <2> QED  BY <2>4, <2>5
<1> QED  BY <1>5, <1>6

\* A batch that is closed leaves.
LEMMA ClosingLeaves ==
    ASSUME IInv, [Next]_vars, Closing
    PROVE  \E rows \in SUBSET (waiting \cap Reported) : Promise!Leave(rows)
<1> DEFINE rows == content[sending] \cap waiting \cap Reported
<1>1. UNCHANGED <<row, next, times, ignored, refused>>
  BY Exclusive
<1>2. Reported' = Reported /\ \A s \in Sessions : UpdatesOf(s)' = UpdatesOf(s)
  BY <1>1, ReportedKept
<1>3. /\ waiting' = waiting \ content[sending]
      /\ setAside \subseteq setAside' /\ setAside' \subseteq setAside \cup content[sending]
  BY DEF Closing, SetAsideInvalid, TakeAnswer, CloseBatch
<1>4. sending \in BatchIds /\ content[sending] \subseteq waiting
  BY DEF Closing, SetAsideInvalid, TakeAnswer, IInv, TypeOK, Cut
<1>5. \A i \in rows : i \in Settled'
  BY <1>1, <1>2, <1>3, NothingLostStep DEF NothingLost, Reported, Allocated
<1>6. Acceptances' = Acceptances /\ \A i \in RowIds : times'[i] > 0 <=> Acceptances'[i] > 0
  BY <1>1, AcceptedIsApplied DEF Acceptances
<1>7. Promise!Leave(rows)
  BY <1>1, <1>2, <1>3, <1>4, <1>5, <1>6 DEF Promise!Leave, Promise!Settled, Settled, Applied
<1> QED  BY <1>7

\* A transaction of the centre settles rows of one batch.
LEMMA CommitSettles ==
    ASSUME IInv, [Next]_vars, Committing
    PROVE  \E now \in SUBSET Reported : Promise!Settle(now)
<1>1. PICK q \in busy : \E skip \in SUBSET NewEvents(q.batch), area \in SUBSET RefsOf(OfKind(q.batch, "media")),
          pick \in [Media -> {"pending", "not_required"}], flying \in SUBSET Drones :
            /\ Commit(q) /\ Apply(q, skip, area, pick, flying) /\ q.batch \in BatchIds
            /\ UNCHANGED <<row, next, number, waiting, content, setAside>>
  BY CommitParts
<1>2. PICK skip \in SUBSET NewEvents(q.batch), area \in SUBSET RefsOf(OfKind(q.batch, "media")),
           pick \in [Media -> {"pending", "not_required"}], flying \in SUBSET Drones :
               Apply(q, skip, area, pick, flying)
  BY <1>1
<1> DEFINE now == {i \in Taken(q.batch, skip, area) : times[i] = 0}
<1>3. Reported' = Reported /\ \A s \in Sessions : UpdatesOf(s)' = UpdatesOf(s)
  BY <1>1, ReportedKept
<1>4. /\ now \subseteq Reported /\ now \subseteq content[q.batch] /\ Reported \subseteq RowIds
      /\ Taken(q.batch, skip, area) \subseteq RowIds
  BY <1>1, BatchParts DEF Reported
<1>5. /\ times' = [i \in RowIds |-> IF i \in Taken(q.batch, skip, area) THEN times[i] + 1 ELSE times[i]]
      /\ ignored' = ignored \cup skip /\ refused' = refused \cup Turned(q.batch, skip)
  <2> HIDE DEF now
  <2>1. UNCHANGED <<row, next, content, setAside>>
    BY <1>1
  <2>2. times' = [i \in RowIds |-> IF i \in Taken(q.batch, skip, area) THEN times[i] + 1 ELSE times[i]]
    BY <1>2, CommitTimes
  <2>3. ignored' = ignored \cup skip /\ refused' = refused \cup Turned(q.batch, skip)
    BY <1>2, <2>1, CommitOutcome
  <2> QED  BY <2>2, <2>3
<1>6. Turned(q.batch, skip) \subseteq Reported /\ skip \subseteq Reported
  BY <1>1, BatchParts
<1>7. \A i \in now, j \in Reported : j < i => j \in Settled'
  BY <1>1, <1>2, <1>4, OrderKept DEF Reported
<1>8. \A s \in Sessions : UpdatesOf(s) \subseteq Reported
  BY DEF UpdatesOf, Reported
<1>9. /\ \A i \in now : Acceptances[i] = 0
      /\ Acceptances' = [i \in RowIds |-> IF i \in now THEN 1 ELSE Acceptances[i]]
      /\ \A i \in RowIds : times'[i] > 0 <=> Acceptances'[i] > 0
  <2>1. \A i \in RowIds : times[i] \in Nat
    BY DEF IInv, TypeOK
  <2>2. \A i \in RowIds : Acceptances[i] = IF times[i] > 0 THEN 1 ELSE 0
    BY AcceptedIsApplied
  <2>3. AppliedOnce' /\ \A i \in RowIds : times'[i] \in Nat
    BY AppliedOnceStep, TypeStep DEF TypeOK
  <2>4. \A i \in RowIds : Acceptances'[i] = IF times'[i] > 0 THEN 1 ELSE 0
    BY <2>3 DEF Acceptances, AppliedOnce
  <2>5. \A i \in RowIds : times'[i] > 0 <=> times[i] > 0 \/ i \in now
    BY <1>5, <2>1
  <2>6. \A i \in RowIds : Acceptances'[i] = IF i \in now THEN 1 ELSE Acceptances[i]
    BY <2>2, <2>4, <2>5
  <2>7. Acceptances' = [i \in RowIds |-> Acceptances'[i]]
    BY DEF Acceptances
  <2> QED  BY <1>4, <2>1, <2>2, <2>4, <2>6, <2>7
<1>10. Promise!Settle(now)
  BY <1>1, <1>3, <1>4, <1>5, <1>6, <1>7, <1>8, <1>9 DEF Promise!Settle, Promise!Settled, Settled, Applied
<1> QED  BY <1>4, <1>10

\* Every step of the gateway, the link and the centre is a step of Delivery or
\* changes nothing it speaks of.
LEMMA StepImplements == ASSUME IInv, [Next]_vars PROVE [Promise!Next]_(Promise!vars)
<1>1. CASE Fill
  BY <1>1, FillSubmits DEF Promise!Next
<1>2. CASE Closing
  BY <1>2, ClosingLeaves DEF Promise!Next
<1>3. CASE Committing
  BY <1>3, CommitSettles DEF Promise!Next
<1>4. CASE UNCHANGED <<row, next, number, waiting, setAside, times, ignored, refused>>
  <2>1. Reported' = Reported /\ \A s \in Sessions : UpdatesOf(s)' = UpdatesOf(s)
    BY <1>4, ReportedKept
  <2> QED  BY <1>4, <2>1 DEF Promise!vars, Acceptances
<1> QED  BY <1>1, <1>2, <1>3, <1>4, Frame

\* The detailed specification implements the abstract one (drone_edge/store.py,
\* agent._sync and drone_edge_sync.process_batch together are what Delivery says).
THEOREM Implements == Spec => ImplementsDelivery
<1>1. Init => Promise!Init
  BY DEF Init, Promise!Init, Reported, UpdatesOf, Allocated, Acceptances
<1> QED  BY <1>1, Invariance, StepImplements, PTL DEF Spec, ImplementsDelivery, Promise!Spec

=============================================================================
