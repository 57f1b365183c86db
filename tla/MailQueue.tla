------------------------------ MODULE MailQueue ------------------------------
(***************************************************************************)
(* The three queues of emails in PostgreSQL: drone patrol reports          *)
(* (services/drone_report_delivery.py), briefings and operations reports   *)
(* (ops_delivery.py), virtual patrol reports (vpatrol_email.py).  They     *)
(* follow one discipline and differ in small things, so a behaviour of     *)
(* this module is about one of them, which.                                *)
(*                                                                         *)
(* A pass goes through the organisations, one of which is modelled.  It    *)
(* lists what is due there and then, mail by mail, claims it in a          *)
(* transaction of its own, hands it to the mail server, and records what   *)
(* came of it.  Several workers may do so at once; one may die anywhere.   *)
(* Times are relative: how long until a mail is due, how long ago it was   *)
(* claimed, how long a pass has run.  A pass knows no other time than that *)
(* at which it began, and nothing ends one that runs for longer than       *)
(* STALE_CLAIM: its mails are taken over while they are in its hands.      *)
(***************************************************************************)
EXTENDS Integers, FiniteSets

CONSTANTS
    Mails, Workers, NoMail,
    MaxAttempts,    \* MAX_ATTEMPTS
    Batch,          \* BATCH, EMAIL_BATCH
    StaleClaim,     \* STALE_CLAIM, in ticks
    Backoff,        \* BACKOFF_MINUTES: the delay after each attempt, in ticks
    MaxPass,        \* bound: how many ticks a pass takes at most
    MaxCrashes,     \* bound: passes that die
    MaxRetries      \* bound: times an operator puts a mail back

Queues == {"drone", "ops", "vpatrol"}

ASSUME MailsAssumption == NoMail \notin Mails /\ IsFiniteSet(Workers)
ASSUME TimesAssumption ==
    /\ {MaxAttempts, Batch} \subseteq Nat \ {0} /\ {StaleClaim, MaxPass, MaxCrashes, MaxRetries} \subseteq Nat
    /\ Backoff \in [1..MaxAttempts -> Nat]

VARIABLES
    queue,      \* which of the queues this is
    mail,       \* the rows
    worker,     \* where each worker is in its pass
    \* History.
    accepted,   \* how often the mail server took each mail
    unrecorded, \* mails it took without that being recorded: the database failed, or the worker died
    deserted,   \* mails in the hands of a worker when it died, and not claimed since
    overtaken,  \* mails claimed while in the hands of a worker whose pass ran longer than StaleClaim
    crashes, retries

vars == <<queue, mail, worker, accepted, unrecorded, deserted, overtaken, crashes, retries>>

\* Ages matter up to where the slowest pass calls a claim stale.
OldAge == StaleClaim + MaxPass + 1
Older(t) == IF t < OldAge THEN t + 1 ELSE t

Unqueued == [status |-> "NONE", attempts |-> 0, wait |-> 0, age |-> 0]
Away == [at |-> "away", ran |-> 0, list |-> {}, mail |-> NoMail, read |-> 0]

Statuses == {"NONE", "PENDING", "PROCESSING", "SENT", "FAILED", "LEFT_OUT"}

TypeOK ==
    /\ queue \in Queues
    /\ mail \in [Mails -> [status : Statuses, attempts : Nat, wait : Int, age : 0..OldAge]]
    /\ worker \in [Workers -> [at : {"away", "begun", "pass", "send", "taken", "failed"}, ran : 0..MaxPass,
                               list : SUBSET [mail : Mails, attempts : Nat],
                               mail : Mails \cup {NoMail}, read : Nat]]
    /\ \A w \in Workers : worker[w].mail = NoMail <=> worker[w].at \in {"away", "begun", "pass"}
    /\ accepted \in [Mails -> Nat] /\ unrecorded \subseteq Mails /\ deserted \subseteq Mails /\ overtaken \subseteq Mails
    /\ crashes \in 0..MaxCrashes /\ retries \in 0..MaxRetries

Init ==
    /\ queue \in Queues
    /\ mail = [m \in Mails |-> Unqueued]
    /\ worker = [w \in Workers |-> Away]
    /\ accepted = [m \in Mails |-> 0] /\ unrecorded = {} /\ deserted = {} /\ overtaken = {}
    /\ crashes = 0 /\ retries = 0

-----------------------------------------------------------------------------
(* What asks for mails.                                                    *)

\* A flight or a patrol ended, a schedule fell due, a briefing was published.
\* Somebody who may not receive it is left out at once.
Enqueue(m) ==
    /\ mail[m].status = "NONE"
    /\ \E status \in {"PENDING"} \cup (IF queue = "ops" THEN {"LEFT_OUT"} ELSE {}) :
         mail' = [mail EXCEPT ![m].status = status]
    /\ UNCHANGED <<queue, worker, accepted, unrecorded, deserted, overtaken, crashes, retries>>

\* An operator puts a failed mail back. The requests for drone reports and for virtual
\* patrol reports agree; there is none for operations mails.
Retry(m) ==
    /\ queue # "ops" /\ mail[m].status = "FAILED" /\ retries < MaxRetries /\ retries' = retries + 1
    /\ mail' = [mail EXCEPT ![m].status = "PENDING", ![m].attempts = 0, ![m].wait = 0]
    /\ UNCHANGED <<queue, worker, accepted, unrecorded, deserted, overtaken, crashes>>

-----------------------------------------------------------------------------
(* process_queue.                                                          *)

\* PROCESSING for so long, seen from a pass that began ran ticks ago, that its
\* worker must have died. Virtual patrolling does not look. (Faulty: any PROCESSING.)
AbandonedAtOnce(m, ran) == queue # "vpatrol" /\ mail[m].status = "PROCESSING"

Abandoned(m, ran) == queue # "vpatrol" /\ mail[m].status = "PROCESSING" /\ mail[m].age - ran > StaleClaim

Waiting(m) == mail[m].status \in {"PENDING", "FAILED"}

\* Due when the pass began.
Due(m, ran) ==
    /\ mail[m].attempts < MaxAttempts
    /\ (Waiting(m) /\ mail[m].wait + ran <= 0) \/ Abandoned(m, ran)

\* A pass begins, with the organisations before this one.
BeginPass(w) ==
    /\ worker[w].at = "away" /\ worker' = [worker EXCEPT ![w].at = "begun"]
    /\ UNCHANGED <<queue, mail, accepted, unrecorded, deserted, overtaken, crashes, retries>>

\* It lists a batch of what is due here, that which has been due longest first.
StartPass(w) ==
    LET due == {m \in Mails : Due(m, worker[w].ran)}
    IN  /\ worker[w].at = "begun"
        /\ \E L \in SUBSET due :
             /\ Cardinality(L) <= Batch
             /\ L = due \/ Cardinality(L) = Batch
             /\ worker' = [worker EXCEPT ![w].at = "pass",
                                         ![w].list = {[mail |-> m, attempts |-> mail[m].attempts] : m \in L}]
        /\ UNCHANGED <<queue, mail, accepted, unrecorded, deserted, overtaken, crashes, retries>>

\* What the claiming UPDATE asks for: not whether the mail is still due. (Faulty: a
\* list that was read is as good as a claim.)
ClaimableListed(m, ran) == TRUE

Claimable(m, ran) ==
    /\ Waiting(m) \/ Abandoned(m, ran)
    /\ queue # "vpatrol" => mail[m].attempts < MaxAttempts

\* In the hands of a worker whose pass is older than a claim may be.
Overdue(m) == \E w \in Workers : worker[w].mail = m /\ worker[w].ran > StaleClaim

\* The attempts are those that were listed: the next delay is computed from them.
Claim(w) ==
    \E e \in worker[w].list :
        LET left == worker[w].list \ {e}
        IN  /\ worker[w].at = "pass"
            /\ IF Claimable(e.mail, worker[w].ran)
               THEN /\ mail' = [mail EXCEPT ![e.mail].status = "PROCESSING", ![e.mail].attempts = @ + 1,
                                            ![e.mail].age = worker[w].ran]
                    /\ worker' = [worker EXCEPT ![w].at = "send", ![w].list = left, ![w].mail = e.mail,
                                                ![w].read = e.attempts]
                    /\ deserted' = deserted \ {e.mail}
                    /\ overtaken' = overtaken \cup (IF Overdue(e.mail) THEN {e.mail} ELSE {})
               ELSE worker' = [worker EXCEPT ![w].list = left] /\ UNCHANGED <<mail, deserted, overtaken>>
            /\ UNCHANGED <<queue, accepted, unrecorded, crashes, retries>>

\* On to the next of the list. (Faulty: the mail is still thought to be in hand.)
GoOnHolding(w) == worker' = [worker EXCEPT ![w].at = "pass", ![w].read = 0]

GoOn(w) == worker' = [worker EXCEPT ![w].at = "pass", ![w].mail = NoMail, ![w].read = 0]

\* Who may receive it is asked again.
LeaveOut(w) ==
    /\ worker[w].at = "send" /\ queue = "ops" /\ GoOn(w)
    /\ mail' = [mail EXCEPT ![worker[w].mail].status = "LEFT_OUT"]
    /\ UNCHANGED <<queue, accepted, unrecorded, deserted, overtaken, crashes, retries>>

\* The mail server takes it.
Deliver(w) ==
    /\ worker[w].at = "send" /\ worker' = [worker EXCEPT ![w].at = "taken"]
    /\ accepted' = [accepted EXCEPT ![worker[w].mail] = @ + 1]
    /\ UNCHANGED <<queue, mail, unrecorded, deserted, overtaken, crashes, retries>>

Record(w) ==
    /\ worker[w].at = "taken" /\ GoOn(w)
    /\ mail' = [mail EXCEPT ![worker[w].mail].status = "SENT"]
    /\ UNCHANGED <<queue, accepted, unrecorded, deserted, overtaken, crashes, retries>>

Forgotten(W) == {worker[w].mail : w \in {v \in W : worker[v].at = "taken"}}

\* The document cannot be made, the mail server refuses or does not answer (it may
\* have taken it), or what was done cannot be recorded.
Raise(w) ==
    /\ worker[w].at \in {"send", "taken"} /\ worker' = [worker EXCEPT ![w].at = "failed"]
    /\ unrecorded' = unrecorded \cup Forgotten({w})
    /\ UNCHANGED <<queue, mail, accepted, deserted, overtaken, crashes, retries>>

Least(a, b) == IF a < b THEN a ELSE b

\* Due again a delay after the pass began. (Faulty: left as it was claimed.)
RecordFailureNowhere(w) ==
    /\ worker[w].at = "failed" /\ GoOn(w)
    /\ UNCHANGED <<queue, mail, accepted, unrecorded, deserted, overtaken, crashes, retries>>

RecordFailure(w) ==
    LET delay == Backoff[Least(worker[w].read + 1, MaxAttempts)]
    IN  /\ worker[w].at = "failed" /\ GoOn(w)
        /\ mail' = [mail EXCEPT ![worker[w].mail].status = "FAILED",
                                ![worker[w].mail].wait = delay - worker[w].ran]
        /\ UNCHANGED <<queue, accepted, unrecorded, deserted, overtaken, crashes, retries>>

EndPass(w) ==
    /\ worker[w].at = "pass" /\ worker[w].list = {}
    /\ worker' = [worker EXCEPT ![w] = Away]
    /\ UNCHANGED <<queue, mail, accepted, unrecorded, deserted, overtaken, crashes, retries>>

\* The process ends, the pass is cancelled, or the failure cannot be recorded either.
Crash(w) ==
    /\ worker[w].at # "away" /\ crashes < MaxCrashes /\ crashes' = crashes + 1
    /\ unrecorded' = unrecorded \cup Forgotten({w})
    /\ deserted' = deserted \cup ({worker[w].mail} \ {NoMail})
    /\ worker' = [worker EXCEPT ![w] = Away]
    /\ UNCHANGED <<queue, mail, accepted, overtaken, retries>>

Tick ==
    /\ \A w \in Workers : worker[w].at # "away" => worker[w].ran < MaxPass
    /\ worker' = [w \in Workers |-> IF worker[w].at = "away" THEN worker[w] ELSE [worker[w] EXCEPT !.ran = @ + 1]]
    /\ mail' = [m \in Mails |-> [mail[m] EXCEPT !.wait = IF @ + MaxPass > 0 THEN @ - 1 ELSE @,
                                                !.age = IF mail[m].status = "PROCESSING" THEN Older(@) ELSE 0]]
    /\ UNCHANGED <<queue, accepted, unrecorded, deserted, overtaken, crashes, retries>>

Pass(w) ==
    \/ BeginPass(w) \/ StartPass(w) \/ Claim(w) \/ LeaveOut(w) \/ Deliver(w) \/ Record(w) \/ Raise(w) \/ RecordFailure(w)
    \/ EndPass(w)

Next ==
    \/ \E m \in Mails : Enqueue(m) \/ Retry(m)
    \/ \E w \in Workers : Pass(w) \/ Crash(w)
    \/ Tick

Spec == Init /\ [][Next]_vars

\* The schedulers go on, and time passes.
FairSpec == Spec /\ WF_vars(Tick) /\ \A w \in Workers : WF_vars(Pass(w))

-----------------------------------------------------------------------------
(* Correctness.                                                            *)

\* Two workers have a mail in hand only once a pass that held it has outlasted
\* STALE_CLAIM, and never in virtual patrolling, though claims are taken over, lists
\* are old and a failure makes a mail due at once.
OneHolder == \A v, w \in Workers :
    worker[v].mail = worker[w].mail /\ worker[v].mail # NoMail /\ v # w
        => queue # "vpatrol" /\ worker[v].mail \in overtaken

\* One that was sent stays SENT, unless it was taken over in the hands of such a pass,
\* which may still make it FAILED.
SentStays == [][\A m \in Mails :
    mail[m].status = "SENT" /\ mail'[m].status # "SENT" => m \in overtaken]_vars

\* A mail goes out twice only if the database or the worker failed between the mail
\* server's word and its record, or such a pass was overtaken.
TwiceOnlyUnrecorded == \A m \in Mails : accepted[m] > 1 => m \in unrecorded \cup overtaken

\* A mail is tried MAX_ATTEMPTS times between two requests of an operator. The claim
\* of virtual patrolling does not ask again, so there each further worker may add one.
EffortBounded == \A m \in Mails :
    mail[m].attempts <= MaxAttempts + (IF queue = "vpatrol" THEN Cardinality(Workers) - 1 ELSE 0)

Ended(m) ==
    \/ mail[m].status \in {"SENT", "LEFT_OUT"}
    \/ mail[m].status = "FAILED" /\ mail[m].attempts >= MaxAttempts

\* Left PROCESSING by a worker that died, in its last attempt or where nobody looks.
Stranded(m) ==
    /\ mail[m].status = "PROCESSING" /\ m \in deserted
    /\ queue = "vpatrol" \/ mail[m].attempts >= MaxAttempts

\* A queued mail is sent, left out or plainly FAILED in the end, or else a worker died
\* over it at the one moment that strands it.
EveryMailEnds == \A m \in Mails : mail[m].status = "PENDING" ~> Ended(m) \/ Stranded(m)

\* drone_runner_main.py: "A row it had claimed stays PROCESSING and is taken again
\* later"; drone_report_delivery.py: FAILED after the last attempt, "visible, never
\* silently dropped". It does not hold: a worker may die in the last attempt.
NothingStranded == \A m \in Mails :
    queue = "drone" /\ mail[m].status = "PENDING" ~> Ended(m)

=============================================================================
