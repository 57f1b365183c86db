--------------------------- MODULE MailQueueProofs ---------------------------
(* Proofs about MailQueue, for every value of its constants.                *)
EXTENDS MailQueue, FiniteSetTheorems, TLAPS

USE DEF Queues, Statuses

LEMMA ConstantTypes ==
    /\ NoMail \notin Mails
    /\ MaxAttempts \in Nat /\ MaxAttempts >= 1 /\ Batch \in Nat
    /\ StaleClaim \in Nat /\ MaxPass \in Nat
    /\ MaxCrashes \in Nat /\ MaxRetries \in Nat
    /\ OldAge \in Nat /\ MaxPass < OldAge
BY MailsAssumption, TimesAssumption DEF OldAge


WorkerState == [at : {"away", "begun", "pass", "send", "taken", "failed"}, ran : 0..MaxPass,
                list : SUBSET [mail : Mails, attempts : Nat], mail : Mails \cup {NoMail}, read : Nat]

MailState == [status : Statuses, attempts : Nat, wait : Int, age : 0..OldAge]

LEMMA AwayType == Away \in WorkerState
BY ConstantTypes DEF Away, WorkerState

LEMMA TypeInit == Init => TypeOK
<1>1. Unqueued \in MailState
  BY ConstantTypes DEF Unqueued, MailState
<1> QED  BY <1>1, AwayType, ConstantTypes DEF Init, TypeOK, Away, WorkerState, MailState

\* Type correctness is kept by every step.
LEMMA TypeStep ==
    ASSUME TypeOK, [Next]_vars
    PROVE  TypeOK'
<1> USE ConstantTypes
<1>1. ASSUME NEW m \in Mails, Enqueue(m) \/ Retry(m) PROVE TypeOK'
  <2>1. CASE Enqueue(m)
    <3>1. PICK status \in Statuses : mail' = [mail EXCEPT ![m].status = status]
      BY <2>1 DEF Enqueue
    <3>2. [mail[m] EXCEPT !.status = status] \in MailState
      BY DEF TypeOK, MailState
    <3>3. mail' \in [Mails -> MailState]
      BY <3>1, <3>2 DEF TypeOK, MailState
    <3> QED  BY <2>1, <3>3 DEF TypeOK, Enqueue, MailState
  <2>2. CASE Retry(m)
    <3> DEFINE first == [mail EXCEPT ![m].status = "PENDING"]
               second == [first EXCEPT ![m].attempts = 0]
    <3>1. first \in [Mails -> MailState]
      BY DEF TypeOK, MailState
    <3>2. second \in [Mails -> MailState]
      <4> HIDE DEF first
      <4> QED  BY <3>1 DEF MailState
    <3>3. mail' = [second EXCEPT ![m].wait = 0]
      BY <2>2 DEF Retry
    <3>4. mail' \in [Mails -> MailState]
      <4> HIDE DEF second
      <4> QED  BY <3>2, <3>3 DEF MailState
    <3> QED  BY <2>2, <3>4 DEF TypeOK, Retry, MailState
  <2> QED  BY <1>1, <2>1, <2>2
<1>2. ASSUME NEW w \in Workers, BeginPass(w) \/ StartPass(w) PROVE TypeOK'
  <2>1. CASE BeginPass(w)
    BY <2>1 DEF TypeOK, BeginPass
  <2>2. CASE StartPass(w)
    <3>1. PICK L \in SUBSET Mails :
            worker' = [worker EXCEPT ![w].at = "pass",
                                     ![w].list = {[mail |-> m, attempts |-> mail[m].attempts] : m \in L}]
      BY <2>2 DEF StartPass
    <3> DEFINE list == {[mail |-> m, attempts |-> mail[m].attempts] : m \in L}
    <3>2. list \in SUBSET [mail : Mails, attempts : Nat]
      BY DEF TypeOK
    <3>3. worker' = [worker EXCEPT ![w].at = "pass", ![w].list = list]
      BY <3>1
    <3>4. worker[w].mail = NoMail
      BY <2>2 DEF TypeOK, StartPass
    <3> HIDE DEF list
    <3>5. UNCHANGED <<queue, mail, accepted, unrecorded, deserted, overtaken, crashes, retries>>
      BY <2>2 DEF StartPass
    <3>6. [worker[w] EXCEPT !.at = "pass", !.list = list] \in WorkerState
      BY <3>2 DEF TypeOK, WorkerState
    <3>7. worker' \in [Workers -> WorkerState]
      BY <3>3, <3>6 DEF TypeOK, WorkerState
    <3>8. \A v \in Workers : worker'[v].mail = NoMail <=> worker'[v].at \in {"away", "begun", "pass"}
      <4>1. worker'[w].mail = worker[w].mail /\ worker'[w].at = "pass"
        BY <3>3 DEF TypeOK
      <4>2. \A v \in Workers \ {w} : worker'[v] = worker[v]
        BY <3>3 DEF TypeOK
      <4> QED  BY <3>4, <4>1, <4>2 DEF TypeOK
    <3> QED  BY <3>5, <3>7, <3>8 DEF TypeOK, WorkerState
  <2> QED  BY <1>2, <2>1, <2>2
<1>3. ASSUME NEW w \in Workers, Claim(w) PROVE TypeOK'
  <2>1. PICK e \in worker[w].list : Claim(w)!(e)
    BY <1>3 DEF Claim
  <2>2. e \in [mail : Mails, attempts : Nat] /\ worker[w].list \in SUBSET [mail : Mails, attempts : Nat]
    BY DEF TypeOK
  <2>3. CASE Claimable(e.mail, worker[w].ran)
    BY <2>1, <2>2, <2>3 DEF TypeOK
  <2>4. CASE ~Claimable(e.mail, worker[w].ran)
    <3>1. UNCHANGED <<queue, mail, accepted, unrecorded, deserted, overtaken, crashes, retries>>
          /\ worker' = [worker EXCEPT ![w].list = worker[w].list \ {e}]
      BY <2>1, <2>4
    <3> QED  BY <3>1 DEF TypeOK
  <2> QED  BY <2>3, <2>4
<1>4. ASSUME NEW w \in Workers, LeaveOut(w) \/ Record(w) PROVE TypeOK'
  BY <1>4 DEF TypeOK, LeaveOut, Record, GoOn
<1>5. ASSUME NEW w \in Workers, Deliver(w) PROVE TypeOK'
  BY <1>5 DEF TypeOK, Deliver
<1>6. ASSUME NEW w \in Workers, Raise(w) PROVE TypeOK'
  BY <1>6 DEF TypeOK, Raise, Forgotten
<1>7. ASSUME NEW w \in Workers, RecordFailure(w) PROVE TypeOK'
  <2>1. worker[w].mail \in Mails /\ worker[w].read \in Nat /\ worker[w].ran \in Nat
    BY <1>7 DEF TypeOK, RecordFailure
  <2>2. Least(worker[w].read + 1, MaxAttempts) \in 1..MaxAttempts
    BY <2>1 DEF Least
  <2>3. Backoff[Least(worker[w].read + 1, MaxAttempts)] \in Nat
    BY <2>2, TimesAssumption
  <2>4. \E wait \in Int :
          mail' = [mail EXCEPT ![worker[w].mail].status = "FAILED", ![worker[w].mail].wait = wait]
    <3> DEFINE delay == Backoff[Least(worker[w].read + 1, MaxAttempts)]
    <3>1. delay - worker[w].ran \in Int
      BY <2>1, <2>3
    <3> QED  BY <1>7, <3>1 DEF RecordFailure
  <2> QED  BY <1>7, <2>1, <2>4 DEF TypeOK, RecordFailure, GoOn
<1>8. ASSUME NEW w \in Workers, EndPass(w) PROVE TypeOK'
  BY <1>8 DEF TypeOK, EndPass, Away
<1>9. ASSUME NEW w \in Workers, Crash(w) PROVE TypeOK'
  BY <1>9 DEF TypeOK, Crash, Away, Forgotten
<1>10. CASE Tick
  <2>1. ASSUME NEW m \in Mails
        PROVE  mail'[m] \in MailState
    <3>1. mail[m] \in MailState
      BY DEF TypeOK, MailState, WorkerState
    <3>2. Older(mail[m].age) \in 0..OldAge /\ mail[m].wait - 1 \in Int
      BY <3>1 DEF Older, MailState
    <3>3. mail'[m] = [mail[m] EXCEPT !.wait = IF mail[m].wait + MaxPass > 0 THEN mail[m].wait - 1 ELSE mail[m].wait,
                                     !.age = IF mail[m].status = "PROCESSING" THEN Older(mail[m].age) ELSE 0]
      BY <1>10 DEF Tick
    <3> DEFINE wait == IF mail[m].wait + MaxPass > 0 THEN mail[m].wait - 1 ELSE mail[m].wait
               age == IF mail[m].status = "PROCESSING" THEN Older(mail[m].age) ELSE 0
    <3>4. wait \in Int /\ age \in 0..OldAge
      BY <3>1, <3>2 DEF MailState
    <3>5. mail'[m] = [mail[m] EXCEPT !.wait = wait, !.age = age]
      BY <3>3
    <3> HIDE DEF wait, age
    <3> QED  BY <3>1, <3>4, <3>5 DEF MailState
  <2>2. mail' \in [Mails -> MailState]
    BY <1>10, <2>1 DEF Tick
  <2>3. ASSUME NEW w \in Workers
        PROVE  /\ worker'[w] \in WorkerState
               /\ worker'[w].mail = worker[w].mail /\ worker'[w].at = worker[w].at
    <3>1. /\ worker[w].at # "away" => worker[w].ran < MaxPass
          /\ worker'[w] = IF worker[w].at = "away" THEN worker[w]
                          ELSE [worker[w] EXCEPT !.ran = worker[w].ran + 1]
      BY <1>10 DEF Tick
    <3>2. worker[w] \in WorkerState
      BY DEF TypeOK, MailState, WorkerState
    <3>3. CASE worker[w].at = "away"
      BY <3>1, <3>2, <3>3 DEF WorkerState
    <3>4. CASE worker[w].at # "away"
      <4>1. worker[w].ran + 1 \in 0..MaxPass
        BY <3>1, <3>2, <3>4 DEF WorkerState
      <4> QED  BY <3>1, <3>2, <3>4, <4>1 DEF WorkerState
    <3> QED  BY <3>3, <3>4
  <2>4. worker' \in [Workers -> WorkerState]
    BY <1>10, <2>3 DEF Tick
  <2>5. UNCHANGED <<queue, accepted, unrecorded, deserted, overtaken, crashes, retries>>
    BY <1>10 DEF Tick
  <2> QED  BY <2>2, <2>3, <2>4, <2>5 DEF TypeOK, MailState, WorkerState
<1>11. CASE UNCHANGED vars
  BY <1>11 DEF TypeOK, vars
<1> QED  BY <1>1, <1>2, <1>3, <1>4, <1>5, <1>6, <1>7, <1>8, <1>9, <1>10, <1>11 DEF Next, Pass

\* Every variable keeps its type.
THEOREM TypeCorrect == Spec => []TypeOK
<1>1. Init => TypeOK
  BY TypeInit
<1>2. TypeOK /\ [Next]_vars => TypeOK'
  BY TypeStep
<1> QED  BY <1>1, <1>2, PTL DEF Spec

-----------------------------------------------------------------------------
(* One holder. Unless the mail was overtaken, a worker's mail is PROCESSING  *)
(* and was claimed when its pass was at that point: who finds the claim      *)
(* older than StaleClaim finds a pass that has run for longer than that.     *)

HeldIsFresh == \A w \in Workers : worker[w].mail \in Mails =>
    \/ worker[w].mail \in overtaken
    \/ mail[worker[w].mail].status = "PROCESSING" /\ mail[worker[w].mail].age = worker[w].ran

\* Virtual patrolling takes nothing over.
NoneOvertaken == queue = "vpatrol" => overtaken = {}

Hands == TypeOK /\ HeldIsFresh /\ NoneOvertaken /\ OneHolder

\* What the types say of one worker and of one mail.
LEMMA Typed ==
    ASSUME TypeOK
    PROVE  /\ \A w \in Workers : worker[w] \in WorkerState
           /\ \A w \in Workers : worker[w].mail \in Mails <=> worker[w].at \in {"send", "taken", "failed"}
           /\ \A w \in Workers : worker[w].mail = NoMail <=> worker[w].at \in {"away", "begun", "pass"}
           /\ \A w \in Workers : worker[w].ran \in 0..MaxPass
           /\ \A m \in Mails : mail[m] \in MailState
           /\ \A m \in Mails : mail[m].age \in 0..OldAge /\ mail[m].attempts \in Nat
BY MailsAssumption DEF TypeOK, WorkerState, MailState

\* A mail in the hands of a worker is claimed only if it was overtaken, or its pass
\* is overdue.
LEMMA HeldIsSafe ==
    ASSUME Hands, NEW v \in Workers, NEW w \in Workers, worker[w].mail \in Mails,
           Claimable(worker[w].mail, worker[v].ran)
    PROVE  queue # "vpatrol" /\ (worker[w].mail \in overtaken \/ Overdue(worker[w].mail))
<1>1. CASE worker[w].mail \in overtaken
  BY <1>1 DEF Hands, NoneOvertaken
<1>2. CASE worker[w].mail \notin overtaken
  <2>1. mail[worker[w].mail].status = "PROCESSING" /\ mail[worker[w].mail].age = worker[w].ran
    BY <1>2 DEF Hands, HeldIsFresh
  <2>2. worker[v].ran \in 0..MaxPass /\ worker[w].ran \in 0..MaxPass
    BY Typed DEF Hands
  <2>3. queue # "vpatrol" /\ worker[w].ran - worker[v].ran > StaleClaim
    BY <2>1 DEF Claimable, Waiting, Abandoned
  <2>4. worker[w].ran > StaleClaim
    BY <2>2, <2>3, ConstantTypes
  <2> QED  BY <2>3, <2>4 DEF Overdue
<1> QED  BY <1>1, <1>2

LEMMA StartFacts ==
    ASSUME TypeOK, NEW w \in Workers, BeginPass(w) \/ StartPass(w)
    PROVE  /\ worker[w].mail = NoMail /\ worker'[w].mail = NoMail
           /\ worker[w].at # "taken" /\ worker'[w].at \in {"begun", "pass"}
           /\ \/ worker'[w].list = worker[w].list
              \/ \E L \in SUBSET {m \in Mails : Due(m, worker[w].ran)} :
                   worker'[w].list = {[mail |-> m, attempts |-> mail[m].attempts] : m \in L}
           /\ \A v \in Workers \ {w} : worker'[v] = worker[v]
           /\ UNCHANGED <<queue, mail, accepted, unrecorded, deserted, overtaken, crashes, retries>>
<1>1. CASE BeginPass(w)
  BY <1>1 DEF TypeOK, BeginPass
<1>2. CASE StartPass(w)
  <2>1. PICK L \in SUBSET {m \in Mails : Due(m, worker[w].ran)} :
          worker' = [worker EXCEPT ![w].at = "pass",
                                   ![w].list = {[mail |-> m, attempts |-> mail[m].attempts] : m \in L}]
    BY <1>2 DEF StartPass
  <2> DEFINE list == {[mail |-> m, attempts |-> mail[m].attempts] : m \in L}
  <2>2. worker' = [worker EXCEPT ![w].at = "pass", ![w].list = list]
    BY <2>1
  <2>3. worker[w].mail = NoMail /\ worker[w].at = "begun"
    BY <1>2 DEF TypeOK, StartPass
  <2>4. worker \in [Workers -> WorkerState]
    BY DEF TypeOK, WorkerState
  <2> HIDE DEF list
  <2>5. /\ worker'[w].list = list /\ worker'[w].at = "pass" /\ worker'[w].mail = worker[w].mail
        /\ \A v \in Workers \ {w} : worker'[v] = worker[v]
    BY <2>2, <2>4 DEF WorkerState
  <2>6. \E K \in SUBSET {m \in Mails : Due(m, worker[w].ran)} :
          worker'[w].list = {[mail |-> m, attempts |-> mail[m].attempts] : m \in K}
    BY <2>5 DEF list
  <2>7. UNCHANGED <<queue, mail, accepted, unrecorded, deserted, overtaken, crashes, retries>>
    BY <1>2 DEF StartPass
  <2> QED  BY <2>3, <2>5, <2>6, <2>7
<1> QED  BY <1>1, <1>2

\* The two outcomes of a claim.
Claimed(w, e) ==
    /\ mail[e.mail].status # "SENT"
    /\ \A v \in Workers : worker[v].mail = e.mail => queue # "vpatrol" /\ e.mail \in overtaken'
    /\ overtaken \subseteq overtaken' /\ (queue = "vpatrol" => overtaken' = {})
    /\ queue = "vpatrol" \/ mail[e.mail].attempts < MaxAttempts
    /\ mail' = [mail EXCEPT ![e.mail].status = "PROCESSING", ![e.mail].attempts = @ + 1,
                            ![e.mail].age = worker[w].ran]
    /\ worker' = [worker EXCEPT ![w].at = "send", ![w].list = worker[w].list \ {e},
                                ![w].mail = e.mail, ![w].read = e.attempts]

NotClaimed(w, e) == mail' = mail /\ overtaken' = overtaken /\ worker' = [worker EXCEPT ![w].list = worker[w].list \ {e}]

LEMMA ClaimFacts ==
    ASSUME Hands, NEW w \in Workers, Claim(w)
    PROVE  \E e \in worker[w].list :
             /\ e.mail \in Mails /\ worker[w].at = "pass" /\ worker[w].mail = NoMail
             /\ Claimed(w, e) \/ NotClaimed(w, e)
             /\ UNCHANGED <<queue, accepted, unrecorded, crashes, retries>>
<1>1. PICK e \in worker[w].list : Claim(w)!(e)
  BY DEF Claim
<1>2. e.mail \in Mails /\ worker[w].mail = NoMail
  BY <1>1, Typed DEF Hands, WorkerState
<1>3. CASE Claimable(e.mail, worker[w].ran)
  <2>1. overtaken' = overtaken \cup (IF Overdue(e.mail) THEN {e.mail} ELSE {})
    BY <1>1, <1>3
  <2>2. ASSUME NEW v \in Workers, worker[v].mail = e.mail
        PROVE  queue # "vpatrol" /\ e.mail \in overtaken'
    BY <1>2, <1>3, <2>1, <2>2, HeldIsSafe
  <2>3. Overdue(e.mail) => queue # "vpatrol"
    BY <2>2 DEF Overdue
  <2>4. overtaken \subseteq overtaken' /\ (queue = "vpatrol" => overtaken' = {})
    BY <2>1, <2>3 DEF Hands, NoneOvertaken
  <2>5. /\ mail[e.mail].status # "SENT"
        /\ queue = "vpatrol" \/ mail[e.mail].attempts < MaxAttempts
    BY <1>3 DEF Claimable, Waiting, Abandoned
  <2>6. Claimed(w, e)
    BY <1>1, <1>3, <2>2, <2>4, <2>5 DEF Claimed
  <2> QED  BY <1>1, <1>2, <2>6
<1>4. CASE ~Claimable(e.mail, worker[w].ran)
  BY <1>1, <1>2, <1>4 DEF NotClaimed
<1> QED  BY <1>3, <1>4

LEMMA HandsStep ==
    ASSUME Hands, [Next]_vars
    PROVE  Hands'
<1> USE ConstantTypes
<1> DEFINE Goal == HeldIsFresh /\ NoneOvertaken /\ OneHolder
<1>0. TypeOK /\ TypeOK' /\ HeldIsFresh /\ NoneOvertaken /\ OneHolder
  BY TypeStep DEF Hands
<1>1. ASSUME NEW m \in Mails, Enqueue(m) \/ Retry(m) PROVE Goal'
  <2>1. /\ UNCHANGED <<worker, overtaken, queue>>
        /\ mail[m].status # "PROCESSING" /\ \A n \in Mails \ {m} : mail'[n] = mail[n]
    BY <1>0, <1>1 DEF Enqueue, Retry, TypeOK
  <2> QED  BY <1>0, <2>1 DEF HeldIsFresh, NoneOvertaken, OneHolder
<1>2. ASSUME NEW w \in Workers, BeginPass(w) \/ StartPass(w) PROVE Goal'
  <2>1. /\ worker'[w].mail = NoMail /\ \A v \in Workers \ {w} : worker'[v] = worker[v]
        /\ UNCHANGED <<mail, overtaken, queue>>
    BY <1>0, <1>2, StartFacts
  <2> QED  BY <1>0, <2>1 DEF HeldIsFresh, NoneOvertaken, OneHolder
<1>3. ASSUME NEW w \in Workers, Claim(w) PROVE Goal'
  <2>1. PICK e \in worker[w].list :
          /\ e.mail \in Mails /\ worker[w].mail = NoMail /\ (Claimed(w, e) \/ NotClaimed(w, e))
          /\ queue' = queue
    BY <1>3, ClaimFacts
  <2>2. CASE Claimed(w, e)
    <3>1. worker \in [Workers -> WorkerState]
      BY <1>0 DEF TypeOK, WorkerState
    <3>2. worker' = [worker EXCEPT ![w].at = "send", ![w].list = worker[w].list \ {e},
                                  ![w].mail = e.mail, ![w].read = e.attempts]
      BY <2>2 DEF Claimed
    <3>3. worker'[w].mail = e.mail /\ worker'[w].ran = worker[w].ran
      BY <3>1, <3>2 DEF WorkerState
    <3>4. \A v \in Workers \ {w} : worker'[v] = worker[v]
      BY <3>1, <3>2
    <3>5. /\ mail'[e.mail].status = "PROCESSING" /\ mail'[e.mail].age = worker[w].ran
          /\ \A m \in Mails \ {e.mail} : mail'[m] = mail[m]
      BY <1>0, <2>1, <2>2 DEF Claimed, TypeOK
    <3>6. /\ overtaken \subseteq overtaken' /\ (queue = "vpatrol" => overtaken' = {})
          /\ \A v \in Workers : worker[v].mail = e.mail => queue # "vpatrol" /\ e.mail \in overtaken'
      BY <2>2 DEF Claimed
    <3>7. HeldIsFresh'
      BY <1>0, <2>1, <3>3, <3>4, <3>5, <3>6 DEF HeldIsFresh
    <3>8. OneHolder'
      BY <1>0, <2>1, <3>3, <3>4, <3>6 DEF OneHolder
    <3> QED  BY <2>1, <3>6, <3>7, <3>8 DEF NoneOvertaken
  <2>3. CASE NotClaimed(w, e)
    BY <1>0, <2>1, <2>3, Typed DEF NotClaimed, HeldIsFresh, NoneOvertaken, OneHolder, WorkerState
  <2> QED  BY <2>1, <2>2, <2>3
<1>4. ASSUME NEW w \in Workers, LeaveOut(w) \/ Record(w) \/ RecordFailure(w) PROVE Goal'
  <2>1. /\ worker[w].mail \in Mails /\ worker'[w].mail = NoMail
        /\ \A v \in Workers \ {w} : worker'[v] = worker[v]
        /\ \A m \in Mails \ {worker[w].mail} : mail'[m] = mail[m]
        /\ UNCHANGED <<overtaken, queue>>
    BY <1>0, <1>4, Typed DEF LeaveOut, Record, RecordFailure, GoOn, TypeOK
  <2>2. \A v \in Workers \ {w} : worker[v].mail = worker[w].mail => worker[v].mail \in overtaken
    BY <1>0, <2>1 DEF OneHolder
  <2>3. HeldIsFresh'
    BY <1>0, <2>1, <2>2 DEF HeldIsFresh
  <2> QED  BY <1>0, <2>1, <2>3 DEF NoneOvertaken, OneHolder
<1>5. ASSUME NEW w \in Workers, Deliver(w) \/ Raise(w) PROVE Goal'
  <2>1. \A v \in Workers : worker'[v].mail = worker[v].mail /\ worker'[v].ran = worker[v].ran
    BY <1>0, <1>5, Typed DEF Deliver, Raise, TypeOK, WorkerState
  <2>2. UNCHANGED <<mail, overtaken, queue>>
    BY <1>5 DEF Deliver, Raise
  <2> QED  BY <1>0, <2>1, <2>2 DEF HeldIsFresh, NoneOvertaken, OneHolder
<1>6. ASSUME NEW w \in Workers, EndPass(w) \/ Crash(w) PROVE Goal'
  <2>1. /\ worker'[w].mail = NoMail /\ \A v \in Workers \ {w} : worker'[v] = worker[v]
        /\ UNCHANGED <<mail, overtaken, queue>>
    BY <1>0, <1>6 DEF EndPass, Crash, Away, TypeOK
  <2> QED  BY <1>0, <2>1 DEF HeldIsFresh, NoneOvertaken, OneHolder
<1>7. ASSUME Tick PROVE Goal'
  <2>1. ASSUME NEW w \in Workers
        PROVE  /\ worker'[w].mail = worker[w].mail
               /\ worker[w].mail \in Mails => worker'[w].ran = worker[w].ran + 1 /\ worker[w].ran < MaxPass
    BY <1>0, <1>7, Typed DEF Tick, WorkerState
  <2>2. ASSUME NEW m \in Mails, mail[m].status = "PROCESSING"
        PROVE  mail'[m].status = "PROCESSING" /\ mail'[m].age = Older(mail[m].age)
    BY <1>0, <1>7, <2>2, Typed DEF Tick, MailState
  <2>3. UNCHANGED <<overtaken, queue>>
    BY <1>7 DEF Tick
  <2>4. HeldIsFresh'
    BY <1>0, <2>1, <2>2, <2>3, Typed DEF HeldIsFresh, Older
  <2>5. OneHolder'
    BY <1>0, <2>1, <2>3 DEF OneHolder
  <2> QED  BY <1>0, <2>3, <2>4, <2>5 DEF NoneOvertaken
<1>8. ASSUME UNCHANGED vars PROVE Goal'
  BY <1>0, <1>8 DEF vars, HeldIsFresh, NoneOvertaken, OneHolder
<1>9. Goal'
  BY <1>1, <1>2, <1>3, <1>4, <1>5, <1>6, <1>7, <1>8 DEF Next, Pass
<1> QED  BY <1>0, <1>9 DEF Hands

LEMMA HandsInit == Init => Hands
BY TypeInit, MailsAssumption DEF Init, Hands, HeldIsFresh, NoneOvertaken, OneHolder, Away

\* Two workers have a mail in hand only if a pass outlasted STALE_CLAIM over it.
THEOREM MailHasOneHolder == Spec => []OneHolder
<1>1. Init => Hands
  BY HandsInit
<1>2. Hands /\ [Next]_vars => Hands'
  BY HandsStep
<1>3. Hands => OneHolder
  BY DEF Hands
<1> QED  BY <1>1, <1>2, <1>3, PTL DEF Spec

-----------------------------------------------------------------------------
(* A mail that was sent stays SENT: what is in a worker's hands is not SENT  *)
(* unless it was overtaken, and nothing else that changes a mail takes it.   *)

LEMMA SentKept ==
    ASSUME Hands, [Next]_vars, NEW m \in Mails, mail[m].status = "SENT", m \notin overtaken
    PROVE  mail'[m].status = "SENT"
<1>0. TypeOK /\ \A w \in Workers : worker[w].mail # m
  BY DEF Hands, HeldIsFresh
<1>1. ASSUME NEW n \in Mails, Enqueue(n) \/ Retry(n) PROVE mail'[m].status = "SENT"
  BY <1>0, <1>1 DEF Enqueue, Retry, TypeOK
<1>2. ASSUME NEW w \in Workers, Claim(w) PROVE mail'[m].status = "SENT"
  <2>1. PICK e \in worker[w].list : e.mail \in Mails /\ (Claimed(w, e) \/ NotClaimed(w, e))
    BY <1>2, ClaimFacts
  <2>2. Claimed(w, e) => e.mail # m
    BY DEF Claimed
  <2> QED  BY <1>0, <2>1, <2>2 DEF Claimed, NotClaimed, TypeOK
<1>3. ASSUME NEW w \in Workers, LeaveOut(w) \/ Record(w) \/ RecordFailure(w) PROVE mail'[m].status = "SENT"
  <2>1. worker[w].mail \in Mails
    BY <1>0, <1>3, Typed DEF LeaveOut, Record, RecordFailure
  <2> QED  BY <1>0, <1>3, <2>1 DEF LeaveOut, Record, RecordFailure, TypeOK
<1>4. ASSUME NEW w \in Workers,
             BeginPass(w) \/ StartPass(w) \/ Deliver(w) \/ Raise(w) \/ EndPass(w) \/ Crash(w)
      PROVE  mail'[m].status = "SENT"
  BY <1>4 DEF BeginPass, StartPass, Deliver, Raise, EndPass, Crash
<1>5. CASE Tick
  BY <1>0, <1>5, Typed DEF Tick, MailState
<1>6. CASE UNCHANGED vars
  BY <1>6 DEF vars
<1> QED  BY <1>1, <1>2, <1>3, <1>4, <1>5, <1>6 DEF Next, Pass

\* Only a pass that was overtaken makes a sent mail FAILED.
THEOREM SentMailStaysSent == Spec => SentStays
<1>1. Init => Hands
  BY HandsInit
<1>2. Hands /\ [Next]_vars => Hands'
  BY HandsStep
<1>3. Hands /\ [Next]_vars => [\A m \in Mails :
          mail[m].status = "SENT" /\ mail'[m].status # "SENT" => m \in overtaken]_vars
  BY SentKept
<1> QED  BY <1>1, <1>2, <1>3, PTL DEF Spec, SentStays

-----------------------------------------------------------------------------
(* A mail that the server took is SENT, or still in the hands of the worker  *)
(* that handed it over, or else its record failed or it was overtaken.       *)

Taken(m) == \E w \in Workers : worker[w].mail = m /\ worker[w].at = "taken"

Accounted(m) ==
    /\ accepted[m] >= 1 => m \in unrecorded \cup overtaken \/ mail[m].status = "SENT" \/ Taken(m)
    /\ accepted[m] > 1 => m \in unrecorded \cup overtaken

Once == Hands /\ \A m \in Mails : Accounted(m)

LEMMA OnceStep ==
    ASSUME Once, [Next]_vars
    PROVE  Once'
<1>0. Hands /\ TypeOK /\ Hands' /\ TypeOK'
  BY HandsStep DEF Once, Hands
<1> SUFFICES ASSUME NEW m \in Mails PROVE Accounted(m)'
  BY <1>0 DEF Once
<1>1. /\ Accounted(m) /\ accepted[m] \in Nat
      /\ mail[m].status = "SENT" /\ m \notin overtaken => mail'[m].status = "SENT"
  BY <1>0, SentKept DEF Once, TypeOK
\* Most steps neither deliver nor end what a worker was handing over.
<1>2. ASSUME accepted'[m] = accepted[m], unrecorded \subseteq unrecorded', overtaken \subseteq overtaken',
             Taken(m) => Taken(m)'
      PROVE  Accounted(m)'
  BY <1>1, <1>2 DEF Accounted
<1>3. ASSUME NEW n \in Mails, Enqueue(n) \/ Retry(n) PROVE Accounted(m)'
  BY <1>2, <1>3 DEF Enqueue, Retry, Taken
<1>4. ASSUME NEW w \in Workers, BeginPass(w) \/ StartPass(w) PROVE Accounted(m)'
  BY <1>0, <1>2, <1>4, StartFacts DEF Taken
<1>5. ASSUME NEW w \in Workers, Claim(w) PROVE Accounted(m)'
  <2>1. PICK e \in worker[w].list :
          /\ e.mail \in Mails /\ worker[w].at = "pass" /\ (Claimed(w, e) \/ NotClaimed(w, e))
          /\ UNCHANGED <<queue, accepted, unrecorded, crashes, retries>>
    BY <1>0, <1>5, ClaimFacts
  <2>2. \A v \in Workers \ {w} : worker'[v] = worker[v]
    BY <1>0, <2>1 DEF Claimed, NotClaimed, TypeOK
  <2>3. overtaken \subseteq overtaken'
    BY <2>1 DEF Claimed, NotClaimed
  <2> QED  BY <1>2, <2>1, <2>2, <2>3 DEF Taken
<1>6. ASSUME NEW w \in Workers, LeaveOut(w) \/ RecordFailure(w) \/ EndPass(w) PROVE Accounted(m)'
  <2>1. worker[w].at # "taken" /\ \A v \in Workers \ {w} : worker'[v] = worker[v]
    BY <1>0, <1>6 DEF LeaveOut, RecordFailure, EndPass, GoOn, TypeOK
  <2> QED  BY <1>2, <1>6, <2>1 DEF LeaveOut, RecordFailure, EndPass, Taken
<1>7. ASSUME NEW w \in Workers, Deliver(w) PROVE Accounted(m)'
  <2>1. /\ worker[w].mail \in Mails /\ worker[w].at = "send"
        /\ worker'[w].mail = worker[w].mail /\ worker'[w].at = "taken"
        /\ \A v \in Workers \ {w} : worker'[v] = worker[v]
        /\ accepted' = [accepted EXCEPT ![worker[w].mail] = @ + 1]
        /\ UNCHANGED <<unrecorded, overtaken>>
    BY <1>0, <1>7, Typed DEF Deliver, TypeOK
  <2>2. CASE worker[w].mail = m
    <3>1. m \in overtaken \/ (mail[m].status # "SENT" /\ ~Taken(m))
      BY <1>0, <2>1, <2>2, ConstantTypes DEF Hands, HeldIsFresh, OneHolder, Taken
    <3>2. accepted'[m] = accepted[m] + 1 /\ Taken(m)'
      BY <1>0, <2>1, <2>2 DEF TypeOK, Taken
    <3> QED  BY <1>1, <2>1, <3>1, <3>2 DEF Accounted
  <2>3. CASE worker[w].mail # m
    <3>1. accepted'[m] = accepted[m]
      BY <1>0, <2>1, <2>3 DEF TypeOK
    <3> QED  BY <1>2, <2>1, <2>3, <3>1 DEF Taken
  <2> QED  BY <2>2, <2>3
<1>8. ASSUME NEW w \in Workers, Record(w) PROVE Accounted(m)'
  <2>1. /\ worker[w].mail \in Mails /\ \A v \in Workers \ {w} : worker'[v] = worker[v]
        /\ mail'[worker[w].mail].status = "SENT" /\ UNCHANGED <<accepted, unrecorded, overtaken>>
    BY <1>0, <1>8, Typed DEF Record, GoOn, TypeOK
  <2>2. CASE worker[w].mail = m
    BY <1>1, <2>1, <2>2 DEF Accounted
  <2>3. CASE worker[w].mail # m
    BY <1>2, <2>1, <2>3 DEF Taken
  <2> QED  BY <2>2, <2>3
<1>9. ASSUME NEW w \in Workers, Raise(w) \/ Crash(w) PROVE Accounted(m)'
  <2>1. /\ \A v \in Workers \ {w} : worker'[v] = worker[v]
        /\ UNCHANGED <<accepted, overtaken>> /\ unrecorded' = unrecorded \cup Forgotten({w})
    BY <1>0, <1>9 DEF Raise, Crash, TypeOK
  <2>2. CASE worker[w].mail = m /\ worker[w].at = "taken"
    <3>1. m \in unrecorded'
      BY <2>1, <2>2 DEF Forgotten
    <3> QED  BY <3>1 DEF Accounted
  <2>3. CASE ~(worker[w].mail = m /\ worker[w].at = "taken")
    BY <1>2, <2>1, <2>3 DEF Taken
  <2> QED  BY <2>2, <2>3
<1>10. CASE Tick
  <2>1. \A w \in Workers : worker'[w].mail = worker[w].mail /\ worker'[w].at = worker[w].at
    BY <1>0, <1>10, Typed DEF Tick, WorkerState
  <2> QED  BY <1>2, <1>10, <2>1 DEF Tick, Taken
<1>11. CASE UNCHANGED vars
  BY <1>2, <1>11 DEF vars, Taken
<1> QED  BY <1>3, <1>4, <1>5, <1>6, <1>7, <1>8, <1>9, <1>10, <1>11 DEF Next, Pass

\* A second delivery needs a failure between the server's word and its record, or a
\* pass that was overtaken.
THEOREM SecondDeliveryNeedsFailure == Spec => []TwiceOnlyUnrecorded
<1>1. Init => Once
  <2>1. Init => \A m \in Mails : accepted[m] = 0
    BY DEF Init
  <2> QED  BY <2>1, HandsInit DEF Once, Accounted
<1>2. Once /\ [Next]_vars => Once'
  BY OnceStep
<1>3. Once => TwiceOnlyUnrecorded
  BY DEF Once, Accounted, TwiceOnlyUnrecorded
<1> QED  BY <1>1, <1>2, <1>3, PTL DEF Spec

-----------------------------------------------------------------------------
(* Attempts. The claim of drone and operations mails asks for an attempt     *)
(* that is left. That of virtual patrolling does not, but only a worker      *)
(* that listed the mail while one was left can claim it, once: attempts and  *)
(* the workers that still list it are bounded together.                      *)

Lists(w, m) == \E e \in worker[w].list : e.mail = m

Listers(m) == {w \in Workers : Lists(w, m)}

\* A list names a mail once.
ListsAreSets ==
    /\ \A w \in Workers : worker[w].at = "away" => worker[w].list = {}
    /\ \A w \in Workers : \A e, f \in worker[w].list : e.mail = f.mail => e = f

Effort(m) ==
    IF queue = "vpatrol" THEN mail[m].attempts + Cardinality(Listers(m)) <= MaxAttempts - 1 + Cardinality(Workers)
    ELSE mail[m].attempts <= MaxAttempts

Bounded == Hands /\ ListsAreSets /\ \A m \in Mails : Effort(m)

\* A set of workers has at most as many members as there are workers.
LEMMA WorkersBound ==
    ASSUME NEW S \in SUBSET Workers, NEW T \in SUBSET S
    PROVE  /\ Cardinality(T) \in Nat /\ Cardinality(S) \in Nat /\ Cardinality(Workers) \in Nat
           /\ Cardinality(T) <= Cardinality(S) /\ Cardinality(S) <= Cardinality(Workers)
<1>1. IsFiniteSet(S) /\ Cardinality(S) <= Cardinality(Workers)
  BY FS_Subset, MailsAssumption
<1>2. IsFiniteSet(T) /\ Cardinality(T) <= Cardinality(S)
  BY <1>1, FS_Subset
<1> QED  BY <1>1, <1>2, FS_CardinalityType, MailsAssumption

\* Nothing is exceeded by a step that adds neither attempts nor listers.
LEMMA EffortKept ==
    ASSUME TypeOK, NEW m \in Mails, Effort(m), queue' = queue, mail'[m].attempts = mail[m].attempts,
           \A w \in Workers : Lists(w, m)' => Lists(w, m)
    PROVE  Effort(m)'
<1>1. Listers(m)' \subseteq Listers(m) /\ Listers(m) \subseteq Workers
  BY DEF Listers
<1>2. Cardinality(Listers(m)') \in Nat /\ Cardinality(Listers(m)') <= Cardinality(Listers(m))
      /\ Cardinality(Listers(m)) \in Nat /\ Cardinality(Workers) \in Nat
  BY <1>1, WorkersBound
<1>3. mail[m].attempts \in Nat
  BY Typed
<1> QED  BY <1>2, <1>3, ConstantTypes DEF Effort

\* Nor by one after which an attempt is left.
LEMMA EffortLeft ==
    ASSUME NEW m \in Mails, mail'[m].attempts \in Nat, mail'[m].attempts < MaxAttempts
    PROVE  Effort(m)'
<1>1. Listers(m)' \subseteq Workers
  BY DEF Listers
<1>2. Cardinality(Listers(m)') \in Nat /\ Cardinality(Workers) \in Nat
      /\ Cardinality(Listers(m)') <= Cardinality(Workers)
  BY <1>1, WorkersBound
<1> QED  BY <1>2, ConstantTypes DEF Effort

LEMMA BoundedStep ==
    ASSUME Bounded, [Next]_vars
    PROVE  Bounded'
<1>0. Hands /\ TypeOK /\ Hands' /\ TypeOK' /\ ListsAreSets /\ \A m \in Mails : Effort(m)
  BY HandsStep DEF Bounded, Hands
\* A step of worker w that touches no attempts and lists nothing new.
<1>1. ASSUME NEW w \in Workers, \A v \in Workers \ {w} : worker'[v] = worker[v],
             worker'[w].list \subseteq worker[w].list, worker'[w].at = "away" => worker'[w].list = {},
             queue' = queue, \A m \in Mails : mail'[m].attempts = mail[m].attempts
      PROVE  Bounded'
  <2>1. ListsAreSets'
    BY <1>0, <1>1 DEF ListsAreSets
  <2>2. ASSUME NEW m \in Mails PROVE Effort(m)'
    <3>1. \A v \in Workers : Lists(v, m)' => Lists(v, m)
      BY <1>1 DEF Lists
    <3> QED  BY <1>0, <1>1, <3>1, EffortKept
  <2> QED  BY <1>0, <2>1, <2>2 DEF Bounded
<1>2. ASSUME NEW n \in Mails, Enqueue(n) \/ Retry(n) PROVE Bounded'
  <2>1. queue' = queue /\ worker' = worker
    BY <1>2 DEF Enqueue, Retry
  <2>2. ASSUME NEW m \in Mails PROVE Effort(m)'
    <3>1. mail'[m].attempts = mail[m].attempts \/ mail'[m].attempts = 0
      BY <1>0, <1>2 DEF Enqueue, Retry, TypeOK
    <3>2. CASE mail'[m].attempts = mail[m].attempts
      <4>1. \A v \in Workers : Lists(v, m)' => Lists(v, m)
        BY <2>1 DEF Lists
      <4> QED  BY <1>0, <2>1, <3>2, <4>1, EffortKept
    <3>3. CASE mail'[m].attempts = 0
      BY <3>3, EffortLeft, ConstantTypes
    <3> QED  BY <3>1, <3>2, <3>3
  <2>3. ListsAreSets'
    BY <1>0, <2>1 DEF ListsAreSets
  <2> QED  BY <1>0, <2>2, <2>3 DEF Bounded
<1>3. ASSUME NEW w \in Workers, BeginPass(w) \/ StartPass(w) PROVE Bounded'
  <2>1. /\ worker'[w].at \in {"begun", "pass"} /\ \A v \in Workers \ {w} : worker'[v] = worker[v]
        /\ queue' = queue /\ mail' = mail
    BY <1>0, <1>3, StartFacts
  <2>2. CASE worker'[w].list = worker[w].list
    BY <1>1, <2>1, <2>2
  <2>3. CASE worker'[w].list # worker[w].list
    <3>1. PICK L \in SUBSET {m \in Mails : Due(m, worker[w].ran)} :
            worker'[w].list = {[mail |-> m, attempts |-> mail[m].attempts] : m \in L}
      BY <1>0, <1>3, <2>3, StartFacts
    <3>2. ListsAreSets'
      <4>1. \A e, f \in worker'[w].list : e.mail = f.mail => e = f
        BY <3>1
      <4> QED  BY <1>0, <2>1, <4>1 DEF ListsAreSets
    <3>3. ASSUME NEW m \in Mails PROVE Effort(m)'
      <4>1. CASE m \in L
        <5>1. mail'[m].attempts < MaxAttempts /\ mail'[m].attempts \in Nat
          BY <1>0, <2>1, <4>1, Typed DEF Due
        <5> QED  BY <5>1, EffortLeft
      <4>2. CASE m \notin L
        <5>1. ~Lists(w, m)'
          BY <3>1, <4>2 DEF Lists
        <5>2. \A v \in Workers : Lists(v, m)' => Lists(v, m)
          BY <2>1, <5>1 DEF Lists
        <5> QED  BY <1>0, <2>1, <5>2, EffortKept
      <4> QED  BY <4>1, <4>2
    <3> QED  BY <1>0, <3>2, <3>3 DEF Bounded
  <2> QED  BY <2>2, <2>3
<1>4. ASSUME NEW w \in Workers, Claim(w) PROVE Bounded'
  <2>1. PICK e \in worker[w].list :
          /\ e.mail \in Mails /\ worker[w].at = "pass" /\ queue' = queue
          /\ Claimed(w, e) \/ NotClaimed(w, e)
    BY <1>0, <1>4, ClaimFacts
  <2>2. /\ worker'[w].list = worker[w].list \ {e} /\ worker'[w].at # "away"
        /\ \A v \in Workers \ {w} : worker'[v] = worker[v]
    BY <1>0, <2>1 DEF Claimed, NotClaimed, TypeOK
  <2>3. CASE NotClaimed(w, e)
    BY <1>1, <2>1, <2>2, <2>3 DEF NotClaimed
  <2>4. CASE Claimed(w, e)
    <3>1. ListsAreSets'
      BY <1>0, <2>2 DEF ListsAreSets
    <3>2. ASSUME NEW m \in Mails PROVE Effort(m)'
      <4>1. \A v \in Workers : Lists(v, m)' => Lists(v, m)
        BY <2>2 DEF Lists
      <4>2. CASE m # e.mail
        <5>1. mail'[m].attempts = mail[m].attempts
          BY <1>0, <2>1, <2>4, <4>2 DEF Claimed, TypeOK
        <5> QED  BY <1>0, <2>1, <4>1, <5>1, EffortKept
      <4>3. CASE m = e.mail
        <5>1. mail'[m].attempts = mail[m].attempts + 1 /\ mail[m].attempts \in Nat
          <6>1. mail \in [Mails -> MailState] /\ mail[m].attempts \in Nat
            BY <1>0, Typed DEF TypeOK, MailState
          <6>2. mail' = [mail EXCEPT ![m].status = "PROCESSING", ![m].attempts = @ + 1, ![m].age = worker[w].ran]
            BY <2>4, <4>3 DEF Claimed
          <6> QED  BY <6>1, <6>2 DEF MailState
        <5>2. Lists(w, m) /\ ~Lists(w, m)' /\ \A v \in Workers \ {w} : Lists(v, m)' <=> Lists(v, m)
          BY <1>0, <2>1, <2>2, <4>3 DEF Lists, ListsAreSets
        <5>3. Listers(m)' = Listers(m) \ {w} /\ w \in Listers(m) /\ Listers(m) \subseteq Workers
          BY <5>2 DEF Listers
        <5>4. Cardinality(Listers(m)') = Cardinality(Listers(m)) - 1
          BY <5>3, FS_Subset, FS_RemoveElement, MailsAssumption
        <5>5. Cardinality(Listers(m)) \in Nat /\ Cardinality(Workers) \in Nat
          BY <5>3, WorkersBound
        <5>6. queue = "vpatrol" \/ mail[m].attempts < MaxAttempts
          BY <2>4, <4>3 DEF Claimed
        <5>7. Effort(m) /\ queue' = queue
          BY <1>0, <2>1
        <5> QED  BY <5>1, <5>4, <5>5, <5>6, <5>7, ConstantTypes DEF Effort
      <4> QED  BY <4>2, <4>3
    <3> QED  BY <1>0, <3>1, <3>2 DEF Bounded
  <2> QED  BY <2>1, <2>3, <2>4
<1>5. ASSUME NEW w \in Workers, LeaveOut(w) \/ Record(w) \/ RecordFailure(w) PROVE Bounded'
  <2>1. /\ \A v \in Workers \ {w} : worker'[v] = worker[v]
        /\ worker'[w].list = worker[w].list /\ worker'[w].at = "pass"
    BY <1>0, <1>5 DEF LeaveOut, Record, RecordFailure, GoOn, TypeOK
  <2>2. \A m \in Mails : mail'[m].attempts = mail[m].attempts
    <3> SUFFICES ASSUME NEW m \in Mails PROVE mail'[m].attempts = mail[m].attempts
      OBVIOUS
    <3>0. mail \in [Mails -> MailState]
      BY <1>0 DEF TypeOK, MailState
    <3>1. CASE LeaveOut(w)
      BY <3>0, <3>1 DEF LeaveOut, MailState
    <3>2. CASE Record(w)
      BY <3>0, <3>2 DEF Record, MailState
    <3>3. CASE RecordFailure(w)
      <4> DEFINE wait == Backoff[Least(worker[w].read + 1, MaxAttempts)] - worker[w].ran
      <4>1. mail' = [mail EXCEPT ![worker[w].mail].status = "FAILED", ![worker[w].mail].wait = wait]
        BY <3>3 DEF RecordFailure
      <4> HIDE DEF wait
      <4> QED  BY <3>0, <4>1 DEF MailState
    <3> QED  BY <1>5, <3>1, <3>2, <3>3
  <2>3. queue' = queue
    BY <1>5 DEF LeaveOut, Record, RecordFailure
  <2> QED  BY <1>1, <2>1, <2>2, <2>3
<1>6. ASSUME NEW w \in Workers, Deliver(w) \/ Raise(w) PROVE Bounded'
  <2>1. /\ \A v \in Workers \ {w} : worker'[v] = worker[v]
        /\ worker'[w].list = worker[w].list /\ worker'[w].at # "away"
    BY <1>0, <1>6 DEF Deliver, Raise, TypeOK
  <2> QED  BY <1>1, <1>6, <2>1 DEF Deliver, Raise
<1>7. ASSUME NEW w \in Workers, EndPass(w) \/ Crash(w) PROVE Bounded'
  <2>1. worker'[w].list = {} /\ \A v \in Workers \ {w} : worker'[v] = worker[v]
    BY <1>0, <1>7 DEF EndPass, Crash, Away, TypeOK
  <2> QED  BY <1>1, <1>7, <2>1 DEF EndPass, Crash
<1>8. CASE Tick
  <2>1. \A w \in Workers : worker'[w].list = worker[w].list /\ worker'[w].at = worker[w].at
    BY <1>0, <1>8, Typed DEF Tick, WorkerState
  <2>2. \A m \in Mails : mail'[m].attempts = mail[m].attempts
    BY <1>0, <1>8, Typed DEF Tick, MailState
  <2>3. ASSUME NEW m \in Mails PROVE Effort(m)'
    BY <1>0, <1>8, <2>1, <2>2, EffortKept DEF Tick, Lists
  <2>4. ListsAreSets'
    BY <1>0, <2>1 DEF ListsAreSets
  <2> QED  BY <1>0, <2>3, <2>4 DEF Bounded
<1>9. CASE UNCHANGED vars
  <2>1. ASSUME NEW m \in Mails PROVE Effort(m)'
    BY <1>0, <1>9, EffortKept DEF vars, Lists
  <2> QED  BY <1>0, <1>9, <2>1 DEF vars, ListsAreSets, Bounded
<1> QED  BY <1>2, <1>3, <1>4, <1>5, <1>6, <1>7, <1>8, <1>9 DEF Next, Pass

LEMMA BoundedInit == Init => Bounded
<1> SUFFICES ASSUME Init PROVE Bounded
  OBVIOUS
<1>1. \A w \in Workers : worker[w].list = {}
  BY DEF Init, Away
<1>2. ASSUME NEW m \in Mails PROVE Effort(m)
  <2>1. mail[m].attempts = 0
    BY DEF Init, Unqueued
  <2>2. Listers(m) \subseteq Workers
    BY DEF Listers
  <2> QED  BY <2>1, <2>2, WorkersBound, ConstantTypes DEF Effort
<1> QED  BY <1>1, <1>2, HandsInit DEF Bounded, ListsAreSets

LEMMA BoundedEnough == Bounded => EffortBounded
<1> SUFFICES ASSUME Bounded, NEW m \in Mails
             PROVE  mail[m].attempts <= MaxAttempts + (IF queue = "vpatrol" THEN Cardinality(Workers) - 1 ELSE 0)
  BY DEF EffortBounded
<1>1. Effort(m) /\ mail[m].attempts \in Nat
  BY Typed DEF Bounded, Hands
<1>2. Listers(m) \subseteq Workers
  BY DEF Listers
<1>3. Cardinality(Listers(m)) \in Nat /\ Cardinality(Workers) \in Nat
  BY <1>2, WorkersBound
<1> QED  BY <1>1, <1>3, ConstantTypes DEF Effort

\* A mail is tried MAX_ATTEMPTS times between two requests of an operator, and in
\* the queue of virtual patrolling at most once more for each further worker.
THEOREM AttemptsAreBounded == Spec => []EffortBounded
<1>1. Init => Bounded
  BY BoundedInit
<1>2. Bounded /\ [Next]_vars => Bounded'
  BY BoundedStep
<1>3. Bounded => EffortBounded
  BY BoundedEnough
<1> QED  BY <1>1, <1>2, <1>3, PTL DEF Spec

=============================================================================
