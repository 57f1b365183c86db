-------------------------- MODULE DroneFlightProofs --------------------------
(* Proofs about DroneFlight, for every value of its constants.              *)
EXTENDS DroneFlight, SequenceTheorems, TLAPS

LEMMA ConstantTypes ==
    /\ Edge \subseteq Sessions /\ None \notin Sessions /\ None \notin Edge /\ None \notin Commands
    /\ Kinds \subseteq AllKinds /\ MaxUpdates \in Nat /\ MaxUpdates >= 1 /\ MaxCrashes \in Nat
    /\ 0 \in 0..MaxUpdates
BY SessionsAssumption, BoundsAssumption

-----------------------------------------------------------------------------
(* Types.                                                                   *)

Statuses == InFlight \cup Terminal \cup {"none"}

FlightRec == [status : Statuses, code : Codes, claimed : BOOLEAN, seq : 0..MaxUpdates,
              silent : BOOLEAN, late : BOOLEAN]
CmdRec == [kind : AllKinds \cup {"none"}, s : Sessions \cup {None},
           status : Answers \cup {"none", "checked", "PENDING"}]
LocalRec == [known : BOOLEAN, started : BOOLEAN, phase : Airborne \cup {"none", "LANDED"},
             outcome : Outcomes \cup {"none"}, log : Seq(Update), sent : 0..MaxUpdates]
InboxRec == [at : {"none", "open", "done", "sent"}, result : Answers \cup {"none"}, after : 0..MaxUpdates]
PcRec == [at : {"idle", "called", "recorded", "claim", "granted"}, s : Sessions \cup {None},
          c : Commands \cup {None}, up : Update \cup {None}]
MailRec == [claimed : SUBSET Edge, ready : SUBSET Edge, commands : SUBSET Commands, sent : BOOLEAN]
AirRec == [at : Airborne \cup {"GROUND", "LANDED"}, ordered : BOOLEAN, fault : BOOLEAN,
           result : Outcomes \cup {"none"}]

Typed ==
    /\ flight \in [Sessions -> FlightRec] /\ cmd \in [Commands -> CmdRec]
    /\ listed \in SUBSET Commands /\ watched \in SUBSET Edge
    /\ local \in [Edge -> LocalRec] /\ inbox \in [Commands -> InboxRec]
    /\ pc \in PcRec /\ mail \in MailRec
    /\ ready \in SUBSET Edge /\ claims \in SUBSET Edge
    /\ air \in [Sessions -> AirRec] /\ crashes \in 0..MaxCrashes
    /\ hands \in [Commands -> SUBSET {"runner", "gateway"}]

\* What the types of the gateway's log rest on: the centre has recorded no more than
\* was sent, and no more was sent than there is; nothing is logged of a drone on the
\* ground.
Logged(s) ==
    /\ flight[s].seq <= local[s].sent /\ local[s].sent <= Len(local[s].log)
    /\ Len(local[s].log) <= MaxUpdates
    /\ local[s].started \/ local[s].log # <<>> => air[s].at # "GROUND"

\* A command that was given is about a session, and one collected about a gateway's.
Given(c) ==
    /\ cmd[c].status # "none" => cmd[c].s \in Sessions /\ cmd[c].kind \in AllKinds
    /\ inbox[c].at # "none" \/ c \in mail.commands => cmd[c].status # "none" /\ cmd[c].s \in Edge
    /\ inbox[c].at \in {"done", "sent"} => inbox[c].result \in Answers

\* What the gateway is in the middle of.
Busy ==
    /\ mail # NoMail \/ pc.at = "idle" => pc = Idle
    /\ pc.at # "idle" => pc.s \in Edge
    /\ pc.at = "called" => pc.up \in Update /\ Room(pc.s) /\ air[pc.s].at # "GROUND"
    /\ pc.at = "recorded" => pc.c # None
    /\ pc.c # None => inbox[pc.c].at = "open" /\ cmd[pc.c].s = pc.s

TypeInv == Typed /\ Busy /\ (\A s \in Edge : Logged(s)) /\ \A c \in Commands : Given(c)

LEMMA TypedIsTypeOK == TypeInv => TypeOK
<1> SUFFICES ASSUME TypeInv PROVE TypeOK
  OBVIOUS
<1>1. pc.at \in {"idle", "called", "recorded", "claim", "granted"}
  BY DEF TypeInv, Typed, PcRec
<1>2. mail.claimed \subseteq Edge /\ mail.ready \subseteq Edge /\ mail.commands \subseteq Commands
  BY DEF TypeInv, Typed, MailRec
<1> QED  BY <1>1, <1>2 DEF TypeInv, Typed, TypeOK, Logged, FlightRec, CmdRec, LocalRec, InboxRec, AirRec, Statuses

\* The ways in which a record is written keep its type.
LEMMA FlightTypes ==
    ASSUME NEW f \in FlightRec
    PROVE  /\ \A status \in Statuses : [f EXCEPT !.status = status] \in FlightRec
           /\ \A status \in Statuses, code \in Codes : [f EXCEPT !.status = status, !.code = code] \in FlightRec
           /\ \A status \in Statuses : [f EXCEPT !.status = status, !.claimed = TRUE] \in FlightRec
           /\ \A silent \in BOOLEAN : [f EXCEPT !.silent = silent] \in FlightRec
           /\ [f EXCEPT !.late = TRUE] \in FlightRec
           /\ [f EXCEPT !.code = "none"] \in FlightRec
           /\ \A n \in 0..MaxUpdates : [f EXCEPT !.seq = n] \in FlightRec
<1>1. \A status \in Statuses : [f EXCEPT !.status = status] \in FlightRec
  BY Zenon DEF FlightRec
<1>2. \A status \in Statuses, code \in Codes : [f EXCEPT !.status = status, !.code = code] \in FlightRec
  BY Zenon DEF FlightRec
<1>3. \A status \in Statuses : [f EXCEPT !.status = status, !.claimed = TRUE] \in FlightRec
  BY Zenon DEF FlightRec
<1>4. \A silent \in BOOLEAN : [f EXCEPT !.silent = silent] \in FlightRec
  BY Zenon DEF FlightRec
<1>5. [f EXCEPT !.late = TRUE] \in FlightRec
  BY Zenon DEF FlightRec
<1>6. [f EXCEPT !.code = "none"] \in FlightRec
  BY Zenon DEF FlightRec, Codes
<1>7. \A n \in 0..MaxUpdates : [f EXCEPT !.seq = n] \in FlightRec
  BY Zenon DEF FlightRec
<1> QED  BY <1>1, <1>2, <1>3, <1>4, <1>5, <1>6, <1>7

LEMMA UpdateTypes ==
    /\ \A a \in AirRec, launched \in BOOLEAN : a.at # "GROUND" => Report(a, launched) \in Update
    /\ \A a \in AirRec, launched \in BOOLEAN :
         /\ Report(a, launched).phase = a.at /\ Report(a, launched).outcome = a.result
         /\ Report(a, launched).fault = a.fault /\ a.result \in Outcomes \cup {"none"}
    /\ \A up \in Update : [up EXCEPT !.phase = "LANDED"] \in Update
<1>1. ASSUME NEW a \in AirRec, NEW launched \in BOOLEAN, a.at # "GROUND" PROVE Report(a, launched) \in Update
  <2>1. a.at \in Airborne \cup {"LANDED"} /\ a.result \in Outcomes \cup {"none"}
    BY <1>1 DEF AirRec
  <2>2. a.fault \in BOOLEAN
    BY Zenon DEF AirRec
  <2> QED  BY <2>1, <2>2, Zenon DEF Report, Update
<1>2. ASSUME NEW a \in AirRec, NEW launched \in BOOLEAN
      PROVE  /\ Report(a, launched).phase = a.at /\ Report(a, launched).outcome = a.result
             /\ Report(a, launched).fault = a.fault /\ a.result \in Outcomes \cup {"none"}
  BY DEF Report, AirRec
<1>3. ASSUME NEW up \in Update PROVE [up EXCEPT !.phase = "LANDED"] \in Update
  BY Zenon DEF Update
<1> QED  BY <1>1, <1>2, <1>3

\* One update onto the record.
LEMMA RecordedTypes ==
    ASSUME NEW f \in FlightRec, NEW up, up.outcome \in Outcomes \cup {"none"}
    PROVE  LET g == Recorded(f, up)
           IN  /\ g \in FlightRec
               /\ g.claimed = f.claimed /\ g.seq = f.seq
               /\ g.code = IF up.fault THEN "FAULT" ELSE f.code
               /\ g.status = IF up.outcome # "none" THEN up.outcome
                             ELSE IF up.phase \in Airborne THEN up.phase ELSE f.status
               /\ f.status # "none" => g.status # "none"
<1> DEFINE status == IF up.outcome # "none" THEN up.outcome
                     ELSE IF up.phase \in Airborne THEN up.phase ELSE f.status
           code == IF up.fault THEN "FAULT" ELSE f.code
           r == [f EXCEPT !.status = status, !.code = code]
<1>1. status \in Statuses
  BY DEF FlightRec, Statuses, InFlight, Terminal
<1>2. code \in Codes
  BY DEF FlightRec, Codes
<1>3. Recorded(f, up) = r
  BY Zenon DEF Recorded
<1>6. f.status # "none" => status # "none"
  BY DEF Airborne
<1> HIDE DEF status, code
<1>4. r \in FlightRec
  BY <1>1, <1>2, FlightTypes
<1>5. r.claimed = f.claimed /\ r.seq = f.seq /\ r.code = code /\ r.status = status
  BY DEF FlightRec
<1> QED  BY <1>3, <1>4, <1>5, <1>6 DEF status, code

\* An update of a flight that may be over already.
LEMMA CorrectedTypes ==
    ASSUME NEW f \in FlightRec, NEW up \in Update
    PROVE  LET g == Corrected(f, up)
           IN  /\ g \in FlightRec /\ g.claimed = f.claimed /\ g.seq = f.seq
               /\ f.status \notin Terminal \/ up.outcome # "none" =>
                    g.status = IF up.outcome # "none" THEN up.outcome
                               ELSE IF up.phase \in Airborne THEN up.phase ELSE f.status
               /\ f.status \in Terminal /\ up.outcome = "none" => g.status = f.status
               /\ ~up.fault => g.code = IF f.status \in Terminal /\ up.outcome # "none" THEN "none" ELSE f.code
<1>0. up.outcome \in Outcomes \cup {"none"}
  BY DEF Update
<1>1. CASE f.status \notin Terminal
  BY <1>0, <1>1, RecordedTypes DEF Corrected
<1>2. CASE f.status \in Terminal /\ up.outcome # "none"
  <2> DEFINE e == [f EXCEPT !.code = "none"]
  <2>1. e \in FlightRec
    BY FlightTypes
  <2>2. e.claimed = f.claimed /\ e.seq = f.seq /\ e.code = "none"
    BY DEF FlightRec
  <2>3. Corrected(f, up) = Recorded(e, up)
    BY <1>2 DEF Corrected
  <2> HIDE DEF e
  <2> QED  BY <1>0, <1>2, <2>1, <2>2, <2>3, RecordedTypes
<1>3. CASE f.status \in Terminal /\ up.outcome = "none"
  <2> DEFINE d == [up EXCEPT !.phase = "LANDED"]
  <2>1. d.outcome = "none" /\ d.phase = "LANDED" /\ d.fault = up.fault
    BY <1>3 DEF Update
  <2>2. Corrected(f, up) = Recorded(f, d)
    BY <1>3 DEF Corrected
  <2> HIDE DEF d
  <2>3. d.outcome \in Outcomes \cup {"none"} /\ d.phase \notin Airborne
    BY <2>1 DEF Airborne
  <2>4. /\ Recorded(f, d) \in FlightRec
        /\ Recorded(f, d).claimed = f.claimed /\ Recorded(f, d).seq = f.seq
        /\ Recorded(f, d).code = IF d.fault THEN "FAULT" ELSE f.code
        /\ Recorded(f, d).status = f.status
    BY <2>1, <2>3, RecordedTypes
  <2> QED  BY <1>3, <2>1, <2>2, <2>4
<1> QED  BY <1>1, <1>2, <1>3

-----------------------------------------------------------------------------
(* Which steps write which variable.                                        *)

LEMMA Writers ==
    ASSUME Next
    PROVE  /\ \/ flight' = flight
              \/ \E s \in Sessions : Create(s) \/ Launch(s) \/ Fly(s) \/ Wait(s)
              \/ \E s \in Edge : Watch(s) \/ Claim(s) \/ Deliver(s)
              \/ \E c \in Commands : RunCommand(c)
           /\ \/ cmd' = cmd
              \/ \E c \in Commands, s \in Sessions, kind \in Kinds : Judge(c, s, kind)
              \/ \E c \in Commands : Insert(c) \/ RunCommand(c) \/ DeliverResult(c)
           /\ \/ local' = local
              \/ \E s \in Edge : Deliver(s) \/ Prune(s)
              \/ Take \/ AddClaimed \/ Record
           /\ \/ inbox' = inbox
              \/ \E s \in Edge, c \in Commands : StepCommand(s, c)
              \/ \E c \in Commands : DeliverResult(c)
              \/ Take \/ FinishCommand
           /\ \/ pc' = pc
              \/ \E s \in Edge : Claim(s) \/ AskClaim(s) \/ StepFlight(s)
              \/ \E s \in Edge, c \in Commands : StepCommand(s, c)
              \/ GiveUpClaim \/ AddClaimed \/ Record \/ FinishCommand \/ Crash
           /\ mail' = mail \/ Sync \/ Take \/ LoseMail \/ Crash
           /\ \/ air' = air
              \/ \E s \in Sessions : Progress(s) \/ Launch(s)
              \/ \E s \in Edge : StepFlight(s)
              \/ \E s \in Edge, c \in Commands : StepCommand(s, c)
              \/ \E c \in Commands : RunCommand(c)
           /\ listed' = listed \/ ListCommands \/ \E c \in Commands : RunCommand(c)
           /\ watched' = watched \/ ListWatched \/ \E s \in Edge : Watch(s)
           /\ \/ ready' = ready
              \/ \E s \in Edge : Claim(s)
              \/ Take \/ LoseMail \/ GiveUpClaim \/ Crash
           /\ claims' = claims \/ \E s \in Edge : Claim(s) \/ AskClaim(s) \/ LoseClaim(s)
           /\ \/ crashes' = crashes \/ Crash
              \/ \E s \in Sessions : Launch(s)
              \/ \E c \in Commands : RunCommand(c)
           /\ hands' = hands \/ FinishCommand \/ \E c \in Commands : RunCommand(c)
<1> USE DEF centre, gateway, link
<1>1. ASSUME NEW s \in Sessions, Create(s) PROVE UNCHANGED <<cmd, listed, watched, local, inbox, pc, ready, mail, claims, air, crashes, hands>>
  BY <1>1 DEF Create
<1>2. ASSUME NEW c \in Commands, NEW s \in Sessions, NEW kind \in Kinds, Judge(c, s, kind)
      PROVE UNCHANGED <<flight, listed, watched, local, inbox, pc, ready, mail, claims, air, crashes, hands>>
  BY <1>2 DEF Judge
<1>3. ASSUME NEW c \in Commands, Insert(c) PROVE UNCHANGED <<flight, listed, watched, local, inbox, pc, ready, mail, claims, air, crashes, hands>>
  BY <1>3 DEF Insert
<1>4. /\ ListCommands => UNCHANGED <<flight, cmd, watched, local, inbox, pc, ready, mail, claims, air, crashes, hands>>
      /\ ListWatched => UNCHANGED <<flight, cmd, listed, local, inbox, pc, ready, mail, claims, air, crashes, hands>>
  BY DEF ListCommands, ListWatched
<1>5. ASSUME NEW c \in Commands, RunCommand(c) PROVE UNCHANGED <<watched, local, inbox, pc, ready, mail, claims>>
  BY <1>5 DEF RunCommand
<1>6. ASSUME NEW s \in Sessions, Launch(s) PROVE UNCHANGED <<cmd, listed, watched, local, inbox, pc, ready, mail, claims, hands>>
  BY <1>6 DEF Launch
<1>7. ASSUME NEW s \in Sessions, Fly(s) PROVE UNCHANGED <<cmd, listed, watched, local, inbox, pc, ready, mail, claims, air, crashes, hands>>
  BY <1>7 DEF Fly
<1>8. ASSUME NEW s \in Edge, Watch(s) PROVE UNCHANGED <<cmd, listed, local, inbox, pc, ready, mail, claims, air, crashes, hands>>
  BY <1>8 DEF Watch
<1>9. ASSUME NEW s \in Sessions, Wait(s) PROVE UNCHANGED <<cmd, listed, watched, local, inbox, pc, ready, mail, claims, air, crashes, hands>>
  BY <1>9 DEF Wait
<1>10. ASSUME NEW s \in Sessions, Progress(s) PROVE UNCHANGED <<flight, cmd, listed, watched, local, inbox, pc, ready, mail, claims, crashes, hands>>
  BY <1>10 DEF Progress
<1>11. /\ Sync => UNCHANGED <<flight, cmd, listed, watched, local, inbox, pc, ready, claims, air, crashes, hands>>
       /\ LoseMail => UNCHANGED <<flight, cmd, listed, watched, local, inbox, pc, claims, air, crashes, hands>>
  BY DEF Sync, LoseMail
<1>12. ASSUME NEW s \in Edge, Claim(s) PROVE UNCHANGED <<cmd, listed, watched, local, inbox, mail, air, crashes, hands>>
  BY <1>12 DEF Claim
<1>13. ASSUME NEW s \in Edge, LoseClaim(s) PROVE UNCHANGED <<flight, cmd, listed, watched, local, inbox, pc, ready, mail, air, crashes, hands>>
  BY <1>13 DEF LoseClaim
<1>14. ASSUME NEW s \in Edge, Deliver(s) PROVE UNCHANGED <<cmd, listed, watched, inbox, pc, ready, mail, claims, air, crashes, hands>>
  BY <1>14 DEF Deliver
<1>15. ASSUME NEW c \in Commands, DeliverResult(c) PROVE UNCHANGED <<flight, listed, watched, local, pc, ready, mail, claims, air, crashes, hands>>
  BY <1>15 DEF DeliverResult
<1>16. ASSUME Take PROVE UNCHANGED <<flight, cmd, listed, watched, pc, claims, air, crashes, hands>>
  BY <1>16 DEF Take
<1>17. ASSUME GiveUpClaim PROVE UNCHANGED <<flight, cmd, listed, watched, local, inbox, mail, claims, air, crashes, hands>>
  BY <1>17 DEF GiveUpClaim
<1>18. ASSUME AddClaimed \/ Record PROVE UNCHANGED <<flight, cmd, listed, watched, inbox, ready, mail, claims, air, crashes, hands>>
  BY <1>18 DEF AddClaimed, Record
<1>19. ASSUME FinishCommand PROVE UNCHANGED <<flight, cmd, listed, watched, local, ready, mail, claims, air, crashes>>
  BY <1>19 DEF FinishCommand
<1>20. ASSUME Crash PROVE UNCHANGED <<flight, cmd, listed, watched, local, inbox, claims, air, hands>>
  BY <1>20 DEF Crash
<1>21. ASSUME NEW s \in Edge, AskClaim(s) PROVE UNCHANGED <<flight, cmd, listed, watched, local, inbox, ready, mail, air, crashes, hands>>
  BY <1>21 DEF AskClaim
<1>22. ASSUME NEW s \in Edge, StepFlight(s) PROVE UNCHANGED <<flight, cmd, listed, watched, local, inbox, ready, mail, claims, crashes, hands>>
  BY <1>22 DEF StepFlight
<1>23. ASSUME NEW s \in Edge, Prune(s) PROVE UNCHANGED <<flight, cmd, listed, watched, inbox, pc, ready, mail, claims, air, crashes, hands>>
  BY <1>23 DEF Prune
<1>24. ASSUME NEW s \in Edge, NEW c \in Commands, StepCommand(s, c) PROVE UNCHANGED <<flight, cmd, listed, watched, local, ready, mail, claims, crashes, hands>>
  BY <1>24 DEF StepCommand
<1>25. CASE Operators
  BY <1>25, <1>1, <1>2, <1>3 DEF Operators
<1>26. CASE Runner
  BY <1>26, <1>4, <1>5, <1>6, <1>7, <1>8 DEF Runner
<1>27. CASE Link
  BY <1>27, <1>11, <1>12, <1>13, <1>14, <1>15 DEF Link
<1>28. CASE Gateway
  BY <1>28, <1>16, <1>17, <1>18, <1>19, <1>20, <1>21, <1>22, <1>23, <1>24 DEF Gateway
<1>29. CASE World
  BY <1>29, <1>9, <1>10 DEF World
<1> QED  BY <1>25, <1>26, <1>27, <1>28, <1>29 DEF Next

-----------------------------------------------------------------------------
(* Type correctness, variable by variable.                                  *)

\* What a step that writes the record of s does to the others, and to the fields.
Kept(s) == \A t \in Sessions : t # s => flight'[t] = flight[t]

LEMMA HeardFlight ==
    ASSUME flight \in [Sessions -> FlightRec], NEW s \in Sessions, NEW f \in FlightRec, Heard(s, f)
    PROVE  /\ flight' \in [Sessions -> FlightRec] /\ Kept(s)
           /\ flight'[s].status = f.status /\ flight'[s].code = f.code
           /\ flight'[s].claimed = f.claimed /\ flight'[s].seq = f.seq
<1>1. PICK still \in {FALSE, flight[s].silent} : flight' = [flight EXCEPT ![s] = [f EXCEPT !.silent = still]]
  BY DEF Heard
<1>2. still \in BOOLEAN
  <2>1. flight[s] \in FlightRec
    OBVIOUS
  <2> QED  BY <2>1, Zenon DEF FlightRec
<1> DEFINE g == [f EXCEPT !.silent = still]
<1>3. g \in FlightRec
  BY <1>2, FlightTypes
<1>4. g.status = f.status /\ g.code = f.code /\ g.claimed = f.claimed /\ g.seq = f.seq
  BY DEF FlightRec
<1>5. flight' = [flight EXCEPT ![s] = g]
  BY <1>1
<1> HIDE DEF g
<1> QED  BY <1>3, <1>4, <1>5 DEF Kept

LEMMA EndFlight ==
    ASSUME flight \in [Sessions -> FlightRec], NEW s \in Sessions,
           NEW status \in Statuses, NEW code \in Codes, EndSession(s, status, code)
    PROVE  /\ flight' \in [Sessions -> FlightRec] /\ Kept(s)
           /\ flight'[s].status = status /\ flight'[s].code = IF code = "none" THEN flight[s].code ELSE code
           /\ flight'[s].claimed = flight[s].claimed /\ flight'[s].seq = flight[s].seq
<1> DEFINE new == IF code = "none" THEN flight[s].code ELSE code
           g == [flight[s] EXCEPT !.status = status, !.code = new]
<1>1. flight[s] \in FlightRec
  OBVIOUS
<1>2. new \in Codes
  BY <1>1 DEF FlightRec
<1>3. flight' = [flight EXCEPT ![s] = g]
  BY <1>1 DEF EndSession, FlightRec
<1> HIDE DEF new
<1>4. g \in FlightRec
  BY <1>1, <1>2, FlightTypes
<1>5. g.status = status /\ g.code = new /\ g.claimed = flight[s].claimed /\ g.seq = flight[s].seq
  BY <1>1 DEF FlightRec
<1> HIDE DEF g
<1> QED  BY <1>3, <1>4, <1>5 DEF Kept, new

\* The aircraft takes an instruction: it does not come down by one, a fault or a
\* result is none of its doing, and only START lifts it off.
LEMMA ObeyedTypes ==
    ASSUME NEW a \in AirRec, NEW what
    PROVE  LET b == Obeyed(what, a)
           IN  /\ b \in AirRec /\ b.result = a.result /\ b.fault = a.fault
               /\ a.at # "GROUND" => b.at # "GROUND"
               /\ what # "START" /\ a.at = "GROUND" => b.at = "GROUND"
               /\ what = "START" => b.at # "GROUND"
               /\ a.at \in {"RETURNING", "LANDED"} => b.at = a.at
               /\ what = "ABORT" /\ a.at # "GROUND" => b.at \in {"RETURNING", "LANDED"}
               /\ b.at = "LANDED" => a.at = "LANDED"
<1>1. a.at \in Airborne \cup {"GROUND", "LANDED"} /\ a.result \in Outcomes \cup {"none"}
  BY DEF AirRec
<1>2. /\ \A at \in Airborne : [a EXCEPT !.at = at] \in AirRec
      /\ [a EXCEPT !.at = "RETURNING", !.ordered = TRUE] \in AirRec
  BY Zenon DEF AirRec, Airborne
<1>3. /\ \A at \in Airborne : LET b == [a EXCEPT !.at = at] IN b.at = at /\ b.result = a.result /\ b.fault = a.fault
      /\ LET b == [a EXCEPT !.at = "RETURNING", !.ordered = TRUE]
         IN  b.at = "RETURNING" /\ b.result = a.result /\ b.fault = a.fault
  BY DEF AirRec
<1>4. Obeyed(what, a) = a \/ \E at \in {"LAUNCHING", "ACTIVE", "PAUSED"} :
         /\ Obeyed(what, a) = [a EXCEPT !.at = at] /\ (at = "LAUNCHING" => what = "START")
         /\ a.at \in {"GROUND", "LAUNCHING", "ACTIVE", "PAUSED"} /\ (a.at = "GROUND" => what = "START")
         /\ what # "ABORT"
      \/ /\ Obeyed(what, a) = [a EXCEPT !.at = "RETURNING", !.ordered = TRUE] /\ what = "ABORT"
         /\ a.at \in {"LAUNCHING", "ACTIVE", "PAUSED"}
  BY DEF Obeyed
<1>5. what = "START" /\ a.at = "GROUND" => Obeyed(what, a) = [a EXCEPT !.at = "LAUNCHING"]
  BY DEF Obeyed
<1>6. what = "ABORT" => Obeyed(what, a) = a \/ Obeyed(what, a) = [a EXCEPT !.at = "RETURNING", !.ordered = TRUE]
  BY DEF Obeyed
<1>7. what = "ABORT" /\ a.at \in {"LAUNCHING", "ACTIVE", "PAUSED"} =>
         Obeyed(what, a) = [a EXCEPT !.at = "RETURNING", !.ordered = TRUE]
  BY DEF Obeyed
<1>8. CASE Obeyed(what, a) = a
  BY <1>1, <1>3, <1>5, <1>7, <1>8 DEF Airborne
<1>9. CASE \E at \in {"LAUNCHING", "ACTIVE", "PAUSED"} :
         /\ Obeyed(what, a) = [a EXCEPT !.at = at] /\ (at = "LAUNCHING" => what = "START")
         /\ a.at \in {"GROUND", "LAUNCHING", "ACTIVE", "PAUSED"} /\ (a.at = "GROUND" => what = "START")
         /\ what # "ABORT"
  <2>1. PICK at \in {"LAUNCHING", "ACTIVE", "PAUSED"} :
         /\ Obeyed(what, a) = [a EXCEPT !.at = at]
         /\ a.at \in {"GROUND", "LAUNCHING", "ACTIVE", "PAUSED"} /\ (a.at = "GROUND" => what = "START")
         /\ what # "ABORT"
    BY <1>9
  <2> DEFINE b == [a EXCEPT !.at = at]
  <2>2. b \in AirRec /\ b.at = at /\ b.result = a.result /\ b.fault = a.fault
    BY <1>2, <1>3 DEF Airborne
  <2>3. Obeyed(what, a) = b
    BY <2>1
  <2> HIDE DEF b
  <2> QED  BY <2>1, <2>2, <2>3
<1>10. CASE /\ Obeyed(what, a) = [a EXCEPT !.at = "RETURNING", !.ordered = TRUE] /\ what = "ABORT"
            /\ a.at \in {"LAUNCHING", "ACTIVE", "PAUSED"}
  <2> DEFINE b == [a EXCEPT !.at = "RETURNING", !.ordered = TRUE]
  <2>1. b \in AirRec /\ b.at = "RETURNING" /\ b.result = a.result /\ b.fault = a.fault
    BY <1>2, <1>3
  <2>2. Obeyed(what, a) = b
    BY <1>10
  <2> HIDE DEF b
  <2> QED  BY <1>10, <2>1, <2>2
<1> QED  BY <1>4, <1>8, <1>9, <1>10

\* What a call does to the aircraft of s, answered or not.
Told(s, what) ==
    /\ air' \in [Sessions -> AirRec] /\ \A t \in Sessions : t # s => air'[t] = air[t]
    /\ air'[s] = air[s] \/ air'[s] = Obeyed(what, air[s])

LEMMA CallAir ==
    ASSUME air \in [Sessions -> AirRec], NEW s \in Sessions, NEW what
    PROVE  /\ air' = [air EXCEPT ![s] = Obeyed(what, @)] => Told(s, what) /\ air'[s] = Obeyed(what, air[s])
           /\ Unanswered(what, s) => Told(s, what)
<1>1. air[s] \in AirRec /\ Obeyed(what, air[s]) \in AirRec
  BY ObeyedTypes
<1>2. ASSUME air' = [air EXCEPT ![s] = Obeyed(what, @)]
      PROVE  Told(s, what) /\ air'[s] = Obeyed(what, air[s])
  BY <1>1, <1>2 DEF Told
<1>3. ASSUME Unanswered(what, s) PROVE Told(s, what)
  <2>1. air' = air \/ air' = [air EXCEPT ![s] = Obeyed(what, @)]
    BY <1>3 DEF Unanswered
  <2> QED  BY <1>1, <1>2, <2>1 DEF Told
<1> QED  BY <1>2, <1>3

-----------------------------------------------------------------------------
(* What each writer of the record does to it.                               *)

\* The record of s but for its clocks.
SameRecord(s) ==
    /\ flight'[s].status = flight[s].status /\ flight'[s].code = flight[s].code
    /\ flight'[s].claimed = flight[s].claimed /\ flight'[s].seq = flight[s].seq

\* The record of s with another status, and a code if there is one to give.
Turned(s, status, code) ==
    /\ flight'[s].status = status /\ flight'[s].code = IF code = "none" THEN flight[s].code ELSE code
    /\ flight'[s].claimed = flight[s].claimed /\ flight'[s].seq = flight[s].seq

FlightTyped == flight' \in [Sessions -> FlightRec]

LEMMA FlightFacts ==
    ASSUME flight \in [Sessions -> FlightRec], NEW s \in Sessions
    PROVE  /\ flight[s] \in FlightRec /\ flight[s].status \in Statuses /\ flight[s].code \in Codes
           /\ flight[s].seq \in 0..MaxUpdates
BY DEF FlightRec

LEMMA CreateEffect ==
    ASSUME TypeInv, NEW s \in Sessions, Create(s)
    PROVE  /\ FlightTyped /\ Kept(s) /\ flight[s].status = "none" /\ Turned(s, "READY", "none")
           /\ \A t \in Sessions : DroneOf[t] = DroneOf[s] => flight[t].status \notin InFlight
<1>1. flight \in [Sessions -> FlightRec] /\ flight[s] \in FlightRec
  BY DEF TypeInv, Typed
<1> DEFINE g == [flight[s] EXCEPT !.status = "READY"]
<1>2. g \in FlightRec
  BY <1>1, FlightTypes DEF Statuses, InFlight, BeforeLaunch
<1>3. g.status = "READY" /\ g.code = flight[s].code /\ g.claimed = flight[s].claimed /\ g.seq = flight[s].seq
  BY <1>1 DEF FlightRec
<1>4. flight' = [flight EXCEPT ![s] = g]
  BY <1>1 DEF Create
<1> HIDE DEF g
<1> QED  BY <1>1, <1>2, <1>3, <1>4 DEF Create, FlightTyped, Kept, Turned

LEMMA WaitEffect ==
    ASSUME TypeInv, NEW s \in Sessions, Wait(s)
    PROVE  FlightTyped /\ Kept(s) /\ SameRecord(s) /\ Quiet
<1>1. flight \in [Sessions -> FlightRec] /\ flight[s] \in FlightRec
  BY DEF TypeInv, Typed
<1> DEFINE g == [flight[s] EXCEPT !.late = TRUE]
           h == [flight[s] EXCEPT !.silent = TRUE]
<1>2. g \in FlightRec /\ h \in FlightRec
  BY <1>1, FlightTypes
<1>3. /\ g.status = flight[s].status /\ g.code = flight[s].code /\ g.claimed = flight[s].claimed /\ g.seq = flight[s].seq
      /\ h.status = flight[s].status /\ h.code = flight[s].code /\ h.claimed = flight[s].claimed /\ h.seq = flight[s].seq
  BY <1>1 DEF FlightRec
<1>4. Quiet /\ (flight' = [flight EXCEPT ![s] = g] \/ flight' = [flight EXCEPT ![s] = h])
  BY <1>1 DEF Wait
<1> HIDE DEF g, h
<1> QED  BY <1>1, <1>2, <1>3, <1>4 DEF FlightTyped, Kept, SameRecord

LEMMA WatchEffect ==
    ASSUME TypeInv, NEW s \in Edge, Watch(s)
    PROVE  /\ FlightTyped /\ Kept(s)
           /\ \/ SameRecord(s)
              \/ ~flight[s].claimed /\ flight[s].status \in InFlight /\ Turned(s, "MISSED", "EDGE_NOT_CLAIMED")
              \/ flight[s].claimed /\ flight[s].status \in InFlight /\ Turned(s, "FAILED", "EDGE_UNREACHABLE")
<1>1. flight \in [Sessions -> FlightRec] /\ s \in Sessions /\ flight[s] \in FlightRec
  BY ConstantTypes DEF TypeInv, Typed
<1>2. {"MISSED", "FAILED"} \subseteq Statuses /\ {"EDGE_NOT_CLAIMED", "EDGE_UNREACHABLE"} \subseteq Codes
  BY DEF Statuses, Terminal, Outcomes, Codes
<1>3. CASE Unclaimed(s)
  <2>1. EndSession(s, "MISSED", "EDGE_NOT_CLAIMED")
    BY <1>3 DEF Watch
  <2> QED  BY <1>1, <1>2, <1>3, <2>1, EndFlight DEF FlightTyped, Turned, Unclaimed
<1>4. CASE ~Unclaimed(s) /\ Silent(s)
  <2>1. EndSession(s, "FAILED", "EDGE_UNREACHABLE")
    BY <1>4 DEF Watch
  <2> QED  BY <1>1, <1>2, <1>4, <2>1, EndFlight DEF FlightTyped, Turned, Silent
<1>5. CASE ~Unclaimed(s) /\ ~Silent(s)
  BY <1>1, <1>5 DEF Watch, FlightTyped, Kept, SameRecord
<1> QED  BY <1>3, <1>4, <1>5

LEMMA FlyEffect ==
    ASSUME TypeInv, NEW s \in Sessions, Fly(s)
    PROVE  FlightTyped /\ Kept(s) /\ flight[s].status \in Airborne /\ s \notin Edge /\ flight'[s].status # "none"
<1>1. flight \in [Sessions -> FlightRec] /\ flight[s] \in FlightRec /\ air[s] \in AirRec
  BY DEF TypeInv, Typed
<1>2. flight[s].status \in Airborne /\ s \notin Edge
  BY DEF Fly, Direct
<1>3. CASE Heard(s, Recorded(flight[s], Report(air[s], FALSE)))
  <2>1. Report(air[s], FALSE).outcome \in Outcomes \cup {"none"}
    BY <1>1, UpdateTypes
  <2>2. /\ Recorded(flight[s], Report(air[s], FALSE)) \in FlightRec
        /\ flight[s].status # "none" => Recorded(flight[s], Report(air[s], FALSE)).status # "none"
    BY <1>1, <2>1, RecordedTypes
  <2>3. flight[s].status # "none"
    BY <1>2 DEF Airborne
  <2> QED  BY <1>1, <1>2, <1>3, <2>2, <2>3, HeardFlight DEF FlightTyped
<1>4. CASE EndSession(s, "FAILED", "none")
  BY <1>1, <1>2, <1>4, EndFlight DEF FlightTyped, Statuses, Terminal, Outcomes, Codes
<1> QED  BY <1>3, <1>4 DEF Fly

LEMMA LaunchEffect ==
    ASSUME TypeInv, NEW s \in Sessions, Launch(s)
    PROVE  /\ FlightTyped /\ Kept(s) /\ flight[s].status \in BeforeLaunch /\ s \notin Edge
           /\ flight'[s].status # "none"
           /\ air' = air \/ Told(s, "START")
<1>1. flight \in [Sessions -> FlightRec] /\ flight[s] \in FlightRec /\ air \in [Sessions -> AirRec]
  BY DEF TypeInv, Typed
<1>2. flight[s].status \in BeforeLaunch /\ s \notin Edge /\ flight[s].status # "none"
  BY DEF Launch, Direct, BeforeLaunch
<1>3. \A status \in {"BLOCKED", "FAILED"} :
        EndSession(s, status, "none") => FlightTyped /\ Kept(s) /\ flight'[s].status # "none"
  BY <1>1, EndFlight DEF FlightTyped, Statuses, Terminal, Outcomes, Codes
<1>4. CASE EndSession(s, "BLOCKED", "none") /\ UNCHANGED <<air, crashes>>
  BY <1>2, <1>3, <1>4
<1>5. CASE /\ air' = [air EXCEPT ![s] = Obeyed("START", @)]
           /\ Heard(s, Recorded(flight[s], Report(air'[s], TRUE))) /\ UNCHANGED crashes
  <2>1. Told(s, "START") /\ air'[s] \in AirRec
    BY <1>1, <1>5, CallAir DEF Told
  <2>2. Report(air'[s], TRUE).outcome \in Outcomes \cup {"none"}
    BY <2>1, UpdateTypes
  <2>3. LET g == Recorded(flight[s], Report(air'[s], TRUE))
        IN  g \in FlightRec /\ (flight[s].status # "none" => g.status # "none")
    BY <1>1, <2>2, RecordedTypes
  <2> QED  BY <1>1, <1>2, <1>5, <2>1, <2>3, HeardFlight DEF FlightTyped
<1>6. CASE Unanswered("START", s) /\ EndSession(s, "FAILED", "none") /\ UNCHANGED crashes
  BY <1>1, <1>2, <1>3, <1>6, CallAir
<1>7. CASE /\ crashes < MaxCrashes /\ crashes' = crashes + 1
           /\ air' = [air EXCEPT ![s] = Obeyed("START", @)] /\ UNCHANGED flight
  BY <1>1, <1>2, <1>7, CallAir DEF FlightTyped, Kept
<1> QED  BY <1>4, <1>5, <1>6, <1>7 DEF Launch

\* The runner's answer to a command, in the row of the command.
Answered(c, status) ==
    /\ cmd' \in [Commands -> CmdRec] /\ \A d \in Commands : d # c => cmd'[d] = cmd[d]
    /\ cmd'[c].kind = cmd[c].kind /\ cmd'[c].s = cmd[c].s /\ cmd'[c].status = status

LEMMA AnswerEffect ==
    ASSUME cmd \in [Commands -> CmdRec], NEW c \in Commands, NEW status \in Answers \cup {"PENDING"},
           cmd' = [cmd EXCEPT ![c].status = status]
    PROVE  Answered(c, status)
<1> DEFINE d == [cmd[c] EXCEPT !.status = status]
<1>1. cmd[c] \in CmdRec /\ cmd' = [cmd EXCEPT ![c] = d]
  OBVIOUS
<1>2. d \in CmdRec /\ d.kind = cmd[c].kind /\ d.s = cmd[c].s /\ d.status = status
  BY <1>1 DEF CmdRec
<1> HIDE DEF d
<1> QED  BY <1>1, <1>2 DEF Answered

\* What carrying out a command does.
Dealt(c) ==
    LET s == cmd[c].s
    IN  /\ cmd[c].status = "PENDING" /\ s \in Sessions /\ (s \in Edge => ~flight[s].claimed)
        /\ FlightTyped /\ Kept(s) /\ flight'[s].seq = flight[s].seq /\ flight'[s].claimed = flight[s].claimed
        /\ flight[s].status # "none" => flight'[s].status # "none"
        /\ cmd' = cmd \/ \E a \in Answers : Answered(c, a)
        /\ hands' = hands \/ (hands' = [hands EXCEPT ![c] = @ \cup {"runner"}] /\ cmd'[c].status = "DONE")
        /\ \/ flight' = flight /\ air' = air /\ (cmd'[c].status = "DONE" => flight[s].status = "RETURNING")
           \/ flight[s].status \in BeforeLaunch /\ Turned(s, "CANCELLED", "none") /\ air' = air
           \/ flight[s].status \notin BeforeLaunch \cup Terminal /\ Told(s, cmd[c].kind)

LEMMA RunCommandEffect ==
    ASSUME TypeInv, NEW c \in Commands, RunCommand(c)
    PROVE  UNCHANGED <<flight, cmd, air, hands>> \/ Dealt(c)
<1> DEFINE s == cmd[c].s
           rule == RunnersRule(cmd[c].kind, flight[s].status)
<1>1. CASE Passed(c)
  BY <1>1 DEF RunCommand, centre
<1>2. CASE ~Passed(c)
  <2>1. /\ flight \in [Sessions -> FlightRec] /\ air \in [Sessions -> AirRec] /\ cmd \in [Commands -> CmdRec]
        /\ cmd[c].status = "PENDING" /\ s \in Sessions /\ (s \in Edge => ~flight[s].claimed)
    BY <1>2 DEF TypeInv, Typed, Given, Passed, RunnersOwn, GatewaysOwn
  <2>2. CarryOut(c)
    BY <1>2 DEF RunCommand
  <2>3. \A a \in Answers : Answer(c, a) => Answered(c, a)
    BY <2>1, AnswerEffect DEF Answer
  <2>4. /\ rule = "cancel" => flight[s].status \in BeforeLaunch
        /\ rule = "call" => flight[s].status \notin BeforeLaunch \cup Terminal
        /\ rule = "DONE" => flight[s].status = "RETURNING"
    <3>1. flight[s].status \in Statuses /\ cmd[c].kind \in AllKinds
      BY <2>1, FlightFacts DEF TypeInv, Given
    <3> QED  BY <3>1 DEF RunnersRule, AllKinds, BeforeLaunch, Terminal, Outcomes
  <2> HIDE DEF rule
  <2>5. CASE rule \in Answers /\ Answer(c, rule) /\ UNCHANGED <<flight, air, crashes, hands>>
    <3>1. Answered(c, rule)
      BY <2>3, <2>5
    <3> QED  BY <2>1, <2>4, <2>5, <3>1 DEF Dealt, Answered, FlightTyped, Kept
  <2>6. CASE /\ rule = "cancel" /\ Answer(c, "DONE") /\ EndSession(s, "CANCELLED", "none")
             /\ hands' = [hands EXCEPT ![c] = @ \cup {"runner"}] /\ UNCHANGED <<air, crashes>>
    <3>1. Answered(c, "DONE") /\ "DONE" \in Answers
      BY <2>3, <2>6 DEF Answers
    <3>2. FlightTyped /\ Kept(s) /\ Turned(s, "CANCELLED", "none")
      BY <2>1, <2>6, EndFlight DEF FlightTyped, Turned, Statuses, Terminal, Codes
    <3> QED  BY <2>1, <2>4, <2>6, <3>1, <3>2 DEF Dealt, Answered, Turned
  <2>7. CASE /\ rule = "call"
             /\ air' = [air EXCEPT ![s] = Obeyed(cmd[c].kind, @)]
             /\ Heard(s, Recorded(flight[s], Report(air'[s], FALSE)))
             /\ Answer(c, "DONE") /\ hands' = [hands EXCEPT ![c] = @ \cup {"runner"}]
    <3>1. Answered(c, "DONE") /\ "DONE" \in Answers
      BY <2>3, <2>7 DEF Answers
    <3>2. Told(s, cmd[c].kind) /\ air'[s] \in AirRec
      BY <2>1, <2>7, CallAir DEF Told
    <3>3. Report(air'[s], FALSE).outcome \in Outcomes \cup {"none"}
      BY <3>2, UpdateTypes
    <3>4. LET g == Recorded(flight[s], Report(air'[s], FALSE))
          IN  /\ g \in FlightRec /\ g.seq = flight[s].seq /\ g.claimed = flight[s].claimed
              /\ flight[s].status # "none" => g.status # "none"
      <4>1. flight[s] \in FlightRec
        BY <2>1
      <4> QED  BY <4>1, <3>3, RecordedTypes
    <3>5. /\ FlightTyped /\ Kept(s) /\ flight'[s].seq = flight[s].seq /\ flight'[s].claimed = flight[s].claimed
          /\ flight[s].status # "none" => flight'[s].status # "none"
      BY <2>1, <2>7, <3>4, HeardFlight DEF FlightTyped
    <3> QED  BY <2>1, <2>4, <2>7, <3>1, <3>2, <3>5 DEF Dealt, Answered
  <2>8. CASE /\ rule = "call" /\ Unanswered(cmd[c].kind, s) /\ AnswerFailure(c) /\ UNCHANGED <<flight, crashes, hands>>
    <3>1. \E a \in Answers : Answered(c, a)
      BY <2>3, <2>8 DEF AnswerFailure, Answers
    <3>2. Told(s, cmd[c].kind)
      BY <2>1, <2>8, CallAir
    <3> QED  BY <2>1, <2>4, <2>8, <3>1, <3>2 DEF Dealt, FlightTyped, Kept
  <2>9. CASE /\ rule = "call" /\ air' = [air EXCEPT ![s] = Obeyed(cmd[c].kind, @)] /\ UNCHANGED <<flight, cmd, hands>>
    <3>1. Told(s, cmd[c].kind)
      BY <2>1, <2>9, CallAir
    <3> QED  BY <2>1, <2>4, <2>9, <3>1 DEF Dealt, FlightTyped, Kept
  <2> QED  BY <2>2, <2>5, <2>6, <2>7, <2>8, <2>9 DEF CarryOut, rule
<1> QED  BY <1>1, <1>2

\* The gateway that asked gets its answer, or nobody waits for one.
LEMMA ClaimEffect ==
    ASSUME TypeInv, NEW s \in Edge, Claim(s)
    PROVE  /\ FlightTyped /\ Kept(s) /\ s \in claims /\ claims' = claims \ {s}
           /\ \/ SameRecord(s)
              \/ flight[s].status \in BeforeLaunch /\ Turned(s, "BLOCKED", "none")
              \/ /\ flight[s].status \in BeforeLaunch
                 /\ flight'[s].status = "LAUNCHING" /\ flight'[s].code = flight[s].code
                 /\ flight'[s].claimed /\ flight'[s].seq = flight[s].seq
           /\ \/ pc' = pc /\ ready' = ready
              \/ /\ pc.at = "claim" /\ pc.s = s /\ ready' = ready \ {s}
                 /\ \/ pc' = Idle
                    \/ pc' = [pc EXCEPT !.at = "granted"] /\ flight'[s].claimed /\ flight'[s].status \in InFlight
<1>1. flight \in [Sessions -> FlightRec] /\ s \in Sessions /\ flight[s] \in FlightRec
  BY ConstantTypes DEF TypeInv, Typed
<1>2. s \in claims /\ claims' = claims \ {s}
  BY DEF Claim
<1>3. PICK granted \in BOOLEAN :
         /\ Grants(s) => granted
         /\ Refuses(s) => ~granted
         /\ IF Grants(s) \/ Refuses(s) THEN UNCHANGED flight
            ELSE IF granted THEN flight' = [flight EXCEPT ![s].status = "LAUNCHING", ![s].claimed = TRUE]
            ELSE EndSession(s, "BLOCKED", "none")
         /\ IF pc.at = "claim" /\ pc.s = s
            THEN /\ pc' = IF granted THEN [pc EXCEPT !.at = "granted"] ELSE Idle
                 /\ ready' = ready \ {s}
            ELSE UNCHANGED <<pc, ready>>
  BY Zenon DEF Claim
<1>4. /\ FlightTyped /\ Kept(s)
      /\ \/ SameRecord(s) /\ (granted => flight'[s].claimed /\ flight'[s].status \in InFlight)
         \/ flight[s].status \in BeforeLaunch /\ Turned(s, "BLOCKED", "none") /\ ~granted
         \/ /\ flight[s].status \in BeforeLaunch
            /\ flight'[s].status = "LAUNCHING" /\ flight'[s].code = flight[s].code
            /\ flight'[s].claimed /\ flight'[s].seq = flight[s].seq
  <2>1. CASE Grants(s) \/ Refuses(s)
    BY <1>1, <1>3, <2>1 DEF FlightTyped, Kept, SameRecord, Grants
  <2>2. CASE ~Grants(s) /\ ~Refuses(s) /\ granted
    <3> DEFINE g == [flight[s] EXCEPT !.status = "LAUNCHING", !.claimed = TRUE]
    <3>1. g \in FlightRec
      BY <1>1, FlightTypes DEF Statuses, InFlight, Airborne
    <3>2. g.status = "LAUNCHING" /\ g.code = flight[s].code /\ g.claimed /\ g.seq = flight[s].seq
      BY <1>1 DEF FlightRec
    <3>3. flight' = [flight EXCEPT ![s] = g]
      BY <1>1, <1>3, <2>2
    <3> HIDE DEF g
    <3>4. flight[s].status \in BeforeLaunch
      BY <2>2 DEF Refuses
    <3> QED  BY <1>1, <3>1, <3>2, <3>3, <3>4 DEF FlightTyped, Kept
  <2>3. CASE ~Grants(s) /\ ~Refuses(s) /\ ~granted
    <3>1. EndSession(s, "BLOCKED", "none") /\ flight[s].status \in BeforeLaunch
      BY <1>3, <2>3 DEF Refuses
    <3> QED  BY <1>1, <2>3, <3>1, EndFlight DEF FlightTyped, Turned, Statuses, Terminal, Codes
  <2> QED  BY <2>1, <2>2, <2>3
<1>5. "LAUNCHING" \in InFlight
  BY DEF InFlight, Airborne
<1>6. CASE pc.at = "claim" /\ pc.s = s /\ ~granted
  BY <1>2, <1>3, <1>4, <1>6
<1>7. CASE pc.at = "claim" /\ pc.s = s /\ granted
  BY <1>2, <1>3, <1>4, <1>5, <1>7
<1>8. CASE ~(pc.at = "claim" /\ pc.s = s)
  BY <1>2, <1>3, <1>4, <1>8
<1> QED  BY <1>6, <1>7, <1>8

-----------------------------------------------------------------------------
(* What the gateway's sessions table goes through.                          *)

LocalKept(s) == local' \in [Edge -> LocalRec] /\ \A t \in Edge : t # s => local'[t] = local[t]

LEMMA LocalFields ==
    ASSUME NEW l \in LocalRec
    PROVE  /\ l.outcome \in Outcomes \cup {"none"} /\ l.log \in Seq(Update) /\ l.sent \in 0..MaxUpdates
           /\ l.sent \in Nat /\ Len(l.log) \in Nat
<1>1. l.outcome \in Outcomes \cup {"none"} /\ l.log \in Seq(Update) /\ l.sent \in 0..MaxUpdates
  BY DEF LocalRec
<1>2. l.sent \in Nat
  BY <1>1, ConstantTypes
<1> QED  BY <1>1, <1>2, LenProperties

LEMMA LocalTypes ==
    ASSUME NEW l \in LocalRec
    PROVE  /\ \A n \in 0..MaxUpdates : LET m == [l EXCEPT !.sent = n]
                                       IN  /\ m \in LocalRec /\ m.sent = n
                                           /\ m.known = l.known /\ m.started = l.started /\ m.phase = l.phase
                                           /\ m.outcome = l.outcome /\ m.log = l.log
           /\ LET m == [l EXCEPT !.known = FALSE]
              IN  /\ m \in LocalRec /\ ~m.known
                  /\ m.sent = l.sent /\ m.started = l.started /\ m.phase = l.phase
                  /\ m.outcome = l.outcome /\ m.log = l.log
<1>2. ASSUME NEW n \in 0..MaxUpdates PROVE [l EXCEPT !.sent = n] \in LocalRec
  BY Zenon DEF LocalRec
<1>3. [l EXCEPT !.known = FALSE] \in LocalRec
  BY Zenon DEF LocalRec
<1>4. ASSUME NEW n \in 0..MaxUpdates
      PROVE  LET m == [l EXCEPT !.sent = n]
             IN  /\ m.sent = n /\ m.known = l.known /\ m.started = l.started /\ m.phase = l.phase
                 /\ m.outcome = l.outcome /\ m.log = l.log
  BY DEF LocalRec
<1>5. LET m == [l EXCEPT !.known = FALSE]
      IN  /\ ~m.known /\ m.sent = l.sent /\ m.started = l.started /\ m.phase = l.phase
          /\ m.outcome = l.outcome /\ m.log = l.log
  BY DEF LocalRec
<1> QED  BY <1>2, <1>3, <1>4, <1>5

\* An update is put into the log.
Extended(l, up) == [l EXCEPT !.log = Append(@, up), !.started = TRUE, !.phase = up.phase,
                             !.outcome = IF up.outcome # "none" THEN up.outcome ELSE @]

LEMMA AppendTypes ==
    ASSUME NEW l \in LocalRec, NEW up \in Update
    PROVE  LET m == Extended(l, up)
           IN  /\ m \in LocalRec /\ m.log = Append(l.log, up) /\ m.started /\ m.phase = up.phase
               /\ m.outcome = (IF up.outcome # "none" THEN up.outcome ELSE l.outcome)
               /\ m.known = l.known /\ m.sent = l.sent
               /\ Len(m.log) = Len(l.log) + 1 /\ m.log[Len(m.log)] = up
               /\ \A i \in 1..Len(l.log) : m.log[i] = l.log[i]
<1> DEFINE log == Append(l.log, up)
           outcome == IF up.outcome # "none" THEN up.outcome ELSE l.outcome
           m == [l EXCEPT !.log = log, !.started = TRUE, !.phase = up.phase, !.outcome = outcome]
<1>1. l.log \in Seq(Update) /\ Len(l.log) \in Nat
  BY LocalFields
<1>2. log \in Seq(Update) /\ Len(log) = Len(l.log) + 1 /\ log[Len(log)] = up /\ \A i \in 1..Len(l.log) : log[i] = l.log[i]
  BY <1>1, AppendProperties
<1>3. outcome \in Outcomes \cup {"none"} /\ up.phase \in Airborne \cup {"none", "LANDED"}
  BY LocalFields DEF Update
<1>4. Extended(l, up) = m
  BY DEF LocalRec, Extended
<1> HIDE DEF log, outcome
<1>5. m \in LocalRec
  BY <1>2, <1>3, Zenon DEF LocalRec
<1>6. m.log = log /\ m.started /\ m.phase = up.phase /\ m.outcome = outcome /\ m.known = l.known /\ m.sent = l.sent
  BY DEF LocalRec
<1> HIDE DEF m
<1> QED  BY <1>2, <1>4, <1>5, <1>6 DEF log, outcome

\* A session is put into the table.
LEMMA AddedTypes ==
    ASSUME NEW l \in LocalRec, NEW s \in Edge, flight[s].seq \in 0..MaxUpdates, flight[s].seq <= Len(l.log)
    PROVE  LET m == Added(s, l)
           IN  /\ m \in LocalRec
               /\ l.known => m = l
               /\ ~l.known => /\ m.known /\ (m.started <=> flight[s].seq > 0) /\ m.phase = "none" /\ m.outcome = "none"
                              /\ m.sent = flight[s].seq /\ m.log = SubSeq(l.log, 1, flight[s].seq)
                              /\ Len(m.log) = flight[s].seq /\ m.log \in Seq(Update)
<1>1. CASE l.known
  BY <1>1 DEF Added
<1>2. CASE ~l.known
  <2> DEFINE n == flight[s].seq
             log == SubSeq(l.log, 1, n)
             started == n > 0
             m == [l EXCEPT !.known = TRUE, !.started = started, !.phase = "none", !.outcome = "none",
                            !.log = log, !.sent = n]
  <2>1. Added(s, l) = m
    BY <1>2 DEF Added, LocalRec
  <2>2. log \in Seq(Update) /\ Len(log) = n
    <3>1. l.log \in Seq(Update) /\ n \in Nat /\ n <= Len(l.log) /\ Len(l.log) \in Nat
      BY LocalFields, ConstantTypes DEF n
    <3> QED  BY <3>1, SubSeqProperties
  <2>3. started \in BOOLEAN /\ n \in 0..MaxUpdates
    OBVIOUS
  <2> HIDE DEF n, log, started
  <2>4. m \in LocalRec
    BY <2>2, <2>3, Zenon DEF LocalRec
  <2>5. /\ m.known /\ m.started = started /\ m.phase = "none" /\ m.outcome = "none"
        /\ m.sent = n /\ m.log = log
    BY DEF LocalRec
  <2> HIDE DEF m
  <2> QED  BY <1>2, <2>1, <2>2, <2>4, <2>5 DEF n, log, started
<1> QED  BY <1>1, <1>2

LEMMA DeliverEffect ==
    ASSUME TypeInv, NEW s \in Edge, Deliver(s)
    PROVE  LET n  == local[s].sent + 1
               up == local[s].log[n]
           IN  /\ n \in 1..Len(local[s].log) /\ up \in Update
               /\ LocalKept(s) /\ local'[s].sent = n
               /\ local'[s].known = local[s].known /\ local'[s].started = local[s].started
               /\ local'[s].phase = local[s].phase /\ local'[s].outcome = local[s].outcome
               /\ local'[s].log = local[s].log
               /\ FlightTyped /\ Kept(s)
               /\ \/ /\ SameRecord(s)
                     /\ flight[s].claimed => flight[s].status \in Terminal /\ flight[s].code # "EDGE_UNREACHABLE"
                  \/ /\ flight[s].claimed /\ flight'[s].claimed /\ flight'[s].seq = n
                     /\ flight[s].status \in Terminal => flight[s].code = "EDGE_UNREACHABLE"
                     /\ flight[s].status \notin Terminal \/ up.outcome # "none" =>
                          flight'[s].status = IF up.outcome # "none" THEN up.outcome
                                              ELSE IF up.phase \in Airborne THEN up.phase ELSE flight[s].status
                     /\ flight[s].status \in Terminal /\ up.outcome = "none" => flight'[s].status = flight[s].status
                     /\ ~up.fault => flight'[s].code = IF flight[s].status \in Terminal /\ up.outcome # "none"
                                                       THEN "none" ELSE flight[s].code
<1> DEFINE n  == local[s].sent + 1
           up == local[s].log[n]
           f  == flight[s]
           l  == local[s]
<1>1. /\ flight \in [Sessions -> FlightRec] /\ s \in Sessions /\ f \in FlightRec
      /\ local \in [Edge -> LocalRec] /\ l \in LocalRec
  BY ConstantTypes DEF TypeInv, Typed
<1>2. /\ n <= Len(l.log) /\ local' = [local EXCEPT ![s].sent = n]
      /\ IF f.claimed /\ (f.status \in Terminal => Correctable(f))
         THEN Heard(s, [Corrected(f, up) EXCEPT !.seq = n])
         ELSE UNCHANGED flight
  BY DEF Deliver
<1>3. l.sent \in Nat /\ Len(l.log) \in Nat /\ Len(l.log) <= MaxUpdates /\ l.log \in Seq(Update)
  BY <1>1, LocalFields DEF TypeInv, Logged
<1>4. n \in 1..Len(l.log) /\ n \in 0..MaxUpdates /\ up \in Update
  <2>1. n \in 1..Len(l.log) /\ n \in 0..MaxUpdates
    BY <1>2, <1>3, ConstantTypes
  <2> QED  BY <1>3, <2>1, ElementOfSeq
<1>5. /\ LocalKept(s) /\ local'[s].sent = n
      /\ local'[s].known = l.known /\ local'[s].started = l.started
      /\ local'[s].phase = l.phase /\ local'[s].outcome = l.outcome
      /\ local'[s].log = l.log
  <2> DEFINE m == [l EXCEPT !.sent = n]
  <2>1. /\ m \in LocalRec /\ m.sent = n
        /\ m.known = l.known /\ m.started = l.started /\ m.phase = l.phase
        /\ m.outcome = l.outcome /\ m.log = l.log
    BY <1>1, <1>4, LocalTypes
  <2>2. local' = [local EXCEPT ![s] = m]
    BY <1>2
  <2> HIDE DEF m
  <2> QED  BY <1>1, <2>1, <2>2 DEF LocalKept
<1> HIDE DEF up, n
<1>6. CASE f.claimed /\ (f.status \in Terminal => Correctable(f))
  <2> DEFINE g == Corrected(f, up)
             h == [g EXCEPT !.seq = n]
  <2>1. /\ g \in FlightRec /\ g.claimed = f.claimed
        /\ f.status \notin Terminal \/ up.outcome # "none" =>
             g.status = IF up.outcome # "none" THEN up.outcome
                        ELSE IF up.phase \in Airborne THEN up.phase ELSE f.status
        /\ f.status \in Terminal /\ up.outcome = "none" => g.status = f.status
        /\ ~up.fault => g.code = IF f.status \in Terminal /\ up.outcome # "none" THEN "none" ELSE f.code
    BY <1>1, <1>4, CorrectedTypes
  <2>2. Heard(s, h)
    BY <1>2, <1>6
  <2> HIDE DEF g
  <2>3. h \in FlightRec
    BY <1>4, <2>1, FlightTypes
  <2>4. h.status = g.status /\ h.code = g.code /\ h.claimed = g.claimed /\ h.seq = n
    BY <2>1 DEF FlightRec
  <2> HIDE DEF h
  <2>5. /\ FlightTyped /\ Kept(s) /\ flight'[s].status = h.status /\ flight'[s].code = h.code
        /\ flight'[s].claimed = h.claimed /\ flight'[s].seq = h.seq
    BY <1>1, <2>2, <2>3, HeardFlight DEF FlightTyped
  <2> QED  BY <1>4, <1>5, <1>6, <2>1, <2>4, <2>5 DEF Correctable, up, n
<1>7. CASE ~(f.claimed /\ (f.status \in Terminal => Correctable(f)))
  <2>1. FlightTyped /\ Kept(s) /\ SameRecord(s)
    BY <1>1, <1>2, <1>7 DEF FlightTyped, Kept, SameRecord
  <2> QED  BY <1>4, <1>5, <1>7, <2>1 DEF Correctable, up, n
<1> QED  BY <1>6, <1>7

LEMMA PruneEffect ==
    ASSUME TypeInv, NEW s \in Edge, Prune(s)
    PROVE  /\ local[s].known /\ local[s].outcome # "none" /\ local[s].sent = Len(local[s].log)
           /\ pc = Idle /\ mail = NoMail
           /\ LocalKept(s) /\ ~local'[s].known
           /\ local'[s].sent = local[s].sent /\ local'[s].started = local[s].started
           /\ local'[s].phase = local[s].phase /\ local'[s].outcome = local[s].outcome
           /\ local'[s].log = local[s].log
<1> DEFINE m == [local[s] EXCEPT !.known = FALSE]
<1>1. local \in [Edge -> LocalRec] /\ local[s] \in LocalRec
  BY DEF TypeInv, Typed
<1>2. /\ m \in LocalRec /\ ~m.known
      /\ m.sent = local[s].sent /\ m.started = local[s].started /\ m.phase = local[s].phase
      /\ m.outcome = local[s].outcome /\ m.log = local[s].log
  BY <1>1, LocalTypes
<1>3. local' = [local EXCEPT ![s] = m]
  BY DEF Prune
<1> HIDE DEF m
<1> QED  BY <1>1, <1>2, <1>3 DEF Prune, LocalKept

LEMMA RecordEffect ==
    ASSUME TypeInv, Record
    PROVE  LET s == pc.s
           IN  /\ pc.at = "called" /\ s \in Edge /\ pc.up \in Update /\ LocalKept(s)
               /\ local'[s].log = Append(local[s].log, pc.up) /\ local'[s].started /\ local'[s].phase = pc.up.phase
               /\ local'[s].outcome = (IF pc.up.outcome # "none" THEN pc.up.outcome ELSE local[s].outcome)
               /\ local'[s].known = local[s].known /\ local'[s].sent = local[s].sent
               /\ Len(local'[s].log) = Len(local[s].log) + 1 /\ local'[s].log[Len(local'[s].log)] = pc.up
               /\ \A i \in 1..Len(local[s].log) : local'[s].log[i] = local[s].log[i]
               /\ \/ pc.c = None /\ pc' = Idle
                  \/ pc.c # None /\ pc' = [pc EXCEPT !.at = "recorded"]
<1> DEFINE s == pc.s
           up == pc.up
           m == Extended(local[s], up)
<1>1. pc.at = "called" /\ s \in Edge /\ up \in Update
  BY DEF Record, TypeInv, Busy
<1>2. local \in [Edge -> LocalRec] /\ local[s] \in LocalRec
  BY <1>1 DEF TypeInv, Typed
<1>3. /\ m \in LocalRec /\ m.log = Append(local[s].log, up) /\ m.started /\ m.phase = up.phase
      /\ m.outcome = (IF up.outcome # "none" THEN up.outcome ELSE local[s].outcome)
      /\ m.known = local[s].known /\ m.sent = local[s].sent
      /\ Len(m.log) = Len(local[s].log) + 1 /\ m.log[Len(m.log)] = up
      /\ \A i \in 1..Len(local[s].log) : m.log[i] = local[s].log[i]
  BY <1>1, <1>2, AppendTypes
<1>4. local' = [local EXCEPT ![s] = m]
  BY <1>2 DEF Record, Extended
<1>5. \/ pc.c = None /\ pc' = Idle
      \/ pc.c # None /\ pc' = [pc EXCEPT !.at = "recorded"]
  BY DEF Record
<1> HIDE DEF m
<1> QED  BY <1>1, <1>2, <1>3, <1>4, <1>5 DEF LocalKept

LEMMA AddClaimedEffect ==
    ASSUME TypeInv, AddClaimed
    PROVE  /\ pc.at = "granted" /\ pc.s \in Edge /\ pc' = Idle
           /\ LocalKept(pc.s) /\ local'[pc.s] = Added(pc.s, local[pc.s])
<1>1. pc.at = "granted" /\ pc.s \in Edge /\ pc' = Idle /\ local' = [local EXCEPT ![pc.s] = Added(pc.s, @)]
  BY DEF AddClaimed, TypeInv, Busy
<1>2. /\ local \in [Edge -> LocalRec] /\ local[pc.s] \in LocalRec /\ pc.s \in Sessions
      /\ flight[pc.s].seq \in 0..MaxUpdates
  BY <1>1, ConstantTypes, FlightFacts DEF TypeInv, Typed
<1>3. flight[pc.s].seq <= Len(local[pc.s].log)
  <2>1. local[pc.s].sent \in Nat /\ Len(local[pc.s].log) \in Nat
    BY <1>2, LocalFields
  <2> QED  BY <1>1, <1>2, <2>1 DEF TypeInv, Logged
<1>4. Added(pc.s, local[pc.s]) \in LocalRec
  BY <1>1, <1>2, <1>3, AddedTypes
<1> QED  BY <1>1, <1>2, <1>4 DEF LocalKept

LEMMA TakeEffect ==
    ASSUME TypeInv, Take
    PROVE  /\ mail # NoMail /\ mail' = NoMail /\ pc = Idle /\ local' \in [Edge -> LocalRec] /\ ready' = mail.ready
           /\ \A s \in Edge : local'[s] = IF s \in mail.claimed THEN Added(s, local[s]) ELSE local[s]
<1>1. /\ mail # NoMail /\ mail' = NoMail /\ pc = Idle /\ ready' = mail.ready
      /\ local' = [s \in Edge |-> IF s \in mail.claimed THEN Added(s, local[s]) ELSE local[s]]
  BY DEF Take, TypeInv, Busy
<1>2. ASSUME NEW s \in Edge PROVE Added(s, local[s]) \in LocalRec /\ local[s] \in LocalRec
  <2>1. local[s] \in LocalRec /\ s \in Sessions /\ flight[s].seq \in 0..MaxUpdates
    BY ConstantTypes, FlightFacts DEF TypeInv, Typed
  <2>2. local[s].sent \in Nat /\ Len(local[s].log) \in Nat
    BY <2>1, LocalFields
  <2>3. flight[s].seq <= Len(local[s].log)
    BY <2>1, <2>2 DEF TypeInv, Logged
  <2> QED  BY <2>1, <2>3, AddedTypes
<1> QED  BY <1>1, <1>2

-----------------------------------------------------------------------------
(* What the gateway's calls do.                                             *)

\* The adapter has answered with the state of the aircraft.
Calling(s, c) ==
    /\ pc' \in PcRec /\ pc'.at = "called" /\ pc'.s = s /\ pc'.c = c /\ pc'.up \in Update
    /\ pc'.up.phase = air'[s].at /\ pc'.up.outcome = air'[s].result /\ pc'.up.fault = air'[s].fault
    /\ air'[s].at # "GROUND"

LEMMA CallingEffect ==
    ASSUME NEW s \in Edge, NEW c \in Commands \cup {None}, NEW launched \in BOOLEAN,
           air'[s] \in AirRec, air'[s].at # "GROUND",
           pc' = [at |-> "called", s |-> s, c |-> c, up |-> Report(air'[s], launched)]
    PROVE  Calling(s, c)
<1> DEFINE up == Report(air'[s], launched)
<1>1. up \in Update /\ up.phase = air'[s].at /\ up.outcome = air'[s].result /\ up.fault = air'[s].fault
  BY UpdateTypes
<1>2. pc' = [at |-> "called", s |-> s, c |-> c, up |-> up] /\ s \in Sessions
  BY ConstantTypes
<1> HIDE DEF up
<1> QED  BY <1>1, <1>2 DEF Calling, PcRec

LEMMA StepFlightEffect ==
    ASSUME TypeInv, NEW s \in Edge, StepFlight(s)
    PROVE  /\ pc = Idle /\ mail = NoMail /\ Live(s) /\ Room(s) /\ Told(s, "START")
           /\ local[s].started => air' = air
           /\ pc' = pc \/ Calling(s, None)
<1>1. /\ pc = Idle /\ mail = NoMail /\ Live(s) /\ Room(s)
      /\ air \in [Sessions -> AirRec] /\ s \in Sessions /\ (local[s].started => air[s].at # "GROUND")
  BY ConstantTypes DEF StepFlight, TypeInv, Typed, Logged
<1>2. CASE /\ local[s].started
           /\ pc' = [at |-> "called", s |-> s, c |-> None, up |-> Report(air[s], FALSE)]
           /\ UNCHANGED air
  <2>1. air'[s] \in AirRec /\ air'[s].at # "GROUND"
        /\ pc' = [at |-> "called", s |-> s, c |-> None, up |-> Report(air'[s], FALSE)]
    BY <1>1, <1>2 DEF TypeInv, Typed, Logged
  <2>2. Calling(s, None)
    BY <2>1, CallingEffect
  <2> QED  BY <1>1, <1>2, <2>2 DEF Told
<1>3. CASE /\ ~local[s].started /\ air' = [air EXCEPT ![s] = Obeyed("START", @)]
           /\ pc' = [at |-> "called", s |-> s, c |-> None, up |-> Report(air'[s], TRUE)]
  <2>1. Told(s, "START") /\ air'[s] = Obeyed("START", air[s])
    BY <1>1, <1>3, CallAir
  <2>2. air'[s] \in AirRec /\ air'[s].at # "GROUND"
    BY <1>1, <2>1, ObeyedTypes
  <2>3. Calling(s, None)
    BY <1>3, <2>2, CallingEffect
  <2> QED  BY <1>1, <1>3, <2>1, <2>3
<1>4. CASE ~local[s].started /\ Unanswered("START", s) /\ UNCHANGED pc
  BY <1>1, <1>4, CallAir
<1> QED  BY <1>2, <1>3, <1>4 DEF StepFlight

\* The command is closed at the gateway.
Closed(c, result) ==
    /\ inbox' \in [Commands -> InboxRec] /\ \A d \in Commands : d # c => inbox'[d] = inbox[d]
    /\ inbox'[c].at = "done" /\ inbox'[c].result = result

LEMMA FinishedEffect ==
    ASSUME TypeInv, NEW c \in Commands, NEW result \in Answers, cmd[c].s \in Edge, Finished(c, result)
    PROVE  Closed(c, result)
<1> DEFINE n == Len(local[cmd[c].s].log)
           r == [at |-> "done", result |-> result, after |-> n]
<1>1. n \in 0..MaxUpdates
  <2>1. local[cmd[c].s] \in LocalRec
    BY DEF TypeInv, Typed
  <2>2. n \in Nat
    BY <2>1, LocalFields
  <2> QED  BY <2>2, ConstantTypes DEF TypeInv, Logged
<1>2. inbox' = [inbox EXCEPT ![c] = r] /\ inbox \in [Commands -> InboxRec]
  BY DEF Finished, TypeInv, Typed
<1> HIDE DEF n
<1>3. r \in InboxRec /\ r.at = "done" /\ r.result = result
  BY <1>1 DEF InboxRec
<1> HIDE DEF r
<1> QED  BY <1>2, <1>3 DEF Closed

LEMMA StepCommandEffect ==
    ASSUME TypeInv, NEW s \in Edge, NEW c \in Commands, StepCommand(s, c)
    PROVE  /\ pc = Idle /\ mail = NoMail /\ Live(s) /\ inbox[c].at = "open" /\ cmd[c].s = s
           /\ Told(s, cmd[c].kind) /\ cmd[c].kind \in AllKinds
           /\ \/ /\ pc' = pc
                 /\ \E a \in Answers : /\ Closed(c, a)
                                       /\ a = "DONE" => cmd[c].kind = "ABORT" /\ local[s].phase = "RETURNING" /\ air' = air
              \/ /\ inbox' = inbox /\ Room(s) /\ Calling(s, c) /\ cmd[c].kind # "CANCEL"
                 /\ local[s].started /\ air'[s] = Obeyed(cmd[c].kind, air[s])
<1> DEFINE rule == GatewaysRule(cmd[c].kind, local[s].phase)
<1>1. /\ pc = Idle /\ mail = NoMail /\ Live(s) /\ inbox[c].at = "open" /\ cmd[c].s = s
      /\ air \in [Sessions -> AirRec] /\ s \in Sessions /\ (local[s].started => air[s].at # "GROUND")
  BY ConstantTypes DEF StepCommand, Open, TypeInv, Typed, Logged
<1>2. cmd[c].kind \in AllKinds
  BY <1>1 DEF TypeInv, Given
<1>3. \A a \in Answers : Finished(c, a) => Closed(c, a)
  BY <1>1, FinishedEffect
<1>4. /\ rule = "DONE" => cmd[c].kind = "ABORT" /\ local[s].phase = "RETURNING"
      /\ rule = "call" => cmd[c].kind # "CANCEL"
  BY DEF GatewaysRule
<1>5. \A a \in {"REJECTED", "FAILED"} : a \in Answers /\ a # "DONE"
  BY DEF Answers
<1>6. air' = air => Told(s, cmd[c].kind)
  BY <1>1 DEF Told
<1> HIDE DEF rule
<1>7. CASE rule \in Answers /\ Finished(c, rule) /\ UNCHANGED <<pc, air>>
  BY <1>1, <1>2, <1>3, <1>4, <1>6, <1>7
<1>8. CASE rule = "call" /\ Finished(c, "FAILED") /\ UNCHANGED <<pc, air>>
  BY <1>1, <1>2, <1>3, <1>5, <1>6, <1>8
<1>9. CASE /\ rule = "call" /\ local[s].started /\ Room(s)
           /\ air' = [air EXCEPT ![s] = Obeyed(cmd[c].kind, @)]
           /\ pc' = [at |-> "called", s |-> s, c |-> c, up |-> Report(air'[s], FALSE)]
           /\ UNCHANGED inbox
  <2>1. Told(s, cmd[c].kind) /\ air'[s] = Obeyed(cmd[c].kind, air[s])
    BY <1>1, <1>9, CallAir
  <2>2. air'[s] \in AirRec /\ air'[s].at # "GROUND"
    <3>1. air[s].at # "GROUND"
      BY <1>9 DEF TypeInv, Logged
    <3> QED  BY <1>1, <2>1, <3>1, ObeyedTypes DEF Told
  <2>3. Calling(s, c)
    BY <1>9, <2>2, CallingEffect
  <2> QED  BY <1>1, <1>2, <1>4, <1>9, <2>1, <2>3
<1>10. CASE /\ rule = "call" /\ Unanswered(cmd[c].kind, s) /\ \E a \in {"REJECTED", "FAILED"} : Finished(c, a)
            /\ UNCHANGED pc
  BY <1>1, <1>2, <1>3, <1>5, <1>10, CallAir
<1> QED  BY <1>7, <1>8, <1>9, <1>10 DEF StepCommand, rule

LEMMA FinishCommandEffect ==
    ASSUME TypeInv, FinishCommand
    PROVE  /\ pc.at = "recorded" /\ pc.c \in Commands /\ pc.s \in Edge /\ cmd[pc.c].s = pc.s /\ pc' = Idle
           /\ inbox[pc.c].at = "open" /\ Closed(pc.c, "DONE")
           /\ hands' = [hands EXCEPT ![pc.c] = @ \cup {"gateway"}]
<1>1. /\ pc.at = "recorded" /\ pc.c # None /\ pc.s \in Edge /\ cmd[pc.c].s = pc.s /\ pc' = Idle
      /\ inbox[pc.c].at = "open" /\ Finished(pc.c, "DONE") /\ hands' = [hands EXCEPT ![pc.c] = @ \cup {"gateway"}]
  BY DEF FinishCommand, TypeInv, Busy
<1>2. pc.c \in Commands
  BY <1>1 DEF TypeInv, Typed, PcRec
<1> QED  BY <1>1, <1>2, FinishedEffect DEF Answers

LEMMA DeliverResultEffect ==
    ASSUME TypeInv, NEW c \in Commands, DeliverResult(c)
    PROVE  /\ inbox[c].at = "done" /\ inbox' \in [Commands -> InboxRec]
           /\ \A d \in Commands : d # c => inbox'[d] = inbox[d]
           /\ inbox'[c].at = "sent" /\ inbox'[c].result = inbox[c].result
           /\ cmd' = cmd \/ (cmd[c].status = "PENDING" /\ cmd' = [cmd EXCEPT ![c].status = inbox[c].result])
<1> DEFINE r == [inbox[c] EXCEPT !.at = "sent"]
<1>1. inbox \in [Commands -> InboxRec] /\ inbox[c] \in InboxRec /\ inbox' = [inbox EXCEPT ![c] = r]
  BY DEF TypeInv, Typed, DeliverResult
<1>2. r \in InboxRec /\ r.at = "sent" /\ r.result = inbox[c].result
  BY <1>1 DEF InboxRec
<1> HIDE DEF r
<1> QED  BY <1>1, <1>2 DEF DeliverResult, Answer

LEMMA ProgressEffect ==
    ASSUME TypeInv, NEW s \in Sessions, Progress(s)
    PROVE  /\ air' \in [Sessions -> AirRec] /\ \A t \in Sessions : t # s => air'[t] = air[t]
           /\ air[s].at \in Airborne
           /\ \/ air[s].at # "RETURNING" /\ air'[s].at \in {"ACTIVE", "RETURNING"} /\ air'[s].result = air[s].result
              \/ air[s].at = "RETURNING" /\ air'[s].at = "LANDED" /\ air'[s].result # "none"
           /\ air'[s].fault = air[s].fault \/ MayFault
<1> DEFINE a == air[s]
           down(result) == [a EXCEPT !.at = "LANDED", !.result = result]
           faulty == [a EXCEPT !.at = "RETURNING", !.fault = TRUE]
<1>1. air \in [Sessions -> AirRec] /\ a \in AirRec
  BY DEF TypeInv, Typed
<1>2. /\ \A at \in {"ACTIVE", "RETURNING"} : [a EXCEPT !.at = at] \in AirRec
      /\ \A result \in Outcomes : down(result) \in AirRec
      /\ faulty \in AirRec
  BY <1>1, Zenon DEF AirRec, Airborne
<1>3. /\ \A at \in {"ACTIVE", "RETURNING"} :
           LET b == [a EXCEPT !.at = at] IN b.at = at /\ b.result = a.result /\ b.fault = a.fault
      /\ \A result \in Outcomes : /\ down(result).at = "LANDED" /\ down(result).fault = a.fault
                                  /\ down(result).result # "none"
      /\ faulty.at = "RETURNING" /\ faulty.result = a.result
  BY <1>1 DEF AirRec, Outcomes
<1>4. ASSUME NEW at \in {"ACTIVE", "RETURNING"}, a.at \in {"LAUNCHING", "ACTIVE"}, air' = [air EXCEPT ![s].at = at]
      PROVE  /\ air' \in [Sessions -> AirRec] /\ \A t \in Sessions : t # s => air'[t] = air[t]
             /\ air'[s].at = at /\ air'[s].result = a.result /\ air'[s].fault = a.fault
  <2> DEFINE b == [a EXCEPT !.at = at]
  <2>1. b \in AirRec /\ b.at = at /\ b.result = a.result /\ b.fault = a.fault /\ air' = [air EXCEPT ![s] = b]
    BY <1>2, <1>3, <1>4
  <2> HIDE DEF b
  <2> QED  BY <1>1, <2>1
<1>5. CASE a.at = "LAUNCHING" /\ air' = [air EXCEPT ![s].at = "ACTIVE"]
  BY <1>4, <1>5 DEF Airborne
<1>6. CASE a.at = "ACTIVE" /\ air' = [air EXCEPT ![s].at = "RETURNING"]
  BY <1>4, <1>6 DEF Airborne
<1>7. CASE /\ MayFault /\ a.at \in {"LAUNCHING", "ACTIVE", "PAUSED"}
           /\ air' = [air EXCEPT ![s].at = "RETURNING", ![s].fault = TRUE]
  <2>1. air' = [air EXCEPT ![s] = faulty] /\ faulty \in AirRec /\ faulty.at = "RETURNING" /\ faulty.result = a.result
    BY <1>1, <1>2, <1>3, <1>7
  <2> HIDE DEF faulty
  <2> QED  BY <1>1, <1>7, <2>1 DEF Airborne
<1>8. CASE /\ a.at = "RETURNING"
           /\ \E result \in Outcomes : air' = [air EXCEPT ![s].at = "LANDED", ![s].result = result]
  <2>1. PICK result \in Outcomes : air' = [air EXCEPT ![s].at = "LANDED", ![s].result = result]
    BY <1>8
  <2>2. air' = [air EXCEPT ![s] = down(result)] /\ down(result) \in AirRec /\ down(result).at = "LANDED"
        /\ down(result).fault = a.fault /\ down(result).result # "none"
    BY <1>1, <1>2, <1>3, <2>1
  <2> HIDE DEF down
  <2> QED  BY <1>1, <1>8, <2>2 DEF Airborne
<1>9. a.at = "RETURNING" /\ (\E result \in IF a.ordered THEN {"ABORTED"}
                                          ELSE IF a.fault THEN {"COMPLETED", "FAILED"} ELSE {"COMPLETED"} :
                air' = [air EXCEPT ![s].at = "LANDED", ![s].result = result])
      => \E result \in Outcomes : air' = [air EXCEPT ![s].at = "LANDED", ![s].result = result]
  BY DEF Outcomes
<1> QED  BY <1>5, <1>6, <1>7, <1>8, <1>9 DEF Progress

LEMMA TakeInbox ==
    ASSUME TypeInv, Take
    PROVE  /\ inbox' \in [Commands -> InboxRec]
           /\ \A c \in Commands : \/ inbox'[c] = inbox[c]
                                  \/ /\ c \in mail.commands /\ inbox[c].at = "none" /\ inbox'[c].at = "open"
                                     /\ inbox'[c].result = inbox[c].result
<1>1. /\ inbox \in [Commands -> InboxRec]
      /\ inbox' = [c \in Commands |-> IF c \in mail.commands /\ local'[cmd[c].s].known /\ inbox[c].at = "none"
                                      THEN [inbox[c] EXCEPT !.at = "open"] ELSE inbox[c]]
  BY DEF Take, TypeInv, Typed
<1>2. ASSUME NEW r \in InboxRec
      PROVE  LET q == [r EXCEPT !.at = "open"] IN q \in InboxRec /\ q.at = "open" /\ q.result = r.result
  BY DEF InboxRec
<1>3. ASSUME NEW c \in Commands
      PROVE  /\ inbox'[c] \in InboxRec
             /\ \/ inbox'[c] = inbox[c]
                \/ /\ c \in mail.commands /\ inbox[c].at = "none" /\ inbox'[c].at = "open"
                   /\ inbox'[c].result = inbox[c].result
  <2> DEFINE q == [inbox[c] EXCEPT !.at = "open"]
  <2>1. inbox[c] \in InboxRec /\ q \in InboxRec /\ q.at = "open" /\ q.result = inbox[c].result
    BY <1>1, <1>2
  <2>2. inbox'[c] = IF c \in mail.commands /\ local'[cmd[c].s].known /\ inbox[c].at = "none" THEN q ELSE inbox[c]
    BY <1>1
  <2> HIDE DEF q
  <2> QED  BY <2>1, <2>2
<1>4. inbox' \in [Commands -> InboxRec]
  <2>1. inbox' = [c \in Commands |-> inbox'[c]]
    BY <1>1
  <2> QED  BY <1>3, <2>1
<1> QED  BY <1>3, <1>4

-----------------------------------------------------------------------------
LEMMA VariablesTyped ==
    ASSUME TypeInv, Next
    PROVE  Typed'
<1>0. Typed
  BY DEF TypeInv
<1> USE Writers
<1>1. flight' \in [Sessions -> FlightRec]
  <2>1. ASSUME NEW c \in Commands, RunCommand(c) PROVE flight' \in [Sessions -> FlightRec]
    BY <1>0, <2>1, RunCommandEffect DEF Dealt, FlightTyped, Typed
  <2>2. \A s \in Sessions : Create(s) \/ Launch(s) \/ Fly(s) \/ Wait(s) => flight' \in [Sessions -> FlightRec]
    BY CreateEffect, LaunchEffect, FlyEffect, WaitEffect DEF FlightTyped
  <2>3. \A s \in Edge : Watch(s) \/ Claim(s) \/ Deliver(s) => flight' \in [Sessions -> FlightRec]
    BY WatchEffect, ClaimEffect, DeliverEffect DEF FlightTyped
  <2> QED  BY <1>0, <2>1, <2>2, <2>3 DEF Typed
<1>2. cmd' \in [Commands -> CmdRec]
  <2>1. ASSUME NEW c \in Commands, NEW s \in Sessions, NEW kind \in Kinds, Judge(c, s, kind)
        PROVE  cmd' \in [Commands -> CmdRec]
    BY <1>0, <2>1, ConstantTypes DEF Judge, Typed, CmdRec
  <2>2. ASSUME NEW c \in Commands, Insert(c) PROVE cmd' \in [Commands -> CmdRec]
    BY <1>0, <2>2, AnswerEffect DEF Insert, Typed, Answered
  <2>3. ASSUME NEW c \in Commands, RunCommand(c) PROVE cmd' \in [Commands -> CmdRec]
    BY <1>0, <2>3, RunCommandEffect DEF Dealt, Answered, Typed
  <2>4. ASSUME NEW c \in Commands, DeliverResult(c) PROVE cmd' \in [Commands -> CmdRec]
    <3>1. inbox[c].result \in Answers
      BY <2>4, DeliverResultEffect DEF TypeInv, Given
    <3> QED  BY <1>0, <2>4, <3>1, DeliverResultEffect, AnswerEffect DEF Typed, Answered
  <2> QED  BY <1>0, <2>1, <2>2, <2>3, <2>4 DEF Typed
<1>3. local' \in [Edge -> LocalRec]
  <2>1. \A s \in Edge : Deliver(s) \/ Prune(s) => local' \in [Edge -> LocalRec]
    BY DeliverEffect, PruneEffect DEF LocalKept
  <2>2. Take \/ AddClaimed \/ Record => local' \in [Edge -> LocalRec]
    BY TakeEffect, AddClaimedEffect, RecordEffect DEF LocalKept
  <2> QED  BY <1>0, <2>1, <2>2 DEF Typed
<1>4. inbox' \in [Commands -> InboxRec]
  <2>1. ASSUME NEW s \in Edge, NEW c \in Commands, StepCommand(s, c) PROVE inbox' \in [Commands -> InboxRec]
    BY <1>0, <2>1, StepCommandEffect DEF Closed, Typed
  <2>2. \A c \in Commands : DeliverResult(c) => inbox' \in [Commands -> InboxRec]
    BY DeliverResultEffect
  <2>3. Take \/ FinishCommand => inbox' \in [Commands -> InboxRec]
    BY TakeInbox, FinishCommandEffect DEF Closed
  <2> QED  BY <1>0, <2>1, <2>2, <2>3 DEF Typed
<1>5. pc' \in PcRec
  <2>0. Idle \in PcRec /\ pc \in PcRec
    BY <1>0 DEF Idle, PcRec, Typed
  <2>1. [pc EXCEPT !.at = "granted"] \in PcRec /\ [pc EXCEPT !.at = "recorded"] \in PcRec
    BY <2>0 DEF PcRec
  <2>2. ASSUME NEW s \in Edge, Claim(s) PROVE pc' \in PcRec
    BY <2>0, <2>1, <2>2, ClaimEffect
  <2>3. ASSUME NEW s \in Edge, AskClaim(s) PROVE pc' \in PcRec
    BY <2>3, ConstantTypes DEF AskClaim, Idle, PcRec
  <2>4. ASSUME NEW s \in Edge, StepFlight(s) PROVE pc' \in PcRec
    BY <2>0, <2>4, StepFlightEffect DEF Calling
  <2>5. ASSUME NEW s \in Edge, NEW c \in Commands, StepCommand(s, c) PROVE pc' \in PcRec
    BY <2>0, <2>5, StepCommandEffect DEF Calling
  <2>6. Record => pc' \in PcRec
    BY <2>0, <2>1, RecordEffect
  <2>7. GiveUpClaim \/ AddClaimed \/ FinishCommand \/ Crash => pc' \in PcRec
    BY <2>0 DEF GiveUpClaim, AddClaimed, FinishCommand, Crash
  <2> QED  BY <2>0, <2>2, <2>3, <2>4, <2>5, <2>6, <2>7
<1>6. mail' \in MailRec
  <2>1. NoMail \in MailRec /\ mail \in MailRec
    BY <1>0 DEF NoMail, MailRec, Typed
  <2>2. Sync => mail' \in MailRec
    BY DEF Sync, MailRec
  <2> QED  BY <2>1, <2>2 DEF Take, LoseMail, Crash
<1>7. air' \in [Sessions -> AirRec]
  <2>1. \A s \in Sessions : Progress(s) \/ Launch(s) => air' \in [Sessions -> AirRec]
    BY <1>0, ProgressEffect, LaunchEffect DEF Told, Typed
  <2>2. \A s \in Edge : StepFlight(s) => air' \in [Sessions -> AirRec]
    BY StepFlightEffect DEF Told
  <2>3. \A s \in Edge, c \in Commands : StepCommand(s, c) => air' \in [Sessions -> AirRec]
    BY StepCommandEffect DEF Told
  <2>4. ASSUME NEW c \in Commands, RunCommand(c) PROVE air' \in [Sessions -> AirRec]
    BY <1>0, <2>4, RunCommandEffect DEF Dealt, Told, Typed
  <2> QED  BY <1>0, <2>1, <2>2, <2>3, <2>4 DEF Typed
<1>8. listed' \in SUBSET Commands /\ watched' \in SUBSET Edge
  <2>1. \A c \in Commands : RunCommand(c) => listed' \subseteq listed
    BY DEF RunCommand
  <2>2. \A s \in Edge : Watch(s) => watched' \subseteq watched
    BY DEF Watch
  <2> QED  BY <1>0, <2>1, <2>2 DEF Typed, ListCommands, ListWatched
<1>9. ready' \in SUBSET Edge /\ claims' \in SUBSET Edge
  <2>1. \A s \in Edge : Claim(s) => ready' \subseteq ready /\ claims' \subseteq claims
    BY ClaimEffect
  <2>2. mail.ready \subseteq Edge
    BY <1>0 DEF Typed, MailRec
  <2>3. Take \/ LoseMail \/ GiveUpClaim \/ Crash => ready' \in SUBSET Edge
    BY <2>2 DEF Take, LoseMail, GiveUpClaim, Crash
  <2>4. \A s \in Edge : AskClaim(s) \/ LoseClaim(s) => claims' \in SUBSET Edge
    BY <1>0 DEF AskClaim, LoseClaim, Typed
  <2> QED  BY <1>0, <2>1, <2>3, <2>4 DEF Typed
<1>10. crashes' \in 0..MaxCrashes
  <2>1. crashes \in 0..MaxCrashes
    BY <1>0 DEF Typed
  <2>2. crashes' = crashes \/ (crashes < MaxCrashes /\ crashes' = crashes + 1)
    <3>1. Crash => crashes < MaxCrashes /\ crashes' = crashes + 1
      BY DEF Crash
    <3>2. ASSUME NEW s \in Sessions, Launch(s) PROVE crashes' = crashes \/ (crashes < MaxCrashes /\ crashes' = crashes + 1)
      BY <3>2, Zenon DEF Launch
    <3>3. ASSUME NEW c \in Commands, RunCommand(c)
          PROVE  crashes' = crashes \/ (crashes < MaxCrashes /\ crashes' = crashes + 1)
      BY <3>3, Zenon DEF RunCommand, CarryOut
    <3> QED  BY <3>1, <3>2, <3>3
  <2> QED  BY <2>1, <2>2, ConstantTypes
<1>11. hands' \in [Commands -> SUBSET {"runner", "gateway"}]
  <2>1. hands \in [Commands -> SUBSET {"runner", "gateway"}]
    BY <1>0 DEF Typed
  <2>2. FinishCommand => hands' \in [Commands -> SUBSET {"runner", "gateway"}]
    BY <2>1, FinishCommandEffect
  <2>3. ASSUME NEW c \in Commands, RunCommand(c) PROVE hands' \in [Commands -> SUBSET {"runner", "gateway"}]
    BY <2>1, <2>3, RunCommandEffect DEF Dealt
  <2> QED  BY <2>1, <2>2, <2>3
<1> QED  BY <1>1, <1>2, <1>3, <1>4, <1>5, <1>6, <1>7, <1>8, <1>9, <1>10, <1>11, Zenon DEF Typed

-----------------------------------------------------------------------------
(* What a step does to one session, and to one command.                     *)

\* Who has left the ground does not return to it.
LEMMA AirStep ==
    ASSUME TypeInv, Next, NEW s \in Sessions, air[s].at # "GROUND"
    PROVE  air'[s].at # "GROUND"
<1>1. air \in [Sessions -> AirRec] /\ air[s] \in AirRec
  BY DEF TypeInv, Typed
<1>2. \A what : \A t \in Sessions : Told(t, what) => air'[s].at # "GROUND"
  BY <1>1, ObeyedTypes DEF Told
<1>3. ASSUME NEW t \in Sessions, Progress(t) PROVE air'[s].at # "GROUND"
  BY <1>3, ProgressEffect
<1>4. ASSUME NEW t \in Sessions, Launch(t) PROVE air'[s].at # "GROUND"
  BY <1>2, <1>4, LaunchEffect
<1>5. ASSUME NEW t \in Edge, StepFlight(t) PROVE air'[s].at # "GROUND"
  BY <1>2, <1>5, StepFlightEffect, ConstantTypes
<1>6. ASSUME NEW t \in Edge, NEW c \in Commands, StepCommand(t, c) PROVE air'[s].at # "GROUND"
  BY <1>2, <1>6, StepCommandEffect, ConstantTypes
<1>7. ASSUME NEW c \in Commands, RunCommand(c) PROVE air'[s].at # "GROUND"
  BY <1>2, <1>7, RunCommandEffect DEF Dealt
<1> QED  BY <1>3, <1>4, <1>5, <1>6, <1>7, Writers

\* The number of the last update recorded is Deliver's to write.
LEMMA SeqStep ==
    ASSUME TypeInv, Next, NEW s \in Edge, ~Deliver(s)
    PROVE  flight'[s].seq = flight[s].seq
<1>1. s \in Sessions /\ \A t \in Sessions : Kept(t) /\ t # s => flight'[s] = flight[s]
  BY ConstantTypes DEF Kept
<1>2. ASSUME NEW t \in Sessions, Create(t) \/ Wait(t) PROVE flight'[s].seq = flight[s].seq
  BY <1>1, <1>2, CreateEffect, WaitEffect DEF SameRecord, Turned
<1>3. ASSUME NEW t \in Sessions, Launch(t) \/ Fly(t) PROVE flight'[s].seq = flight[s].seq
  BY <1>1, <1>3, LaunchEffect, FlyEffect
<1>4. ASSUME NEW t \in Edge, Watch(t) \/ Claim(t) PROVE flight'[s].seq = flight[s].seq
  BY <1>1, <1>4, WatchEffect, ClaimEffect, ConstantTypes DEF SameRecord, Turned
<1>5. ASSUME NEW t \in Edge, Deliver(t) PROVE flight'[s].seq = flight[s].seq
  BY <1>1, <1>5, DeliverEffect, ConstantTypes
<1>6. ASSUME NEW c \in Commands, RunCommand(c) PROVE flight'[s].seq = flight[s].seq
  BY <1>1, <1>6, RunCommandEffect DEF Dealt
<1> QED  BY <1>2, <1>3, <1>4, <1>5, <1>6, Writers

LEMMA LoggedStep ==
    ASSUME TypeInv, Next, NEW s \in Edge
    PROVE  Logged(s)'
<1>1. /\ local[s] \in LocalRec /\ local[s].log \in Seq(Update) /\ local[s].sent \in Nat /\ Len(local[s].log) \in Nat
      /\ flight[s].seq \in Nat /\ flight[s].seq \in 0..MaxUpdates /\ s \in Sessions /\ Logged(s)
  BY ConstantTypes, LocalFields, FlightFacts DEF TypeInv, Typed
<1>2. air[s].at # "GROUND" => air'[s].at # "GROUND"
  BY <1>1, AirStep
<1>3. CASE Deliver(s)
  <2>1. /\ local'[s].sent = local[s].sent + 1 /\ local[s].sent + 1 <= Len(local[s].log)
        /\ local'[s].log = local[s].log /\ local'[s].started = local[s].started
        /\ flight'[s].seq = flight[s].seq \/ flight'[s].seq = local[s].sent + 1
    BY <1>3, DeliverEffect DEF SameRecord
  <2> QED  BY <1>1, <1>2, <2>1 DEF Logged
<1>4. CASE ~Deliver(s)
  <2>1. flight'[s].seq = flight[s].seq
    BY <1>4, SeqStep
  <2>2. CASE local'[s] = local[s]
    BY <1>1, <1>2, <2>1, <2>2 DEF Logged
  <2>3. CASE Prune(s)
    BY <1>1, <1>2, <2>1, <2>3, PruneEffect DEF Logged
  <2>4. CASE local'[s] = Added(s, local[s])
    <3>1. CASE local[s].known
      BY <1>1, <2>1, <2>2, <2>4, <3>1 DEF Added
    <3>2. CASE ~local[s].known
      <4>1. flight[s].seq <= Len(local[s].log) /\ flight[s].seq <= MaxUpdates
        BY <1>1 DEF Logged
      <4>2. /\ local'[s].sent = flight[s].seq /\ Len(local'[s].log) = flight[s].seq
            /\ local'[s].started <=> flight[s].seq > 0
            /\ local'[s].log \in Seq(Update)
        BY <1>1, <2>4, <3>2, <4>1, AddedTypes
      <4>3. local'[s].started \/ local'[s].log # <<>> => flight[s].seq > 0
        <5>1. flight[s].seq = 0 => local'[s].log = <<>>
          BY <4>2, EmptySeq
        <5> QED  BY <1>1, <4>2, <5>1
      <4>4. flight[s].seq > 0 => local[s].log # <<>>
        <5>1. local[s].log = <<>> => Len(local[s].log) = 0
          OBVIOUS
        <5> QED  BY <1>1, <4>1, <5>1
      <4> QED  BY <1>1, <1>2, <2>1, <4>1, <4>2, <4>3, <4>4 DEF Logged
    <3> QED  BY <3>1, <3>2
  <2>5. CASE Record /\ pc.s = s
    <3>1. Room(s) /\ air[s].at # "GROUND"
      BY <2>5, RecordEffect DEF TypeInv, Busy
    <3>2. local'[s].sent = local[s].sent /\ Len(local'[s].log) = Len(local[s].log) + 1
      BY <2>5, RecordEffect
    <3> QED  BY <1>1, <1>2, <2>1, <3>1, <3>2, ConstantTypes DEF Logged, Room
  <2>6. \/ local'[s] = local[s] \/ Prune(s) \/ local'[s] = Added(s, local[s])
        \/ Record /\ pc.s = s
    <3>1. ASSUME NEW t \in Edge, Deliver(t) \/ Prune(t) PROVE local'[s] = local[s] \/ Prune(s)
      BY <1>4, <3>1, DeliverEffect, PruneEffect DEF LocalKept
    <3>2. Take => local'[s] = local[s] \/ local'[s] = Added(s, local[s])
      BY TakeEffect
    <3>3. AddClaimed => local'[s] = local[s] \/ local'[s] = Added(s, local[s])
      BY AddClaimedEffect DEF LocalKept
    <3>4. Record => local'[s] = local[s] \/ pc.s = s
      BY RecordEffect DEF LocalKept
    <3> QED  BY <3>1, <3>2, <3>3, <3>4, Writers
  <2> QED  BY <2>2, <2>3, <2>4, <2>5, <2>6
<1> QED  BY <1>3, <1>4

\* A command that was given keeps its session and its kind.
LEMMA CmdStep ==
    ASSUME TypeInv, Next, NEW c \in Commands
    PROVE  \/ cmd'[c] = cmd[c]
           \/ /\ cmd[c].status = "none" /\ cmd'[c].status = "checked"
              /\ cmd'[c].kind \in Kinds /\ cmd'[c].s \in Sessions /\ UNCHANGED <<inbox, mail, flight>>
           \/ /\ cmd[c].status = "checked" /\ cmd'[c].status = "PENDING"
              /\ cmd'[c].kind = cmd[c].kind /\ cmd'[c].s = cmd[c].s /\ UNCHANGED <<inbox, mail, flight>>
           \/ /\ cmd[c].status = "PENDING" /\ cmd'[c].status \in Answers
              /\ cmd'[c].kind = cmd[c].kind /\ cmd'[c].s = cmd[c].s
<1>0. cmd \in [Commands -> CmdRec]
  BY DEF TypeInv, Typed
<1>1. ASSUME NEW d \in Commands, NEW s \in Sessions, NEW kind \in Kinds, Judge(d, s, kind)
      PROVE  \/ cmd'[c] = cmd[c]
             \/ /\ cmd[c].status = "none" /\ cmd'[c].status = "checked"
                /\ cmd'[c].kind \in Kinds /\ cmd'[c].s \in Sessions /\ UNCHANGED <<inbox, mail, flight>>
  BY <1>0, <1>1 DEF Judge, gateway, link
<1>2. ASSUME NEW d \in Commands, Insert(d)
      PROVE  \/ cmd'[c] = cmd[c]
             \/ /\ cmd[c].status = "checked" /\ cmd'[c].status = "PENDING"
                /\ cmd'[c].kind = cmd[c].kind /\ cmd'[c].s = cmd[c].s /\ UNCHANGED <<inbox, mail, flight>>
  <2>1. cmd[d].status = "checked" /\ Answered(d, "PENDING") /\ UNCHANGED <<inbox, mail, flight>>
    BY <1>0, <1>2, AnswerEffect DEF Insert, gateway, link
  <2> QED  BY <2>1 DEF Answered
<1>3. ASSUME NEW d \in Commands, RunCommand(d)
      PROVE  \/ cmd'[c] = cmd[c]
             \/ /\ cmd[c].status = "PENDING" /\ cmd'[c].status \in Answers
                /\ cmd'[c].kind = cmd[c].kind /\ cmd'[c].s = cmd[c].s
  BY <1>3, RunCommandEffect DEF Dealt, Answered
<1>4. ASSUME NEW d \in Commands, DeliverResult(d)
      PROVE  \/ cmd'[c] = cmd[c]
             \/ /\ cmd[c].status = "PENDING" /\ cmd'[c].status \in Answers
                /\ cmd'[c].kind = cmd[c].kind /\ cmd'[c].s = cmd[c].s
  <2>1. inbox[d].result \in Answers
    BY <1>4, DeliverResultEffect DEF TypeInv, Given
  <2>2. cmd' = cmd \/ (cmd[d].status = "PENDING" /\ Answered(d, inbox[d].result))
    BY <1>0, <1>4, <2>1, DeliverResultEffect, AnswerEffect
  <2> QED  BY <2>1, <2>2 DEF Answered
<1> QED  BY <1>1, <1>2, <1>3, <1>4, Writers

LEMMA InboxStep ==
    ASSUME TypeInv, Next, NEW c \in Commands
    PROVE  \/ inbox'[c] = inbox[c]
           \/ /\ Take /\ c \in mail.commands /\ inbox[c].at = "none" /\ inbox'[c].at = "open"
              /\ inbox'[c].result = inbox[c].result
           \/ /\ inbox[c].at = "open" /\ inbox'[c].at = "done" /\ inbox'[c].result \in Answers
              /\ \/ \E s \in Edge : StepCommand(s, c)
                 \/ FinishCommand /\ pc.c = c
           \/ /\ DeliverResult(c) /\ inbox[c].at = "done" /\ inbox'[c].at = "sent"
              /\ inbox'[c].result = inbox[c].result
<1>1. ASSUME NEW s \in Edge, NEW d \in Commands, StepCommand(s, d)
      PROVE  \/ inbox'[c] = inbox[c]
             \/ /\ inbox[c].at = "open" /\ inbox'[c].at = "done" /\ inbox'[c].result \in Answers
                /\ StepCommand(s, c)
  BY <1>1, StepCommandEffect DEF Closed
<1>2. ASSUME NEW d \in Commands, DeliverResult(d)
      PROVE  \/ inbox'[c] = inbox[c]
             \/ /\ DeliverResult(c) /\ inbox[c].at = "done" /\ inbox'[c].at = "sent"
                /\ inbox'[c].result = inbox[c].result
  BY <1>2, DeliverResultEffect
<1>3. ASSUME FinishCommand
      PROVE  \/ inbox'[c] = inbox[c]
             \/ inbox[c].at = "open" /\ inbox'[c].at = "done" /\ inbox'[c].result \in Answers /\ pc.c = c
  BY <1>3, FinishCommandEffect DEF Closed, Answers
<1> QED  BY <1>1, <1>2, <1>3, TakeInbox, Writers

LEMMA GivenStep ==
    ASSUME TypeInv, Next, NEW c \in Commands
    PROVE  Given(c)'
<1>1. Given(c)
  BY DEF TypeInv
<1>2. c \in mail'.commands =>
        c \in mail.commands \/ (Sync /\ cmd[c].status = "PENDING" /\ cmd[c].s \in Edge)
  <2>1. c \in NoMail.commands => FALSE
    BY DEF NoMail
  <2>2. Sync => (c \in mail'.commands => cmd[c].status = "PENDING" /\ cmd[c].s \in Edge)
    BY DEF Sync, GatewaysOwn
  <2> QED  BY <2>1, <2>2, Writers DEF Take, LoseMail, Crash
<1>3. cmd'[c].status # "none" => cmd'[c].s \in Sessions /\ cmd'[c].kind \in AllKinds
  <2>1. "checked" # "none" /\ "PENDING" # "none"
    OBVIOUS
  <2> QED  BY <1>1, <2>1, CmdStep, ConstantTypes DEF Given
<1>4. inbox'[c].at # "none" \/ c \in mail'.commands => cmd'[c].status # "none" /\ cmd'[c].s \in Edge
  <2>1. inbox'[c].at # "none" \/ c \in mail'.commands => cmd[c].status # "none" /\ cmd[c].s \in Edge
    BY <1>1, <1>2, InboxStep DEF Given
  <2>2. "none" \notin Answers
    BY DEF Answers
  <2> QED  BY <2>1, <2>2, CmdStep
<1>5. inbox'[c].at \in {"done", "sent"} => inbox'[c].result \in Answers
  BY <1>1, InboxStep DEF Given
<1> QED  BY <1>3, <1>4, <1>5 DEF Given

\* What the gateway is doing goes on, begins or ends.
LEMMA PcStep ==
    ASSUME TypeInv, Next
    PROVE  \/ pc' = pc
           \/ pc' = Idle
           \/ \E s \in Edge : Claim(s) /\ pc.at = "claim" /\ pc.s = s /\ pc' = [pc EXCEPT !.at = "granted"]
           \/ \E s \in Edge : AskClaim(s) /\ pc' = [Idle EXCEPT !.at = "claim", !.s = s]
           \/ \E s \in Edge : StepFlight(s) /\ Room(s) /\ Calling(s, None)
           \/ \E s \in Edge, c \in Commands : StepCommand(s, c) /\ Room(s) /\ Calling(s, c)
           \/ Record /\ pc.c # None /\ pc' = [pc EXCEPT !.at = "recorded"]
<1>1. \A s \in Edge : Claim(s) =>
         (pc' = pc \/ pc' = Idle \/ (pc.at = "claim" /\ pc.s = s /\ pc' = [pc EXCEPT !.at = "granted"]))
  BY ClaimEffect
<1>2. \A s \in Edge : AskClaim(s) => pc' = [Idle EXCEPT !.at = "claim", !.s = s]
  BY DEF AskClaim
<1>3. \A s \in Edge : StepFlight(s) => pc' = pc \/ (Room(s) /\ Calling(s, None))
  BY StepFlightEffect
<1>4. \A s \in Edge, c \in Commands : StepCommand(s, c) => pc' = pc \/ (Room(s) /\ Calling(s, c))
  BY StepCommandEffect
<1>5. Record => pc' = Idle \/ (pc.c # None /\ pc' = [pc EXCEPT !.at = "recorded"])
  BY RecordEffect
<1>6. GiveUpClaim \/ AddClaimed \/ FinishCommand \/ Crash => pc' = Idle
  BY DEF GiveUpClaim, AddClaimed, FinishCommand, Crash
<1> QED  BY <1>1, <1>2, <1>3, <1>4, <1>5, <1>6, Writers

\* A command in hand stays in hand until it is closed.
LEMMA InHandStep ==
    ASSUME TypeInv, Next, NEW c \in Commands, inbox[c].at = "open",
           ~(FinishCommand /\ pc.c = c), \A s \in Edge : ~StepCommand(s, c)
    PROVE  inbox'[c].at = "open" /\ cmd'[c].s = cmd[c].s
<1>1. cmd[c].status # "none"
  BY DEF TypeInv, Given
<1> QED  BY <1>1, InboxStep, CmdStep

LEMMA BusyStep ==
    ASSUME TypeInv, Next
    PROVE  Busy'
<1>0. /\ mail # NoMail \/ pc.at = "idle" => pc = Idle
      /\ pc.at # "idle" => pc.s \in Edge
      /\ pc.at = "called" => pc.up \in Update /\ Room(pc.s) /\ air[pc.s].at # "GROUND"
      /\ pc.at = "recorded" => pc.c # None
      /\ pc.c # None => inbox[pc.c].at = "open" /\ cmd[pc.c].s = pc.s
      /\ pc \in PcRec /\ Idle.at = "idle" /\ Idle.c = None
  BY DEF TypeInv, Typed, Busy, Idle
<1>1. CASE pc' = Idle
  BY <1>0, <1>1 DEF Busy
<1>2. CASE pc' = pc
  <2>1. mail' # NoMail => pc = Idle
    BY <1>0, Writers DEF Sync, Take, LoseMail, Crash
  <2>2. pc.at = "called" => Room(pc.s)' /\ air'[pc.s].at # "GROUND"
    <3> SUFFICES ASSUME pc.at = "called" PROVE Room(pc.s)' /\ air'[pc.s].at # "GROUND"
      OBVIOUS
    <3>1. pc.s \in Edge /\ pc # Idle /\ ~Take /\ ~AddClaimed /\ ~Record /\ \A s \in Edge : ~Prune(s)
      <4>1. Record => pc'.at # "called"
        BY <1>0, RecordEffect DEF PcRec
      <4> QED  BY <1>0, <1>2, <4>1 DEF Take, AddClaimed, Prune, TypeInv, Busy
    <3>2. local'[pc.s].log = local[pc.s].log
      <4>1. ASSUME NEW t \in Edge, Deliver(t) PROVE local'[pc.s].log = local[pc.s].log
        BY <3>1, <4>1, DeliverEffect DEF LocalKept
      <4> QED  BY <3>1, <4>1, Writers
    <3> QED  BY <1>0, <1>2, <3>1, <3>2, AirStep, ConstantTypes DEF Room
  <2>3. pc.c # None => inbox'[pc.c].at = "open" /\ cmd'[pc.c].s = pc.s
    <3> SUFFICES ASSUME pc.c # None PROVE inbox'[pc.c].at = "open" /\ cmd'[pc.c].s = pc.s
      OBVIOUS
    <3>1. pc.c \in Commands /\ pc # Idle
      BY <1>0 DEF PcRec
    <3>2. ~FinishCommand
      BY <1>2, <3>1, FinishCommandEffect
    <3>3. \A s \in Edge : ~StepCommand(s, pc.c)
      BY <3>1, StepCommandEffect
    <3> QED  BY <1>0, <3>1, <3>2, <3>3, InHandStep
  <2> QED  BY <1>0, <1>2, <2>1, <2>2, <2>3 DEF Busy
<1>3. ASSUME NEW s \in Edge, Claim(s), pc.at = "claim", pc.s = s, pc' = [pc EXCEPT !.at = "granted"]
      PROVE  Busy'
  <2>1. pc'.at = "granted" /\ pc'.s = s /\ pc'.c = pc.c
    BY <1>0, <1>3 DEF PcRec
  <2>2. UNCHANGED <<cmd, inbox, mail>>
    BY <1>3 DEF Claim
  <2>3. mail = NoMail
    BY <1>0, <1>3
  <2> QED  BY <1>0, <1>3, <2>1, <2>2, <2>3 DEF Busy
<1>4. ASSUME NEW s \in Edge, AskClaim(s), pc' = [Idle EXCEPT !.at = "claim", !.s = s]
      PROVE  Busy'
  <2>1. pc'.at = "claim" /\ pc'.s = s /\ pc'.c = None
    BY <1>4 DEF Idle
  <2>2. mail' = NoMail
    BY <1>4 DEF AskClaim
  <2> QED  BY <2>1, <2>2 DEF Busy
<1>5. ASSUME NEW s \in Edge, StepFlight(s), Room(s), Calling(s, None)
      PROVE  Busy'
  <2>1. mail' = NoMail /\ local' = local
    BY <1>5 DEF StepFlight, link
  <2> QED  BY <1>5, <2>1 DEF Busy, Calling, Room
<1>6. ASSUME NEW s \in Edge, NEW c \in Commands, StepCommand(s, c), Room(s), Calling(s, c)
      PROVE  Busy'
  <2>1. mail' = NoMail /\ local' = local /\ cmd' = cmd /\ pc = Idle
    BY <1>6 DEF StepCommand, link, centre
  <2>2. pc' # pc
    BY <1>0, <1>6, <2>1 DEF Calling
  <2>3. inbox' = inbox /\ inbox[c].at = "open" /\ cmd[c].s = s
    BY <1>6, <2>2, StepCommandEffect
  <2> QED  BY <1>6, <2>1, <2>3, ConstantTypes DEF Busy, Calling, Room
<1>7. ASSUME Record, pc.c # None, pc' = [pc EXCEPT !.at = "recorded"]
      PROVE  Busy'
  <2>1. pc'.at = "recorded" /\ pc'.s = pc.s /\ pc'.c = pc.c
    BY <1>0, <1>7 DEF PcRec
  <2>2. UNCHANGED <<cmd, inbox, mail>> /\ pc.at = "called"
    BY <1>7 DEF Record, link, centre
  <2> QED  BY <1>0, <1>7, <2>1, <2>2 DEF Busy
<1> QED  BY <1>1, <1>2, <1>3, <1>4, <1>5, <1>6, <1>7, PcStep

-----------------------------------------------------------------------------
LEMMA InitTypes == Init => TypeInv
<1> SUFFICES ASSUME Init PROVE TypeInv
  OBVIOUS
<1>1. flight \in [Sessions -> FlightRec]
  <2>1. [status |-> "none", code |-> "none", claimed |-> FALSE, seq |-> 0, silent |-> FALSE, late |-> FALSE] \in FlightRec
    BY ConstantTypes DEF FlightRec, Statuses, Codes
  <2> QED  BY <2>1, Zenon DEF Init
<1>2. cmd \in [Commands -> CmdRec]
  BY DEF Init, CmdRec
<1>3. local \in [Edge -> LocalRec]
  <2>1. [known |-> FALSE, started |-> FALSE, phase |-> "none", outcome |-> "none", log |-> <<>>, sent |-> 0] \in LocalRec
    BY ConstantTypes DEF LocalRec
  <2> QED  BY <2>1, Zenon DEF Init
<1>4. inbox \in [Commands -> InboxRec]
  BY ConstantTypes DEF Init, InboxRec
<1>5. air \in [Sessions -> AirRec]
  <2>1. [at |-> "GROUND", ordered |-> FALSE, fault |-> FALSE, result |-> "none"] \in AirRec
    BY DEF AirRec
  <2> QED  BY <2>1, Zenon DEF Init
<1>6. pc \in PcRec /\ mail \in MailRec /\ pc = Idle /\ pc.at = "idle" /\ pc.c = None
  BY DEF Init, Idle, NoMail, PcRec, MailRec
<1>7. Typed
  BY <1>1, <1>2, <1>3, <1>4, <1>5, <1>6, ConstantTypes DEF Typed, Init
<1>8. Busy
  BY <1>6 DEF Busy
<1>9. \A s \in Edge : Logged(s)
  BY ConstantTypes DEF Init, Logged
<1>10. \A c \in Commands : Given(c)
  BY DEF Init, Given, NoMail
<1> QED  BY <1>7, <1>8, <1>9, <1>10 DEF TypeInv

LEMMA TypeStep == TypeInv /\ [Next]_vars => TypeInv'
<1>1. CASE Next
  BY <1>1, VariablesTyped, LoggedStep, GivenStep, BusyStep DEF TypeInv
<1>2. CASE UNCHANGED vars
  BY <1>2 DEF vars, TypeInv, Typed, Busy, Logged, Given, Room
<1> QED  BY <1>1, <1>2

LEMMA TypesHold == Spec => []TypeInv
BY InitTypes, TypeStep, PTL DEF Spec

\* Every variable keeps its type; and the gateway never sends what it has not
\* recorded, nor records more than there is room for.
THEOREM TypeCorrect == Spec => []TypeOK
BY TypesHold, TypedIsTypeOK, PTL

-----------------------------------------------------------------------------
(* Ended sessions.                                                          *)

LEMMA StatusKinds ==
    /\ \A status \in Terminal : status \notin InFlight /\ status \notin BeforeLaunch /\ status \notin Airborne
                                /\ status # "none"
    /\ Outcomes \subseteq Terminal /\ BeforeLaunch \subseteq InFlight /\ Airborne \subseteq InFlight
    /\ \A status \in Statuses : status \in InFlight \cup Terminal \cup {"none"}
    /\ "none" \notin InFlight \cup Outcomes /\ BeforeLaunch = {"READY"} /\ "READY" \notin Airborne
    /\ {"CANCELLED", "BLOCKED", "MISSED"} \subseteq Terminal
    /\ \A status \in {"CANCELLED", "BLOCKED", "MISSED", "READY"} : status \notin Airborne \cup Outcomes
    /\ "LAUNCHING" \in Airborne /\ "FAILED" \in Outcomes
BY DEF Terminal, Outcomes, InFlight, BeforeLaunch, Airborne, Statuses

LEMMA EndedStep ==
    ASSUME TypeInv, Next, NEW s \in Sessions, flight[s].status \in Terminal
    PROVE  /\ flight'[s].status \in Terminal
           /\ flight[s].code # "EDGE_UNREACHABLE" => flight'[s].status = flight[s].status
<1> USE StatusKinds
<1> DEFINE Stays == /\ flight'[s].status \in Terminal
                    /\ flight[s].code # "EDGE_UNREACHABLE" => flight'[s].status = flight[s].status
<1>1. \A t \in Sessions : Kept(t) /\ t # s => Stays
  BY DEF Kept
<1>2. ASSUME NEW t \in Sessions, Create(t) \/ Wait(t) PROVE Stays
  BY <1>1, <1>2, CreateEffect, WaitEffect DEF SameRecord
<1>3. ASSUME NEW t \in Sessions, Launch(t) \/ Fly(t) PROVE Stays
  BY <1>1, <1>3, LaunchEffect, FlyEffect
<1>4. ASSUME NEW t \in Edge, Watch(t) \/ Claim(t) PROVE Stays
  BY <1>1, <1>4, WatchEffect, ClaimEffect, ConstantTypes DEF SameRecord
<1>5. ASSUME NEW t \in Edge, Deliver(t) PROVE Stays
  <2> DEFINE up == local[t].log[local[t].sent + 1]
  <2>1. up.outcome # "none" => up.outcome \in Outcomes
    <3>1. up \in Update
      BY <1>5, DeliverEffect
    <3> QED  BY <3>1 DEF Update
  <2>2. t \in Sessions /\ Kept(t)
    BY <1>5, DeliverEffect, ConstantTypes
  <2>3. CASE t = s
    <3>1. \/ flight'[s].status = flight[s].status
          \/ flight[s].code = "EDGE_UNREACHABLE" /\ up.outcome # "none" /\ flight'[s].status = up.outcome
      BY <1>5, <2>3, DeliverEffect DEF SameRecord
    <3> QED  BY <2>1, <3>1
  <2> QED  BY <1>1, <2>2, <2>3
<1>6. ASSUME NEW c \in Commands, RunCommand(c) PROVE Stays
  BY <1>1, <1>6, RunCommandEffect DEF Dealt
<1> QED  BY <1>2, <1>3, <1>4, <1>5, <1>6, Writers

\* However the closes of an operator, the runner and the gateway race, an ended
\* session is not reopened, and only a verdict of silence gives way.
THEOREM EndedForGood == Spec => EndedStaysEnded
<1>1. TypeInv /\ [Next]_vars =>
        [\A s \in Sessions : flight[s].status \in Terminal =>
            /\ flight'[s].status \in Terminal
            /\ flight[s].code # "EDGE_UNREACHABLE" => flight'[s].status = flight[s].status]_flight
  <2>1. CASE Next
    BY <2>1, EndedStep
  <2>2. CASE UNCHANGED vars
    BY <2>2 DEF vars
  <2> QED  BY <2>1, <2>2
<1> QED  BY <1>1, TypesHold, PTL DEF Spec, EndedStaysEnded

-----------------------------------------------------------------------------
(* Claimed and flown; collected and carried out.                            *)

Granted(s) == pc.at = "granted" /\ pc.s = s

\* The record calls a gateway's session claimed exactly while it is airborne or has
\* flown, and the gateway has nothing of a session that it has not claimed.
ClaimedInv(s) ==
    /\ flight[s].claimed <=> flight[s].status \in Airborne \cup Outcomes
    /\ \/ local[s].known \/ local[s].outcome # "none" \/ local[s].log # <<>>
       \/ s \in mail.claimed \/ Granted(s) \/ air[s].at # "GROUND"
       => flight[s].claimed

\* A command is about a session that was created; the gateway collects the commands
\* of claimed sessions, and none that the runner has carried out.
WhoInv(c) ==
    /\ cmd[c].status # "none" => flight[cmd[c].s].status # "none"
    /\ inbox[c].at # "none" \/ c \in mail.commands => flight[cmd[c].s].claimed
    /\ "runner" \in hands[c] => cmd[c].status = "DONE" /\ inbox[c].at = "none" /\ c \notin mail.commands

ClaimsInv == TypeInv /\ (\A s \in Edge : ClaimedInv(s)) /\ \A c \in Commands : WhoInv(c)

\* What can become of the record of a gateway's session.
LEMMA RecordStep ==
    ASSUME ClaimsInv, Next, NEW s \in Edge
    PROVE  \/ SameRecord(s)
           \/ Create(s) /\ flight[s].status = "none" /\ Turned(s, "READY", "none")
           \/ flight[s].status \in BeforeLaunch /\ \E status \in {"CANCELLED", "BLOCKED"} : Turned(s, status, "none")
           \/ flight[s].status \in InFlight /\ ~flight[s].claimed /\ Turned(s, "MISSED", "EDGE_NOT_CLAIMED")
           \/ flight[s].status \in InFlight /\ flight[s].claimed /\ Turned(s, "FAILED", "EDGE_UNREACHABLE")
           \/ /\ Claim(s) /\ flight[s].status \in BeforeLaunch /\ flight'[s].status = "LAUNCHING"
              /\ flight'[s].claimed /\ flight'[s].code = flight[s].code /\ flight'[s].seq = flight[s].seq
           \/ Deliver(s) /\ flight[s].claimed /\ flight'[s].claimed
<1>0. TypeInv /\ s \in Sessions /\ ClaimedInv(s) /\ flight[s].status \in Statuses
  BY ConstantTypes, FlightFacts DEF ClaimsInv, TypeInv, Typed
<1>1. \A t \in Sessions : Kept(t) /\ t # s => SameRecord(s)
  BY <1>0 DEF Kept, SameRecord
<1>2. ASSUME NEW t \in Sessions, Create(t) \/ Wait(t)
      PROVE  SameRecord(s) \/ (Create(s) /\ flight[s].status = "none" /\ Turned(s, "READY", "none"))
  BY <1>0, <1>1, <1>2, CreateEffect, WaitEffect
<1>3. ASSUME NEW t \in Sessions, Launch(t) \/ Fly(t) PROVE SameRecord(s)
  BY <1>0, <1>1, <1>3, LaunchEffect, FlyEffect
<1>4. ASSUME NEW t \in Edge, Watch(t)
      PROVE  \/ SameRecord(s)
             \/ flight[s].status \in InFlight /\ ~flight[s].claimed /\ Turned(s, "MISSED", "EDGE_NOT_CLAIMED")
             \/ flight[s].status \in InFlight /\ flight[s].claimed /\ Turned(s, "FAILED", "EDGE_UNREACHABLE")
  BY <1>0, <1>1, <1>4, WatchEffect, ConstantTypes
<1>5. ASSUME NEW t \in Edge, Claim(t)
      PROVE  \/ SameRecord(s)
             \/ flight[s].status \in BeforeLaunch /\ Turned(s, "BLOCKED", "none")
             \/ /\ Claim(s) /\ flight[s].status \in BeforeLaunch /\ flight'[s].status = "LAUNCHING"
                /\ flight'[s].claimed /\ flight'[s].code = flight[s].code /\ flight'[s].seq = flight[s].seq
  BY <1>0, <1>1, <1>5, ClaimEffect, ConstantTypes
<1>6. ASSUME NEW t \in Edge, Deliver(t)
      PROVE  SameRecord(s) \/ (Deliver(s) /\ flight[s].claimed /\ flight'[s].claimed)
  <2>1. Kept(t) /\ t \in Sessions /\ (SameRecord(t) \/ (flight[t].claimed /\ flight'[t].claimed))
    BY <1>0, <1>6, DeliverEffect, ConstantTypes
  <2> QED  BY <1>1, <1>6, <2>1
<1>7. ASSUME NEW c \in Commands, RunCommand(c)
      PROVE  \/ SameRecord(s)
             \/ flight[s].status \in BeforeLaunch /\ Turned(s, "CANCELLED", "none")
  <2>1. CASE Dealt(c) /\ cmd[c].s = s
    <3>1. flight[s].status # "none" /\ ~flight[s].claimed
      BY <2>1 DEF Dealt, ClaimsInv, WhoInv
    <3>2. flight[s].status \in BeforeLaunch \cup Terminal
      BY <1>0, <3>1, StatusKinds DEF ClaimedInv, InFlight
    <3> QED  BY <2>1, <3>2 DEF Dealt, SameRecord
  <2>2. CASE Dealt(c) /\ cmd[c].s # s
    BY <1>1, <2>2 DEF Dealt
  <2>3. CASE UNCHANGED <<flight, cmd, air, hands>>
    BY <2>3 DEF SameRecord
  <2> QED  BY <1>0, <1>7, <2>1, <2>2, <2>3, RunCommandEffect
<1>8. flight' = flight => SameRecord(s)
  BY DEF SameRecord
<1> QED  BY <1>0, <1>2, <1>3, <1>4, <1>5, <1>6, <1>7, <1>8, Writers

\* A claim is for good.
LEMMA ClaimedStays ==
    ASSUME ClaimsInv, Next, NEW s \in Edge, flight[s].claimed
    PROVE  flight'[s].claimed
BY RecordStep DEF SameRecord, Turned

\* What can become of the aircraft of a gateway's session.
LEMMA EdgeAirStep ==
    ASSUME ClaimsInv, Next, NEW s \in Edge
    PROVE  \/ air'[s] = air[s]
           \/ Progress(s) /\ air[s].at # "GROUND"
           \/ StepFlight(s) /\ Live(s) /\ Told(s, "START")
           \/ \E c \in Commands : StepCommand(s, c) /\ Live(s) /\ Told(s, cmd[c].kind)
<1>0. TypeInv /\ s \in Sessions /\ ClaimedInv(s) /\ flight[s].status \in Statuses
  BY ConstantTypes, FlightFacts DEF ClaimsInv, TypeInv, Typed
<1>1. ASSUME NEW t \in Sessions, Progress(t) PROVE air'[s] = air[s] \/ (Progress(s) /\ air[s].at # "GROUND")
  BY <1>0, <1>1, ProgressEffect DEF Airborne
<1>2. ASSUME NEW t \in Sessions, Launch(t) PROVE air'[s] = air[s]
  BY <1>0, <1>2, LaunchEffect DEF Told
<1>3. ASSUME NEW t \in Edge, StepFlight(t)
      PROVE  air'[s] = air[s] \/ (StepFlight(s) /\ Live(s) /\ Told(s, "START"))
  BY <1>0, <1>3, StepFlightEffect DEF Told
<1>4. ASSUME NEW t \in Edge, NEW c \in Commands, StepCommand(t, c)
      PROVE  air'[s] = air[s] \/ (StepCommand(s, c) /\ Live(s) /\ Told(s, cmd[c].kind))
  BY <1>0, <1>4, StepCommandEffect DEF Told
<1>5. ASSUME NEW c \in Commands, RunCommand(c) PROVE air'[s] = air[s]
  <2>1. CASE Dealt(c) /\ cmd[c].s = s
    <3>1. flight[s].status # "none" /\ ~flight[s].claimed
      BY <2>1 DEF Dealt, ClaimsInv, WhoInv
    <3>2. flight[s].status \in BeforeLaunch \cup Terminal
      BY <1>0, <3>1, StatusKinds DEF ClaimedInv, InFlight
    <3> QED  BY <2>1, <3>2 DEF Dealt
  <2>2. CASE Dealt(c) /\ cmd[c].s # s
    BY <1>0, <2>2 DEF Dealt, Told
  <2> QED  BY <1>0, <1>5, <2>1, <2>2, RunCommandEffect
<1> QED  BY <1>1, <1>2, <1>3, <1>4, <1>5, Writers

\* What can become of a session in the gateway's table.
LEMMA LocalStep ==
    ASSUME TypeInv, Next, NEW s \in Edge
    PROVE  \/ local'[s] = local[s]
           \/ Deliver(s)
           \/ Prune(s)
           \/ /\ local'[s] = Added(s, local[s])
              /\ (Take /\ s \in mail.claimed) \/ (AddClaimed /\ Granted(s))
           \/ Record /\ pc.s = s
<1>1. ASSUME NEW t \in Edge, Deliver(t) PROVE local'[s] = local[s] \/ Deliver(s)
  BY <1>1, DeliverEffect DEF LocalKept
<1>2. ASSUME NEW t \in Edge, Prune(t) PROVE local'[s] = local[s] \/ Prune(s)
  BY <1>2, PruneEffect DEF LocalKept
<1>3. Take => local'[s] = local[s] \/ (local'[s] = Added(s, local[s]) /\ s \in mail.claimed)
  BY TakeEffect
<1>4. AddClaimed => local'[s] = local[s] \/ (local'[s] = Added(s, local[s]) /\ Granted(s))
  BY AddClaimedEffect DEF LocalKept, Granted
<1>5. Record => local'[s] = local[s] \/ pc.s = s
  BY RecordEffect DEF LocalKept
<1> QED  BY <1>1, <1>2, <1>3, <1>4, <1>5, Writers

LEMMA PromisedStep ==
    ASSUME TypeInv, Next, NEW s \in Edge
    PROVE  /\ s \in mail'.claimed => s \in mail.claimed \/ (flight[s].claimed /\ flight[s].status \in InFlight /\ flight' = flight)
           /\ Granted(s)' => \/ Granted(s)
                             \/ Claim(s) /\ flight'[s].claimed /\ flight'[s].status \in InFlight
<1>1. s \in mail'.claimed => s \in mail.claimed \/ (flight[s].claimed /\ flight[s].status \in InFlight /\ flight' = flight)
  <2>1. s \notin NoMail.claimed
    BY DEF NoMail
  <2>2. Sync => (s \in mail'.claimed => flight[s].claimed /\ flight[s].status \in InFlight /\ flight' = flight)
    BY DEF Sync, centre
  <2> QED  BY <2>1, <2>2, Writers DEF Take, LoseMail, Crash
<1>2. Granted(s)' => Granted(s) \/ (Claim(s) /\ flight'[s].claimed /\ flight'[s].status \in InFlight)
  <2>1. ASSUME NEW t \in Edge, Claim(t), pc.at = "claim", pc.s = t, pc' = [pc EXCEPT !.at = "granted"]
        PROVE  Granted(s)' => Claim(s) /\ flight'[s].claimed /\ flight'[s].status \in InFlight
    <3>1. pc'.at = "granted" /\ pc'.s = t /\ pc \in PcRec
      BY <2>1 DEF TypeInv, Typed, PcRec
    <3>2. pc' # pc /\ pc' # Idle
      BY <2>1, <3>1 DEF Idle
    <3>3. flight'[t].claimed /\ flight'[t].status \in InFlight
      BY <2>1, <3>2, ClaimEffect
    <3> QED  BY <2>1, <3>1, <3>3 DEF Granted
  <2>2. pc' = Idle => ~Granted(s)'
    BY DEF Idle, Granted
  <2>3. pc' = pc => (Granted(s)' <=> Granted(s))
    BY DEF Granted
  <2>4. ASSUME NEW t \in Edge, pc' = [Idle EXCEPT !.at = "claim", !.s = t] PROVE ~Granted(s)'
    BY <2>4 DEF Idle, Granted
  <2>5. ASSUME NEW t \in Edge, NEW c, Calling(t, c) PROVE ~Granted(s)'
    BY <2>5 DEF Calling, Granted
  <2>6. pc' = [pc EXCEPT !.at = "recorded"] => ~Granted(s)'
    BY DEF TypeInv, Typed, PcRec, Granted
  <2> QED  BY <2>1, <2>2, <2>3, <2>4, <2>5, <2>6, PcStep
<1> QED  BY <1>1, <1>2

\* A session that was created is a session for good.
LEMMA CreatedStays ==
    ASSUME TypeInv, Next, NEW s \in Sessions, flight[s].status # "none"
    PROVE  flight'[s].status # "none"
<1>1. \A t \in Sessions : Kept(t) /\ t # s => flight'[s].status # "none"
  BY DEF Kept
<1>2. ASSUME NEW t \in Sessions, Create(t) \/ Wait(t) PROVE flight'[s].status # "none"
  BY <1>1, <1>2, CreateEffect, WaitEffect DEF SameRecord
<1>3. ASSUME NEW t \in Sessions, Launch(t) PROVE flight'[s].status # "none"
  BY <1>1, <1>3, LaunchEffect
<1>4. ASSUME NEW t \in Sessions, Fly(t) PROVE flight'[s].status # "none"
  BY <1>1, <1>4, FlyEffect
<1>5. ASSUME NEW t \in Edge, Watch(t) \/ Claim(t) PROVE flight'[s].status # "none"
  BY <1>1, <1>5, WatchEffect, ClaimEffect, ConstantTypes DEF SameRecord, Turned
<1>6. ASSUME NEW t \in Edge, Deliver(t) PROVE flight'[s].status # "none"
  BY <1>1, <1>6, DeliverEffect, StatusKinds, ConstantTypes DEF SameRecord, Airborne
<1>7. ASSUME NEW c \in Commands, RunCommand(c) PROVE flight'[s].status # "none"
  BY <1>1, <1>7, RunCommandEffect DEF Dealt, Turned
<1> QED  BY <1>2, <1>3, <1>4, <1>5, <1>6, <1>7, Writers

LEMMA ClaimedStep ==
    ASSUME ClaimsInv, Next, NEW s \in Edge
    PROVE  ClaimedInv(s)'
<1>0. /\ TypeInv /\ s \in Sessions /\ ClaimedInv(s) /\ flight[s].status \in Statuses
      /\ flight[s].claimed \in BOOLEAN
  <2>1. flight[s] \in FlightRec
    BY ConstantTypes DEF ClaimsInv, TypeInv, Typed
  <2>2. flight[s].claimed \in BOOLEAN
    BY <2>1, Zenon DEF FlightRec
  <2> QED  BY <2>2, ConstantTypes, FlightFacts DEF ClaimsInv, TypeInv, Typed
<1>1. flight'[s].claimed <=> flight'[s].status \in Airborne \cup Outcomes
  <2>1. CASE SameRecord(s)
    BY <1>0, <2>1 DEF SameRecord, ClaimedInv
  <2>2. CASE flight[s].status = "none" /\ Turned(s, "READY", "none")
    BY <1>0, <2>2, StatusKinds DEF Turned, ClaimedInv, Airborne, Outcomes
  <2>3. CASE flight[s].status \in BeforeLaunch /\ \E status \in {"CANCELLED", "BLOCKED"} : Turned(s, status, "none")
    BY <1>0, <2>3 DEF Turned, ClaimedInv, Airborne, Outcomes, BeforeLaunch
  <2>4. CASE flight[s].status \in InFlight /\ ~flight[s].claimed /\ Turned(s, "MISSED", "EDGE_NOT_CLAIMED")
    BY <1>0, <2>4 DEF Turned, Airborne, Outcomes
  <2>5. CASE flight[s].status \in InFlight /\ flight[s].claimed /\ Turned(s, "FAILED", "EDGE_UNREACHABLE")
    BY <1>0, <2>5 DEF Turned, Airborne, Outcomes
  <2>6. CASE flight'[s].status = "LAUNCHING" /\ flight'[s].claimed
    BY <2>6 DEF Airborne
  <2>7. CASE Deliver(s) /\ flight[s].claimed /\ flight'[s].claimed
    <3> DEFINE up == local[s].log[local[s].sent + 1]
    <3>1. flight[s].status \in Airborne \cup Outcomes
      BY <1>0, <2>7 DEF ClaimedInv
    <3>2. up.outcome \in Outcomes \cup {"none"}
      <4>1. up \in Update
        BY <1>0, <2>7, DeliverEffect
      <4> QED  BY <4>1 DEF Update
    <3>3. \/ flight'[s].status = flight[s].status
          \/ up.outcome # "none" /\ flight'[s].status = up.outcome
          \/ flight'[s].status \in Airborne
      <4>1. CASE SameRecord(s)
        BY <4>1 DEF SameRecord
      <4>2. CASE ~SameRecord(s)
        BY <1>0, <2>7, <4>2, DeliverEffect
      <4> QED  BY <4>1, <4>2
    <3> QED  BY <2>7, <3>1, <3>2, <3>3
  <2> QED  BY <2>1, <2>2, <2>3, <2>4, <2>5, <2>6, <2>7, RecordStep
<1>2. flight[s].claimed => flight'[s].claimed
  BY ClaimedStays
<1>3. s \in mail'.claimed => flight'[s].claimed
  BY <1>0, <1>2, PromisedStep DEF ClaimedInv
<1>4. Granted(s)' => flight'[s].claimed
  BY <1>0, <1>2, PromisedStep DEF ClaimedInv
<1>5. air'[s].at # "GROUND" => flight'[s].claimed
  BY <1>0, <1>2, EdgeAirStep DEF ClaimedInv, Live
<1>6. local'[s].known \/ local'[s].outcome # "none" \/ local'[s].log # <<>> => flight'[s].claimed
  <2>1. CASE local'[s] = local[s]
    BY <1>0, <1>2, <2>1 DEF ClaimedInv
  <2>2. CASE Deliver(s)
    BY <1>0, <1>2, <2>2, DeliverEffect DEF ClaimedInv
  <2>3. CASE Prune(s)
    BY <1>0, <1>2, <2>3, PruneEffect DEF ClaimedInv
  <2>4. CASE s \in mail.claimed \/ Granted(s)
    BY <1>0, <1>2, <2>4 DEF ClaimedInv
  <2>5. CASE Record /\ pc.s = s
    <3>1. air[s].at # "GROUND"
      BY <1>0, <2>5 DEF Record, TypeInv, Busy
    <3> QED  BY <1>0, <1>2, <3>1 DEF ClaimedInv
  <2> QED  BY <1>0, <2>1, <2>2, <2>3, <2>4, <2>5, LocalStep
<1> QED  BY <1>1, <1>3, <1>4, <1>5, <1>6 DEF ClaimedInv, Granted

LEMMA WhoStep ==
    ASSUME ClaimsInv, Next, NEW c \in Commands
    PROVE  WhoInv(c)'
<1>0. TypeInv /\ WhoInv(c) /\ Given(c) /\ "DONE" \in Answers
  BY DEF ClaimsInv, TypeInv, Answers
<1>1. cmd'[c].status # "none" => flight'[cmd'[c].s].status # "none"
  <2>1. CASE cmd[c].status # "none"
    <3>1. cmd[c].s \in Sessions /\ flight[cmd[c].s].status # "none" /\ cmd'[c].s = cmd[c].s
      BY <1>0, <2>1, CmdStep DEF WhoInv, Given
    <3> QED  BY <1>0, <3>1, CreatedStays
  <2>2. CASE cmd[c].status = "none"
    <3>1. ASSUME NEW d \in Commands, NEW s \in Sessions, NEW kind \in Kinds, Judge(d, s, kind)
          PROVE  cmd'[c].status # "none" => flight'[cmd'[c].s].status # "none"
      <4>1. flight[s].status # "none" /\ flight' = flight
        BY <3>1 DEF Judge, Allowed, InFlight, BeforeLaunch, Airborne
      <4>2. cmd'[c].status # "none" => cmd'[c].s = s
        BY <2>2, <3>1, <1>0 DEF Judge, TypeInv, Typed
      <4> QED  BY <4>1, <4>2
    <3>2. ASSUME NEW d \in Commands, Insert(d) \/ RunCommand(d) \/ DeliverResult(d)
          PROVE  cmd'[c].status = "none"
      <4>1. cmd'[c] = cmd[c] \/ cmd'[c].status = "checked"
        BY <1>0, <2>2, CmdStep
      <4>2. CASE Insert(d)
        BY <1>0, <2>2, <4>2 DEF Insert, TypeInv, Typed
      <4>3. CASE RunCommand(d)
        BY <1>0, <2>2, <4>3, RunCommandEffect DEF Dealt, Answered
      <4>4. CASE DeliverResult(d)
        BY <1>0, <2>2, <4>4, DeliverResultEffect DEF TypeInv, Typed
      <4> QED  BY <3>2, <4>2, <4>3, <4>4
    <3> QED  BY <2>2, <3>1, <3>2, Writers
  <2> QED  BY <2>1, <2>2
<1>2. inbox'[c].at # "none" \/ c \in mail'.commands => flight'[cmd'[c].s].claimed
  <2> SUFFICES ASSUME inbox'[c].at # "none" \/ c \in mail'.commands PROVE flight'[cmd'[c].s].claimed
    OBVIOUS
  <2>1. /\ cmd[c].status # "none" /\ cmd[c].s \in Edge
        /\ inbox[c].at # "none" \/ c \in mail.commands \/ (Sync /\ GatewaysOwn(c))
    <3>1. c \notin NoMail.commands
      BY DEF NoMail
    <3>2. Sync => (c \in mail'.commands => cmd[c].status = "PENDING" /\ GatewaysOwn(c))
      BY DEF Sync
    <3>3. inbox[c].at # "none" \/ c \in mail.commands \/ (Sync /\ cmd[c].status = "PENDING" /\ GatewaysOwn(c))
      BY <1>0, <3>1, <3>2, InboxStep, Writers DEF Take, LoseMail, Crash
    <3> QED  BY <1>0, <3>3 DEF Given, GatewaysOwn
  <2>2. cmd'[c].s = cmd[c].s
    BY <1>0, <2>1, CmdStep
  <2>3. flight[cmd[c].s].claimed
    BY <1>0, <2>1 DEF WhoInv, GatewaysOwn
  <2> QED  BY <2>1, <2>2, <2>3, ClaimedStays
<1>3. "runner" \in hands'[c] => cmd'[c].status = "DONE" /\ inbox'[c].at = "none" /\ c \notin mail'.commands
  <2>1. ASSUME "runner" \in hands[c]
        PROVE  cmd'[c].status = "DONE" /\ inbox'[c].at = "none" /\ c \notin mail'.commands
    <3>1. cmd[c].status = "DONE" /\ inbox[c].at = "none" /\ c \notin mail.commands
      BY <1>0, <2>1 DEF WhoInv
    <3>2. c \notin mail'.commands
      <4>1. c \notin NoMail.commands
        BY DEF NoMail
      <4>2. Sync => c \notin mail'.commands
        BY <3>1 DEF Sync
      <4> QED  BY <3>1, <4>1, <4>2, Writers DEF Take, LoseMail, Crash
    <3> QED  BY <1>0, <3>1, <3>2, CmdStep, InboxStep
  <2>2. ASSUME "runner" \notin hands[c], "runner" \in hands'[c]
        PROVE  cmd'[c].status = "DONE" /\ inbox'[c].at = "none" /\ c \notin mail'.commands
    <3>0. hands \in [Commands -> SUBSET {"runner", "gateway"}]
      BY <1>0 DEF TypeInv, Typed
    <3>1. ~FinishCommand
      BY <1>0, <2>2, <3>0, FinishCommandEffect
    <3>2. RunCommand(c) /\ Dealt(c) /\ cmd'[c].status = "DONE"
      <4>1. ASSUME NEW d \in Commands, RunCommand(d), Dealt(d) PROVE RunCommand(c) /\ Dealt(c) /\ cmd'[c].status = "DONE"
        <5>1. hands' = [hands EXCEPT ![d] = @ \cup {"runner"}] /\ cmd'[d].status = "DONE"
          BY <2>2, <4>1 DEF Dealt
        <5>2. d = c
          BY <2>2, <3>0, <5>1
        <5> QED  BY <4>1, <5>1, <5>2
      <4> QED  BY <1>0, <2>2, <3>1, <4>1, RunCommandEffect, Writers
    <3>3. UNCHANGED <<inbox, mail>>
      BY <3>2 DEF RunCommand, gateway, link
    <3>4. inbox[c].at = "none" /\ c \notin mail.commands
      <4>1. inbox[c].at # "none" \/ c \in mail.commands => cmd[c].s \in Edge /\ flight[cmd[c].s].claimed
        BY <1>0 DEF Given, WhoInv
      <4> QED  BY <3>2, <4>1 DEF Dealt
    <3> QED  BY <3>2, <3>3, <3>4
  <2> QED  BY <2>1, <2>2
<1> QED  BY <1>1, <1>2, <1>3 DEF WhoInv

LEMMA ClaimsInit == Init => ClaimsInv
<1>1. ASSUME Init PROVE \A s \in Edge : ClaimedInv(s)
  BY <1>1, ConstantTypes DEF Init, ClaimedInv, Granted, Idle, NoMail, Airborne, Outcomes
<1>2. ASSUME Init PROVE \A c \in Commands : WhoInv(c)
  BY <1>2 DEF Init, WhoInv, NoMail
<1> QED  BY <1>1, <1>2, InitTypes DEF ClaimsInv

LEMMA ClaimsStep == ClaimsInv /\ [Next]_vars => ClaimsInv'
<1>1. CASE Next
  BY <1>1, TypeStep, ClaimedStep, WhoStep DEF ClaimsInv
<1>2. CASE UNCHANGED vars
  <2>1. ClaimsInv => TypeInv'
    BY <1>2, TypeStep DEF ClaimsInv
  <2> QED  BY <1>2, <2>1 DEF vars, ClaimsInv, ClaimedInv, WhoInv, Granted
<1> QED  BY <1>1, <1>2

LEMMA ClaimsHold == Spec => []ClaimsInv
BY ClaimsInit, ClaimsStep, PTL DEF Spec

\* A session closed before launch has never flown, and the gateway has never heard
\* that it may: for any number of sessions, commands, restarts and lost messages.
THEOREM ClosedIsGrounded == Spec => []ClosedNeverFlew
<1>1. ClaimsInv => ClosedNeverFlew
  <2> SUFFICES ASSUME ClaimsInv, NEW s \in Edge, flight[s].status \in {"CANCELLED", "BLOCKED", "MISSED"}
               PROVE  air[s].at = "GROUND" /\ ~local[s].known
    BY DEF ClosedNeverFlew
  <2>1. ~flight[s].claimed
    BY StatusKinds DEF ClaimsInv, ClaimedInv
  <2> QED  BY <2>1 DEF ClaimsInv, ClaimedInv
<1> QED  BY <1>1, ClaimsHold, PTL

\* A command is carried out by the runner or collected by the gateway, never both.
THEOREM CommandsHaveOneHand == Spec => []OneCommander
<1>1. ClaimsInv => OneCommander
  BY DEF ClaimsInv, WhoInv, OneCommander
<1> QED  BY <1>1, ClaimsHold, PTL

-----------------------------------------------------------------------------
(* What the gateway's disk says of the flight.                              *)

Down(s) == air[s].at \in {"RETURNING", "LANDED"}

\* What is on the disk is behind the aircraft, never ahead of it; the outcome is the
\* last word of the log; and a flight forgotten had ended and was reported.
FlownInv(s) ==
    /\ ~local[s].known /\ local[s].outcome = "none" => local[s].log = <<>>
    /\ ~local[s].known /\ local[s].outcome # "none" =>
         local[s].sent = Len(local[s].log) /\ s \notin mail.claimed /\ ~Granted(s)
    /\ air[s].at # "GROUND" => local[s].known \/ local[s].outcome # "none"
    /\ local[s].phase = "RETURNING" => Down(s)
    /\ local[s].outcome # "none" => air[s].at = "LANDED" /\ local[s].log # <<>>
    /\ air[s].result # "none" <=> air[s].at = "LANDED"
    /\ \A i \in 1..Len(local[s].log) :
         local[s].log[i].outcome = IF i = Len(local[s].log) THEN local[s].outcome ELSE "none"
    /\ local[s].outcome # "none" /\ local[s].sent = Len(local[s].log) => flight[s].status \in Terminal
    /\ pc.at = "called" /\ pc.s = s =>
         /\ Live(s)
         /\ pc.up.phase = "RETURNING" => Down(s)
         /\ pc.up.outcome # "none" => air[s].at = "LANDED"

DiskInv == ClaimsInv /\ \A s \in Edge : FlownInv(s)

\* Who is on the way home or down stays so.
LEMMA DownStep ==
    ASSUME TypeInv, Next, NEW s \in Sessions
    PROVE  /\ Down(s) => Down(s)'
           /\ air[s].at = "LANDED" => air'[s].at = "LANDED"
           /\ (air[s].result # "none" <=> air[s].at = "LANDED") => (air'[s].result # "none" <=> air'[s].at = "LANDED")
<1> DEFINE Same == /\ Down(s) => Down(s)'
                   /\ air[s].at = "LANDED" => air'[s].at = "LANDED"
                   /\ (air[s].result # "none" <=> air[s].at = "LANDED")
                      => (air'[s].result # "none" <=> air'[s].at = "LANDED")
<1>0. air[s] \in AirRec
  BY DEF TypeInv, Typed
<1>1. air'[s] = air[s] => Same
  BY DEF Down
<1>2. ASSUME NEW t \in Sessions, NEW what, Told(t, what) PROVE Same
  BY <1>0, <1>1, <1>2, ObeyedTypes DEF Told, Down
<1>3. ASSUME NEW t \in Sessions, Progress(t) PROVE Same
  BY <1>1, <1>3, ProgressEffect DEF Down, Airborne
<1>4. ASSUME NEW t \in Sessions, Launch(t) PROVE Same
  BY <1>1, <1>2, <1>4, LaunchEffect
<1>5. ASSUME NEW t \in Edge, StepFlight(t) PROVE Same
  BY <1>2, <1>5, StepFlightEffect, ConstantTypes
<1>6. ASSUME NEW t \in Edge, NEW c \in Commands, StepCommand(t, c) PROVE Same
  BY <1>2, <1>6, StepCommandEffect, ConstantTypes
<1>7. ASSUME NEW c \in Commands, RunCommand(c) PROVE Same
  BY <1>1, <1>2, <1>7, RunCommandEffect DEF Dealt
<1> QED  BY <1>1, <1>3, <1>4, <1>5, <1>6, <1>7, Writers

\* A session comes into the table with nothing logged.
LEMMA AddedFresh ==
    ASSUME DiskInv, NEW s \in Edge, ~local[s].known, s \in mail.claimed \/ Granted(s)
    PROVE  LET m == Added(s, local[s])
           IN  m.known /\ ~m.started /\ m.phase = "none" /\ m.outcome = "none" /\ m.log = <<>> /\ m.sent = 0
<1>1. local[s] \in LocalRec /\ local[s].log = <<>> /\ Logged(s) /\ local[s].sent \in Nat /\ flight[s].seq \in 0..MaxUpdates
  BY ConstantTypes, LocalFields, FlightFacts DEF DiskInv, FlownInv, ClaimsInv, TypeInv, Typed
<1>2. flight[s].seq = 0 /\ flight[s].seq <= Len(local[s].log)
  BY <1>1, ConstantTypes DEF Logged
<1>3. /\ Added(s, local[s]).known /\ (Added(s, local[s]).started <=> flight[s].seq > 0)
      /\ Added(s, local[s]).phase = "none" /\ Added(s, local[s]).outcome = "none"
      /\ Added(s, local[s]).sent = flight[s].seq
      /\ Len(Added(s, local[s]).log) = flight[s].seq /\ Added(s, local[s]).log \in Seq(Update)
  BY <1>1, <1>2, AddedTypes
<1>4. Added(s, local[s]).log = <<>>
  BY <1>2, <1>3, EmptySeq
<1> QED  BY <1>2, <1>3, <1>4

\* What can become of the gateway's table, once it is known what it holds.
LEMMA TableStep ==
    ASSUME DiskInv, Next, NEW s \in Edge
    PROVE  \/ local'[s] = local[s]
           \/ Deliver(s)
           \/ Prune(s)
           \/ /\ ~local[s].known /\ local[s].outcome = "none" /\ (s \in mail.claimed \/ Granted(s))
              /\ local'[s].known /\ ~local'[s].started /\ local'[s].phase = "none" /\ local'[s].outcome = "none"
              /\ local'[s].log = <<>> /\ local'[s].sent = 0
           \/ Record /\ pc.s = s /\ Live(s)
<1>1. TypeInv /\ FlownInv(s)
  BY DEF DiskInv, ClaimsInv
<1>2. ASSUME local'[s] = Added(s, local[s]), s \in mail.claimed \/ Granted(s)
      PROVE  \/ local'[s] = local[s]
             \/ /\ ~local[s].known /\ local[s].outcome = "none" /\ (s \in mail.claimed \/ Granted(s))
                /\ local'[s].known /\ ~local'[s].started /\ local'[s].phase = "none" /\ local'[s].outcome = "none"
                /\ local'[s].log = <<>> /\ local'[s].sent = 0
  <2>1. CASE local[s].known
    BY <1>2, <2>1 DEF Added
  <2>2. CASE ~local[s].known
    BY <1>1, <1>2, <2>2, AddedFresh DEF FlownInv
  <2> QED  BY <2>1, <2>2
<1>3. Record /\ pc.s = s => Live(s)
  BY <1>1, RecordEffect DEF FlownInv
<1> QED  BY <1>1, <1>2, <1>3, LocalStep

LEMMA FlownStep ==
    ASSUME DiskInv, Next, NEW s \in Edge
    PROVE  FlownInv(s)'
<1>0. /\ TypeInv /\ ClaimsInv /\ FlownInv(s) /\ ClaimedInv(s) /\ s \in Sessions
      /\ local[s] \in LocalRec /\ local[s].log \in Seq(Update)
      /\ local[s].sent \in Nat /\ Len(local[s].log) \in Nat /\ local[s].sent <= Len(local[s].log)
  BY ConstantTypes, LocalFields DEF DiskInv, ClaimsInv, TypeInv, Typed, Logged
<1>1. /\ Down(s) => Down(s)'
      /\ air[s].at = "LANDED" => air'[s].at = "LANDED"
      /\ air'[s].result # "none" <=> air'[s].at = "LANDED"
  BY <1>0, DownStep DEF FlownInv
<1>2. ASSUME Deliver(s) \/ Prune(s)
      PROVE  /\ local'[s].outcome = local[s].outcome /\ local'[s].log = local[s].log /\ local'[s].phase = local[s].phase
             /\ Prune(s) => /\ local[s].outcome # "none" /\ local[s].sent = Len(local[s].log)
                            /\ local'[s].sent = local[s].sent /\ pc = Idle /\ mail = NoMail
             /\ Deliver(s) => /\ local'[s].known = local[s].known /\ local[s].sent < Len(local[s].log)
                              /\ local'[s].sent = local[s].sent + 1
  BY <1>0, <1>2, DeliverEffect, PruneEffect
<1>3. ASSUME Record, pc.s = s, Live(s)
      PROVE  /\ pc.at = "called" /\ local[s].outcome = "none" /\ local'[s].known
             /\ local'[s].outcome = pc.up.outcome /\ local'[s].phase = pc.up.phase
             /\ Len(local'[s].log) = Len(local[s].log) + 1 /\ local'[s].sent = local[s].sent
             /\ local'[s].log[Len(local'[s].log)] = pc.up
             /\ \A i \in 1..Len(local[s].log) : local'[s].log[i] = local[s].log[i]
  BY <1>0, <1>3, RecordEffect DEF Live
<1>4. ~local'[s].known /\ local'[s].outcome = "none" => local'[s].log = <<>>
  BY <1>0, <1>2, <1>3, TableStep DEF FlownInv
<1>5. local'[s].known \/ local'[s].outcome # "none" \/ ~(local[s].known \/ local[s].outcome # "none")
  BY <1>0, <1>2, <1>3, TableStep DEF FlownInv
<1>6. air'[s].at # "GROUND" => local'[s].known \/ local'[s].outcome # "none"
  BY <1>0, <1>5, EdgeAirStep DEF FlownInv, Live
<1>7. local'[s].phase = "RETURNING" => Down(s)'
  BY <1>0, <1>1, <1>2, <1>3, TableStep DEF FlownInv
<1>8. local'[s].outcome # "none" => air'[s].at = "LANDED" /\ local'[s].log # <<>>
  <2>1. Record /\ pc.s = s /\ Live(s) => local'[s].log # <<>>
    <3>1. local'[s].log = <<>> => Len(local'[s].log) = 0
      OBVIOUS
    <3> QED  BY <1>0, <1>3, <3>1
  <2> QED  BY <1>0, <1>1, <1>2, <1>3, <2>1, TableStep DEF FlownInv
<1>9. \A i \in 1..Len(local'[s].log) :
        local'[s].log[i].outcome = IF i = Len(local'[s].log) THEN local'[s].outcome ELSE "none"
  <2>1. CASE Record /\ pc.s = s /\ Live(s)
    <3> SUFFICES ASSUME NEW i \in 1..Len(local'[s].log)
                 PROVE  local'[s].log[i].outcome = IF i = Len(local'[s].log) THEN local'[s].outcome ELSE "none"
      OBVIOUS
    <3>1. CASE i = Len(local'[s].log)
      BY <1>3, <2>1, <3>1
    <3>2. CASE i # Len(local'[s].log)
      <4>1. i \in 1..Len(local[s].log) /\ local'[s].log[i] = local[s].log[i]
        BY <1>0, <1>3, <2>1, <3>2
      <4> QED  BY <1>0, <1>3, <2>1, <3>2, <4>1 DEF FlownInv
    <3> QED  BY <3>1, <3>2
  <2>2. CASE local'[s].log = <<>>
    BY <2>2
  <2>3. CASE local'[s].log = local[s].log /\ local'[s].outcome = local[s].outcome
    BY <1>0, <2>3 DEF FlownInv
  <2> QED  BY <1>2, <2>1, <2>2, <2>3, TableStep
<1>10. local'[s].outcome # "none" /\ local'[s].sent = Len(local'[s].log) => flight'[s].status \in Terminal
  <2> SUFFICES ASSUME local'[s].outcome # "none", local'[s].sent = Len(local'[s].log)
               PROVE  flight'[s].status \in Terminal
    OBVIOUS
  <2>1. CASE Deliver(s)
    <3> DEFINE n == local[s].sent + 1
               up == local[s].log[n]
    <3>1. n = Len(local[s].log) /\ n \in 1..Len(local[s].log) /\ local[s].outcome # "none"
      BY <1>0, <1>2, <2>1
    <3>2. up.outcome = local[s].outcome /\ up.outcome \in Outcomes
      <4>1. up.outcome = local[s].outcome
        BY <1>0, <3>1 DEF FlownInv
      <4> QED  BY <1>0, <3>1, <4>1, LocalFields
    <3>3. flight[s].claimed
      BY <1>0, <3>1 DEF ClaimedInv
    <3>4. \/ flight'[s].status = flight[s].status /\ flight[s].status \in Terminal
          \/ up.outcome # "none" /\ flight'[s].status = up.outcome
      <4>1. CASE SameRecord(s)
        BY <1>0, <2>1, <3>1, <3>2, <3>3, <4>1, DeliverEffect DEF SameRecord
      <4>2. CASE ~SameRecord(s)
        BY <1>0, <2>1, <3>1, <3>2, <3>3, <4>2, DeliverEffect
      <4> QED  BY <4>1, <4>2
    <3> QED  BY <3>2, <3>4, StatusKinds
  <2>2. CASE local'[s] = local[s] \/ Prune(s)
    <3>1. flight[s].status \in Terminal
      BY <1>0, <1>2, <2>2 DEF FlownInv
    <3> QED  BY <1>0, <3>1, EndedStep
  <2>3. CASE Record /\ pc.s = s /\ Live(s)
    BY <1>0, <1>3, <2>3
  <2> QED  BY <2>1, <2>2, <2>3, TableStep
<1>11. ~local'[s].known /\ local'[s].outcome # "none" =>
         local'[s].sent = Len(local'[s].log) /\ s \notin mail'.claimed /\ ~Granted(s)'
  <2> SUFFICES ASSUME ~local'[s].known, local'[s].outcome # "none"
               PROVE  local'[s].sent = Len(local'[s].log) /\ s \notin mail'.claimed /\ ~Granted(s)'
    OBVIOUS
  <2>1. CASE local'[s] = local[s]
    <3>1. local[s].sent = Len(local[s].log) /\ s \notin mail.claimed /\ ~Granted(s) /\ flight[s].status \in Terminal
      BY <1>0, <2>1 DEF FlownInv
    <3>2. flight'[s].status \in Terminal
      BY <1>0, <3>1, EndedStep
    <3> QED  BY <1>0, <2>1, <3>1, <3>2, PromisedStep, StatusKinds
  <2>2. CASE Prune(s)
    <3>1. UNCHANGED <<pc, mail>>
      BY <2>2 DEF Prune, link
    <3>2. s \notin mail.claimed /\ ~Granted(s)
      BY <1>2, <2>2 DEF NoMail, Idle, Granted
    <3> QED  BY <1>2, <2>2, <3>1, <3>2 DEF Granted
  <2>3. ~Deliver(s)
    BY <1>0, <1>2 DEF FlownInv
  <2> QED  BY <1>3, <2>1, <2>2, <2>3, TableStep
<1>12. pc'.at = "called" /\ pc'.s = s =>
         /\ Live(s)'
         /\ pc'.up.phase = "RETURNING" => Down(s)'
         /\ pc'.up.outcome # "none" => air'[s].at = "LANDED"
  <2> SUFFICES ASSUME pc'.at = "called", pc'.s = s
               PROVE  /\ Live(s)'
                      /\ pc'.up.phase = "RETURNING" => Down(s)'
                      /\ pc'.up.outcome # "none" => air'[s].at = "LANDED"
    OBVIOUS
  <2>1. CASE pc' = pc
    <3>1. /\ Live(s) /\ (pc.up.phase = "RETURNING" => Down(s))
          /\ (pc.up.outcome # "none" => air[s].at = "LANDED")
      BY <1>0, <2>1 DEF FlownInv
    <3>2. ~Prune(s)
      BY <1>2, <2>1 DEF Idle
    <3>3. ~Record
      BY <1>0, <2>1, RecordEffect DEF Idle, TypeInv, Typed, PcRec
    <3>4. Live(s)'
      BY <1>2, <3>1, <3>2, <3>3, TableStep DEF Live
    <3> QED  BY <1>1, <2>1, <3>1, <3>4
  <2>2. ASSUME NEW c, NEW t \in Edge, Live(t), local' = local, Calling(t, c)
        PROVE  /\ Live(s)'
               /\ pc'.up.phase = "RETURNING" => Down(s)'
               /\ pc'.up.outcome # "none" => air'[s].at = "LANDED"
    BY <1>1, <2>2 DEF Calling, Live, Down
  <2>3. ASSUME NEW t \in Edge, StepFlight(t), Calling(t, None)
        PROVE  /\ Live(s)'
               /\ pc'.up.phase = "RETURNING" => Down(s)'
               /\ pc'.up.outcome # "none" => air'[s].at = "LANDED"
    BY <1>0, <2>2, <2>3, StepFlightEffect DEF StepFlight
  <2>4. ASSUME NEW t \in Edge, NEW c \in Commands, StepCommand(t, c), Calling(t, c)
        PROVE  /\ Live(s)'
               /\ pc'.up.phase = "RETURNING" => Down(s)'
               /\ pc'.up.outcome # "none" => air'[s].at = "LANDED"
    BY <1>0, <2>2, <2>4, StepCommandEffect DEF StepCommand
  <2>5. pc' # Idle
    BY DEF Idle
  <2>6. pc' # [pc EXCEPT !.at = "granted"] /\ pc' # [pc EXCEPT !.at = "recorded"]
    BY <1>0 DEF TypeInv, Typed, PcRec
  <2>7. \A t \in Edge : pc' # [Idle EXCEPT !.at = "claim", !.s = t]
    BY DEF Idle
  <2> QED  BY <1>0, <2>1, <2>3, <2>4, <2>5, <2>6, <2>7, PcStep
<1> QED  BY <1>1, <1>4, <1>6, <1>7, <1>8, <1>9, <1>10, <1>11, <1>12 DEF FlownInv, Granted, Live, Down

LEMMA DiskInit == Init => DiskInv
<1>1. ASSUME Init, NEW s \in Edge PROVE FlownInv(s)
  BY <1>1, ConstantTypes DEF Init, FlownInv, Idle, Down
<1> QED  BY <1>1, ClaimsInit DEF DiskInv

LEMMA DiskStep == DiskInv /\ [Next]_vars => DiskInv'
<1>1. CASE Next
  BY <1>1, ClaimsStep, FlownStep DEF DiskInv
<1>2. CASE UNCHANGED vars
  BY <1>2, ClaimsStep DEF vars, DiskInv, FlownInv, Granted, Live, Down
<1> QED  BY <1>1, <1>2

LEMMA DiskHolds == Spec => []DiskInv
BY DiskInit, DiskStep, PTL DEF Spec

-----------------------------------------------------------------------------
(* Stops.                                                                   *)

Stop == {"CANCEL", "ABORT"}

\* A stop of a gateway's session that was carried out, or is being, has worked.
StopInv(c) ==
    cmd[c].kind \in Stop /\ cmd[c].s \in Edge =>
        /\ cmd[c].status = "DONE" => flight[cmd[c].s].status = "CANCELLED" \/ Down(cmd[c].s)
        /\ inbox[c].at \in {"done", "sent"} /\ inbox[c].result = "DONE" => Down(cmd[c].s)
        /\ pc.c = c => Down(cmd[c].s)

StopsInv == DiskInv /\ \A c \in Commands : StopInv(c)

\* What is closed before launch stays closed: the gateway has no news of it.
LEMMA CancelledStays ==
    ASSUME ClaimsInv, Next, NEW s \in Edge, flight[s].status = "CANCELLED"
    PROVE  flight'[s].status = "CANCELLED"
<1>1. ~flight[s].claimed /\ flight[s].status \notin InFlight \cup BeforeLaunch \cup {"none"}
  BY StatusKinds DEF ClaimsInv, ClaimedInv
<1> QED  BY <1>1, RecordStep DEF SameRecord

LEMMA StopStep ==
    ASSUME StopsInv, Next, NEW c \in Commands, NEW s \in Edge,
           cmd[c].s = s, cmd[c].kind \in Stop, cmd[c].status # "none"
    PROVE  /\ cmd'[c].status = "DONE" => flight'[s].status = "CANCELLED" \/ Down(s)'
           /\ inbox'[c].at \in {"done", "sent"} /\ inbox'[c].result = "DONE" => Down(s)'
           /\ pc'.c = c => Down(s)'
<1>0. /\ TypeInv /\ ClaimsInv /\ DiskInv /\ FlownInv(s) /\ Given(c) /\ s \in Sessions
      /\ cmd[c].status = "DONE" => flight[s].status = "CANCELLED" \/ Down(s)
      /\ inbox[c].at \in {"done", "sent"} /\ inbox[c].result = "DONE" => Down(s)
      /\ pc.c = c => Down(s)
  BY ConstantTypes DEF StopsInv, StopInv, DiskInv, ClaimsInv, TypeInv
<1>1. Down(s) => Down(s)'
  BY <1>0, DownStep
<1>2. cmd'[c].status = "DONE" => flight'[s].status = "CANCELLED" \/ Down(s)'
  <2>1. CASE cmd[c].status = "DONE"
    BY <1>0, <1>1, <2>1, CancelledStays
  <2>2. CASE cmd'[c] = cmd[c]
    BY <1>0, <1>1, <2>2, CancelledStays
  <2>3. ASSUME RunCommand(c), cmd'[c].status = "DONE", cmd'[c] # cmd[c] PROVE flight'[s].status = "CANCELLED"
    <3>1. Dealt(c)
      BY <1>0, <2>3, RunCommandEffect
    <3>2. ~flight[s].claimed /\ flight[s].status \notin Airborne \cup Outcomes /\ flight[s].status # "none"
      BY <1>0, <3>1 DEF Dealt, ClaimsInv, ClaimedInv, WhoInv
    <3>3. flight[s].status \in BeforeLaunch \cup Terminal /\ flight[s].status # "RETURNING"
      <4>1. flight[s].status \in Statuses
        BY <1>0, FlightFacts DEF TypeInv, Typed
      <4> QED  BY <3>2, <4>1, StatusKinds DEF InFlight, Airborne
    <3> QED  BY <2>3, <3>1, <3>3 DEF Dealt, Turned
  <2>4. ASSUME DeliverResult(c), cmd'[c].status = "DONE", cmd'[c] # cmd[c] PROVE Down(s)'
    <3>1. inbox[c].at = "done" /\ inbox[c].result = "DONE"
      <4>1. inbox[c].result \in Answers
        BY <1>0, <2>4, DeliverResultEffect DEF Given
      <4>2. cmd' = [cmd EXCEPT ![c].status = inbox[c].result]
        BY <1>0, <2>4, DeliverResultEffect
      <4>3. Answered(c, inbox[c].result)
        BY <1>0, <4>1, <4>2, AnswerEffect DEF TypeInv, Typed
      <4> QED  BY <1>0, <2>4, <4>3, DeliverResultEffect DEF Answered
    <3> QED  BY <1>0, <1>1, <3>1
  <2>5. ASSUME NEW d \in Commands, d # c,
               Insert(d) \/ RunCommand(d) \/ DeliverResult(d) \/ \E t \in Sessions, kind \in Kinds : Judge(d, t, kind)
        PROVE  cmd'[c] = cmd[c]
    <3>1. cmd \in [Commands -> CmdRec]
      BY <1>0 DEF TypeInv, Typed
    <3>2. Insert(d) \/ (\E t \in Sessions, kind \in Kinds : Judge(d, t, kind)) => cmd'[c] = cmd[c]
      BY <2>5, <3>1 DEF Insert, Judge
    <3>3. RunCommand(d) => cmd'[c] = cmd[c]
      BY <1>0, <2>5, RunCommandEffect DEF Dealt, Answered
    <3>4. DeliverResult(d) => cmd'[c] = cmd[c]
      BY <1>0, <2>5, <3>1, DeliverResultEffect
    <3> QED  BY <2>5, <3>2, <3>3, <3>4
  <2>6. ASSUME Insert(c) \/ \E t \in Sessions, kind \in Kinds : Judge(c, t, kind)
        PROVE  cmd'[c].status # "DONE"
    <3>1. cmd \in [Commands -> CmdRec]
      BY <1>0 DEF TypeInv, Typed
    <3>2. Insert(c) => cmd'[c].status = "PENDING"
      BY <3>1, AnswerEffect DEF Insert, Answered
    <3>3. (\E t \in Sessions, kind \in Kinds : Judge(c, t, kind)) => cmd'[c].status = "checked"
      BY <3>1 DEF Judge
    <3> QED  BY <2>6, <3>2, <3>3
  <2> QED  BY <2>1, <2>2, <2>3, <2>4, <2>5, <2>6, Writers
<1>3. inbox'[c].at \in {"done", "sent"} /\ inbox'[c].result = "DONE" => Down(s)'
  <2>1. ASSUME inbox[c].at = "open", inbox'[c].at = "done", inbox'[c].result = "DONE",
               NEW t \in Edge, StepCommand(t, c)
        PROVE  Down(s)
    <3>1. /\ t = s /\ inbox' # inbox
          /\ \E a \in Answers : Closed(c, a) /\ (a = "DONE" => local[s].phase = "RETURNING")
      BY <1>0, <2>1, StepCommandEffect
    <3> QED  BY <1>0, <2>1, <3>1 DEF Closed, FlownInv
  <2> QED  BY <1>0, <1>1, <2>1, InboxStep
<1>4. pc'.c = c => Down(s)'
  <2>1. CASE pc' = pc
    BY <1>0, <1>1, <2>1
  <2>2. Idle.c # c /\ pc \in PcRec
    BY <1>0, ConstantTypes DEF Idle, TypeInv, Typed
  <2>3. /\ pc' = [pc EXCEPT !.at = "granted"] => pc'.c = pc.c
        /\ pc' = [pc EXCEPT !.at = "recorded"] => pc'.c = pc.c
        /\ \A t \in Edge : pc' = [Idle EXCEPT !.at = "claim", !.s = t] => pc'.c # c
    BY <2>2 DEF PcRec, Idle
  <2>4. ASSUME NEW t \in Edge, StepFlight(t), Calling(t, None) PROVE pc'.c # c
    BY <2>4, ConstantTypes DEF Calling
  <2>5. ASSUME NEW t \in Edge, NEW d \in Commands, StepCommand(t, d), Calling(t, d), pc'.c = c PROVE Down(s)'
    <3>1. d = c
      BY <2>5 DEF Calling
    <3>2. t = s /\ pc' # pc
      BY <1>0, <2>5, <3>1, StepCommandEffect DEF Calling, Idle
    <3>3. cmd[c].kind = "ABORT" /\ local[s].started /\ air'[s] = Obeyed("ABORT", air[s])
      BY <1>0, <2>5, <3>1, <3>2, StepCommandEffect DEF Stop
    <3>4. air[s].at # "GROUND" /\ air[s] \in AirRec
      BY <1>0, <3>3 DEF TypeInv, Typed, Logged
    <3> QED  BY <3>3, <3>4, ObeyedTypes DEF Down
  <2> QED  BY <1>0, <1>1, <2>1, <2>2, <2>3, <2>4, <2>5, PcStep
<1> QED  BY <1>2, <1>3, <1>4

LEMMA StopsHold == Spec => []StopsInv
<1>1. Init => StopsInv
  <2>1. ASSUME Init, NEW c \in Commands PROVE StopInv(c)
    BY <2>1, ConstantTypes DEF Init, StopInv
  <2> QED  BY <2>1, DiskInit DEF StopsInv
<1>2. StopsInv /\ [Next]_vars => StopsInv'
  <2>1. ASSUME StopsInv, Next, NEW c \in Commands PROVE StopInv(c)'
    <3>0. TypeInv /\ Given(c) /\ TypeInv'
      BY <2>1, TypeStep DEF StopsInv, DiskInv, ClaimsInv, TypeInv
    <3>1. CASE cmd[c].status = "none"
      <4>1. cmd'[c].status # "DONE"
        BY <2>1, <3>0, <3>1, CmdStep
      <4>2. inbox'[c].at = "none"
        BY <2>1, <3>0, <3>1, InboxStep DEF Given
      <4>3. pc'.c # c
        BY <3>0, <4>2, ConstantTypes DEF TypeInv, Busy
      <4> QED  BY <4>1, <4>2, <4>3 DEF StopInv
    <3>2. CASE cmd[c].status # "none"
      <4>1. cmd'[c].s = cmd[c].s /\ cmd'[c].kind = cmd[c].kind
        BY <2>1, <3>0, <3>2, CmdStep
      <4> QED  BY <2>1, <3>2, <4>1, StopStep DEF StopInv, Down
    <3> QED  BY <3>1, <3>2
  <2>2. CASE Next
    BY <2>1, <2>2, DiskStep DEF StopsInv
  <2>3. CASE UNCHANGED vars
    BY <2>3, DiskStep DEF vars, StopsInv, StopInv, Down
  <2> QED  BY <2>2, <2>3
<1> QED  BY <1>1, <1>2, PTL DEF Spec

-----------------------------------------------------------------------------
(* The flights the runner flies itself.                                     *)

\* A session the runner flies is airborne in the record only if it has left the
\* ground, and on its way home only if it is; and as long as no transaction was
\* lost after a call, one that reads as never launched was not.
DirectInv(s) ==
    /\ flight[s].status \in Airborne => air[s].at # "GROUND"
    /\ flight[s].status = "RETURNING" => Down(s)
    /\ air[s].result # "none" <=> air[s].at = "LANDED"
    /\ crashes = 0 /\ flight[s].status \in {"none", "READY", "CANCELLED", "BLOCKED"} => air[s].at = "GROUND"

DirectStop(c) == cmd[c].kind \in Stop /\ cmd[c].s \in Direct /\ cmd[c].status = "DONE" =>
    flight[cmd[c].s].status = "CANCELLED" \/ Down(cmd[c].s)

RunnersInv == ClaimsInv /\ (\A s \in Direct : DirectInv(s)) /\ \A c \in Commands : DirectStop(c)

\* What an update makes of the record of a session whose aircraft has left the ground.
LEMMA ReportEffect ==
    ASSUME TypeInv, NEW s \in Sessions, air' \in [Sessions -> AirRec], air'[s].at # "GROUND",
           air'[s].result # "none" <=> air'[s].at = "LANDED",
           NEW launched \in BOOLEAN, Heard(s, Recorded(flight[s], Report(air'[s], launched)))
    PROVE  /\ Kept(s)
           /\ flight'[s].status \in Outcomes \/ (flight'[s].status = air'[s].at /\ air'[s].at \in Airborne)
<1> DEFINE up == Report(air'[s], launched)
<1>1. flight \in [Sessions -> FlightRec] /\ flight[s] \in FlightRec /\ air'[s] \in AirRec
  BY DEF TypeInv, Typed
<1>2. up.phase = air'[s].at /\ up.outcome = air'[s].result /\ air'[s].result \in Outcomes \cup {"none"}
  BY <1>1, UpdateTypes
<1> HIDE DEF up
<1>3. /\ Recorded(flight[s], up) \in FlightRec
      /\ Recorded(flight[s], up).status = IF up.outcome # "none" THEN up.outcome
                                          ELSE IF up.phase \in Airborne THEN up.phase ELSE flight[s].status
  BY <1>1, <1>2, RecordedTypes
<1>4. Kept(s) /\ flight'[s].status = Recorded(flight[s], up).status
  BY <1>1, <1>3, HeardFlight DEF up
<1>5. air'[s].at \in Airborne \cup {"LANDED"}
  BY <1>1 DEF AirRec
<1> QED  BY <1>2, <1>3, <1>4, <1>5

\* The runner carries out a command for a session it flies itself.
LEMMA DirectCommand ==
    ASSUME RunnersInv, NEW c \in Commands, RunCommand(c), cmd[c].status = "PENDING",
           NEW s \in Direct, cmd[c].s = s
    PROVE  /\ \/ flight' = flight
              \/ flight[s].status = "READY" /\ flight'[s].status = "CANCELLED" /\ air' = air /\ crashes' = crashes
              \/ /\ flight[s].status \in Airborne
                 /\ flight'[s].status \in Outcomes \/ (flight'[s].status = air'[s].at /\ air'[s].at \in Airborne)
           /\ cmd[c].kind \in Stop /\ cmd'[c].status = "DONE" => flight'[s].status = "CANCELLED" \/ Down(s)'
<1> DEFINE rule == RunnersRule(cmd[c].kind, flight[s].status)
<1>0. /\ TypeInv /\ s \in Sessions /\ s \notin Edge /\ DirectInv(s) /\ flight \in [Sessions -> FlightRec]
      /\ flight[s].status \in Statuses /\ flight[s].status # "none"
      /\ air \in [Sessions -> AirRec] /\ cmd \in [Commands -> CmdRec] /\ cmd[c].kind \in AllKinds
  BY FlightFacts DEF RunnersInv, ClaimsInv, WhoInv, TypeInv, Typed, Given, Direct
<1>1. CarryOut(c)
  BY <1>0 DEF RunCommand, Passed, RunnersOwn, GatewaysOwn
<1>2. \A a \in Answers : Answer(c, a) => Answered(c, a)
  BY <1>0, AnswerEffect DEF Answer
<1>3. /\ rule = "cancel" => flight[s].status = "READY"
      /\ rule = "call" => flight[s].status \in Airborne /\ (cmd[c].kind \in Stop => cmd[c].kind = "ABORT")
      /\ rule = "DONE" => flight[s].status = "RETURNING"
  BY <1>0 DEF RunnersRule, AllKinds, BeforeLaunch, Terminal, Outcomes, Statuses, InFlight, Stop
<1> HIDE DEF rule
<1>4. CASE rule \in Answers /\ Answer(c, rule) /\ UNCHANGED <<flight, air>>
  <2>1. cmd'[c].status = rule
    BY <1>2, <1>4 DEF Answered
  <2> QED  BY <1>0, <1>3, <1>4, <2>1 DEF DirectInv, Down
<1>5. CASE rule = "cancel" /\ Answer(c, "DONE") /\ EndSession(s, "CANCELLED", "none") /\ UNCHANGED <<air, crashes>>
  BY <1>0, <1>3, <1>5, EndFlight DEF Statuses, Terminal, Codes
<1>6. CASE /\ rule = "call" /\ air' = [air EXCEPT ![s] = Obeyed(cmd[c].kind, @)]
           /\ Heard(s, Recorded(flight[s], Report(air'[s], FALSE)))
  <2>1. air' \in [Sessions -> AirRec] /\ air'[s] = Obeyed(cmd[c].kind, air[s]) /\ air[s] \in AirRec
    BY <1>0, <1>6, CallAir DEF Told
  <2>2. air[s].at # "GROUND"
    BY <1>0, <1>3, <1>6 DEF DirectInv
  <2>3. air'[s].at # "GROUND" /\ (cmd[c].kind = "ABORT" => Down(s)')
    BY <2>1, <2>2, ObeyedTypes DEF Down
  <2>4. air'[s].result # "none" <=> air'[s].at = "LANDED"
    BY <1>0, <2>1, <2>2, ObeyedTypes DEF DirectInv
  <2>5. flight'[s].status \in Outcomes \/ (flight'[s].status = air'[s].at /\ air'[s].at \in Airborne)
    BY <1>0, <1>6, <2>1, <2>3, <2>4, ReportEffect
  <2> QED  BY <1>3, <1>6, <2>3, <2>5
<1>7. CASE AnswerFailure(c) /\ UNCHANGED flight
  <2>1. cmd'[c].status \in {"REJECTED", "FAILED"}
    BY <1>2, <1>7 DEF AnswerFailure, Answers, Answered
  <2> QED  BY <1>7, <2>1
<1>8. CASE UNCHANGED <<flight, cmd>>
  BY <1>8
<1> QED  BY <1>1, <1>4, <1>5, <1>6, <1>7, <1>8 DEF CarryOut, rule

\* What can become of the record of the runner's sessions.
LEMMA DirectRecordStep ==
    ASSUME RunnersInv, Next, NEW s \in Direct
    PROVE  \/ SameRecord(s)
           \/ flight[s].status = "none" /\ flight'[s].status = "READY" /\ air' = air /\ crashes' = crashes
           \/ flight[s].status = "READY" /\ flight'[s].status \in {"BLOCKED", "CANCELLED"} /\ air' = air /\ crashes' = crashes
           \/ flight[s].status \in BeforeLaunch \cup Airborne /\ flight'[s].status \in Outcomes
           \/ flight[s].status \in BeforeLaunch \cup Airborne
              /\ flight'[s].status = air'[s].at /\ air'[s].at \in Airborne
<1> DEFINE Goal == \/ SameRecord(s)
                   \/ flight[s].status = "none" /\ flight'[s].status = "READY" /\ air' = air /\ crashes' = crashes
                   \/ flight[s].status = "READY" /\ flight'[s].status \in {"BLOCKED", "CANCELLED"} /\ air' = air /\ crashes' = crashes
                   \/ flight[s].status \in BeforeLaunch \cup Airborne /\ flight'[s].status \in Outcomes
                   \/ flight[s].status \in BeforeLaunch \cup Airborne
                      /\ flight'[s].status = air'[s].at /\ air'[s].at \in Airborne
<1>0. /\ TypeInv /\ s \in Sessions /\ s \notin Edge /\ DirectInv(s) /\ flight \in [Sessions -> FlightRec]
      /\ flight[s].status \in Statuses /\ air \in [Sessions -> AirRec] /\ air[s] \in AirRec
      /\ air'[s].result # "none" <=> air'[s].at = "LANDED"
  BY FlightFacts, DownStep DEF RunnersInv, ClaimsInv, TypeInv, Typed, Direct, DirectInv
<1>1. \A t \in Sessions : Kept(t) /\ t # s => Goal
  BY <1>0 DEF Kept, SameRecord
<1>2. ASSUME NEW t \in Sessions, Create(t) \/ Wait(t) PROVE Goal
  <2>1. Create(t) => air' = air /\ crashes' = crashes
    BY DEF Create
  <2> QED  BY <1>0, <1>1, <1>2, <2>1, CreateEffect, WaitEffect DEF Turned
<1>3. ASSUME NEW t \in Edge, Watch(t) \/ Claim(t) \/ Deliver(t) PROVE Goal
  BY <1>0, <1>1, <1>3, WatchEffect, ClaimEffect, DeliverEffect, ConstantTypes
<1>4. ASSUME Fly(s) PROVE Goal
  <2>1. flight[s].status \in Airborne /\ air' = air /\ air'[s].at # "GROUND"
    BY <1>0, <1>4 DEF Fly, DirectInv
  <2>2. CASE Heard(s, Recorded(flight[s], Report(air[s], FALSE)))
    BY <1>0, <2>1, <2>2, ReportEffect
  <2>3. CASE EndSession(s, "FAILED", "none")
    BY <1>0, <2>1, <2>3, EndFlight DEF Statuses, Terminal, Outcomes, Codes
  <2> QED  BY <1>4, <2>2, <2>3 DEF Fly
<1>5. ASSUME Launch(s) PROVE Goal
  <2>1. flight[s].status \in BeforeLaunch /\ flight[s].status = "READY"
    BY <1>5 DEF Launch, BeforeLaunch
  <2>2. CASE EndSession(s, "BLOCKED", "none") /\ UNCHANGED <<air, crashes>>
    BY <1>0, <2>1, <2>2, EndFlight DEF Statuses, Terminal, Codes
  <2>3. CASE air' = [air EXCEPT ![s] = Obeyed("START", @)] /\ Heard(s, Recorded(flight[s], Report(air'[s], TRUE)))
    <3>1. air' \in [Sessions -> AirRec] /\ air'[s].at # "GROUND"
      BY <1>0, <2>3, CallAir, ObeyedTypes DEF Told
    <3> QED  BY <1>0, <2>1, <2>3, <3>1, ReportEffect
  <2>4. CASE EndSession(s, "FAILED", "none")
    BY <1>0, <2>1, <2>4, EndFlight DEF Statuses, Terminal, Outcomes, Codes
  <2>5. CASE UNCHANGED flight
    BY <2>5 DEF SameRecord
  <2> QED  BY <1>5, <2>2, <2>3, <2>4, <2>5 DEF Launch
<1>6. ASSUME NEW t \in Sessions, t # s, Launch(t) \/ Fly(t) PROVE Goal
  BY <1>0, <1>1, <1>6, LaunchEffect, FlyEffect
<1>7. ASSUME NEW c \in Commands, RunCommand(c) PROVE Goal
  <2>1. CASE UNCHANGED <<flight, cmd, air, hands>>
    BY <2>1 DEF SameRecord
  <2>2. CASE Dealt(c) /\ cmd[c].s # s
    BY <1>1, <2>2 DEF Dealt
  <2>3. CASE Dealt(c) /\ cmd[c].s = s
    BY <1>0, <1>7, <2>3, DirectCommand DEF SameRecord, Dealt
  <2> QED  BY <1>0, <1>7, <2>1, <2>2, <2>3, RunCommandEffect
<1> QED  BY <1>2, <1>3, <1>4, <1>5, <1>6, <1>7, Writers DEF SameRecord

\* What can become of the aircraft of the runner's sessions.
LEMMA DirectAirStep ==
    ASSUME RunnersInv, Next, NEW s \in Direct, air'[s] # air[s]
    PROVE  air[s].at # "GROUND" \/ (Launch(s) /\ flight[s].status = "READY")
<1>0. /\ TypeInv /\ s \in Sessions /\ s \notin Edge /\ DirectInv(s) /\ flight[s].status \in Statuses
  BY FlightFacts DEF RunnersInv, ClaimsInv, TypeInv, Typed, Direct
<1>1. ASSUME NEW t \in Sessions, Progress(t) PROVE air[s].at # "GROUND"
  BY <1>0, <1>1, ProgressEffect DEF Airborne
<1>2. ASSUME NEW t \in Sessions, Launch(t) PROVE Launch(s) /\ flight[s].status = "READY"
  BY <1>0, <1>2, LaunchEffect DEF Told, BeforeLaunch
<1>3. ASSUME NEW t \in Edge, StepFlight(t) \/ \E c \in Commands : StepCommand(t, c) PROVE FALSE
  BY <1>0, <1>3, StepFlightEffect, StepCommandEffect, ConstantTypes DEF Told
<1>4. ASSUME NEW c \in Commands, RunCommand(c) PROVE air[s].at # "GROUND"
  <2>1. Dealt(c) /\ cmd[c].s = s
    BY <1>0, <1>4, RunCommandEffect DEF Dealt, Told
  <2>2. flight[s].status # "none"
    BY <2>1 DEF Dealt, RunnersInv, ClaimsInv, WhoInv
  <2>3. flight[s].status \in Airborne
    BY <1>0, <2>1, <2>2 DEF Dealt, Statuses, InFlight
  <2> QED  BY <1>0, <2>3 DEF DirectInv
<1> QED  BY <1>1, <1>2, <1>3, <1>4, Writers

\* A launch that leaves no trace in the record was lost, or was none.
LEMMA LaunchTells ==
    ASSUME RunnersInv, NEW s \in Direct, Launch(s)
    PROVE  \/ flight'[s].status \in Outcomes \cup Airborne
           \/ air' = air
           \/ crashes' = crashes + 1
<1>0. /\ TypeInv /\ s \in Sessions /\ DirectInv(s) /\ flight \in [Sessions -> FlightRec]
      /\ air \in [Sessions -> AirRec] /\ air[s] \in AirRec
  BY DEF RunnersInv, ClaimsInv, TypeInv, Typed, Direct
<1>1. CASE air' = [air EXCEPT ![s] = Obeyed("START", @)] /\ Heard(s, Recorded(flight[s], Report(air'[s], TRUE)))
  <2>1. air' \in [Sessions -> AirRec] /\ air'[s] = Obeyed("START", air[s])
    BY <1>0, <1>1, CallAir DEF Told
  <2>2. air'[s].at # "GROUND" /\ (air'[s].result # "none" <=> air'[s].at = "LANDED")
    BY <1>0, <2>1, ObeyedTypes DEF DirectInv
  <2> QED  BY <1>0, <1>1, <2>1, <2>2, ReportEffect
<1>2. CASE EndSession(s, "FAILED", "none")
  BY <1>0, <1>2, EndFlight DEF Statuses, Terminal, Outcomes, Codes
<1> QED  BY <1>1, <1>2 DEF Launch

LEMMA CrashesGrow ==
    ASSUME TypeInv, Next
    PROVE  crashes' \in Nat /\ crashes' >= crashes
<1>1. crashes \in Nat
  BY ConstantTypes DEF TypeInv, Typed
<1>2. crashes' = crashes \/ crashes' = crashes + 1
  <2>1. Crash => crashes' = crashes + 1
    BY DEF Crash
  <2>2. ASSUME NEW s \in Sessions, Launch(s) PROVE crashes' = crashes \/ crashes' = crashes + 1
    BY <2>2 DEF Launch
  <2>3. ASSUME NEW c \in Commands, RunCommand(c) PROVE crashes' = crashes \/ crashes' = crashes + 1
    BY <2>3 DEF RunCommand, CarryOut
  <2> QED  BY <2>1, <2>2, <2>3, Writers
<1> QED  BY <1>1, <1>2

LEMMA DirectStep ==
    ASSUME RunnersInv, Next, NEW s \in Direct
    PROVE  DirectInv(s)'
<1>0. /\ TypeInv /\ s \in Sessions /\ s \notin Edge /\ DirectInv(s) /\ flight[s].status \in Statuses
      /\ crashes' \in Nat /\ crashes \in Nat
  BY FlightFacts, TypeStep, ConstantTypes DEF RunnersInv, ClaimsInv, TypeInv, Typed, Direct
<1>1. /\ Down(s) => Down(s)'
      /\ (air[s].result # "none" <=> air[s].at = "LANDED") => (air'[s].result # "none" <=> air'[s].at = "LANDED")
      /\ air[s].at # "GROUND" => air'[s].at # "GROUND"
  BY <1>0, DownStep, AirStep
<1>2. crashes' = 0 => crashes = 0
  BY <1>0, CrashesGrow
<1>3. flight'[s].status \in Airborne => air'[s].at # "GROUND"
  BY <1>0, <1>1, DirectRecordStep, StatusKinds DEF SameRecord, DirectInv, Airborne
<1>4. flight'[s].status = "RETURNING" => Down(s)'
  BY <1>0, <1>1, DirectRecordStep DEF SameRecord, DirectInv, Down, Outcomes
<1>5. ASSUME crashes' = 0, flight'[s].status \in {"none", "READY", "CANCELLED", "BLOCKED"} PROVE air'[s].at = "GROUND"
  <2>1. flight[s].status \in {"none", "READY", "CANCELLED", "BLOCKED"}
    BY <1>5, DirectRecordStep DEF SameRecord, Airborne, Outcomes
  <2>2. air[s].at = "GROUND"
    BY <1>0, <1>2, <1>5, <2>1 DEF DirectInv
  <2>3. CASE Launch(s)
    BY <1>0, <1>5, <2>2, <2>3, LaunchTells DEF Airborne, Outcomes
  <2> QED  BY <2>2, <2>3, DirectAirStep
<1> QED  BY <1>0, <1>1, <1>3, <1>4, <1>5 DEF DirectInv

LEMMA DirectStopStep ==
    ASSUME RunnersInv, Next, NEW c \in Commands, NEW s \in Direct,
           cmd'[c].s = s, cmd'[c].kind \in Stop, cmd'[c].status = "DONE"
    PROVE  flight'[s].status = "CANCELLED" \/ Down(s)'
<1>0. TypeInv /\ s \in Sessions /\ s \notin Edge
  BY DEF RunnersInv, ClaimsInv, Direct
<1>1. cmd[c].kind = cmd'[c].kind /\ cmd[c].s = s /\ (cmd[c].status = "DONE" \/ cmd[c].status = "PENDING")
  BY <1>0, CmdStep
<1>2. CASE cmd[c].status = "DONE"
  <2>1. flight[s].status = "CANCELLED" \/ Down(s)
    BY <1>1, <1>2 DEF RunnersInv, DirectStop
  <2>2. Down(s) => Down(s)'
    BY <1>0, DownStep
  <2>3. flight[s].status = "CANCELLED" => flight'[s].status = "CANCELLED"
    BY DirectRecordStep DEF SameRecord, BeforeLaunch, Airborne
  <2> QED  BY <2>1, <2>2, <2>3 DEF Down
<1>3. CASE cmd[c].status = "PENDING"
  <2>1. cmd'[c] # cmd[c]
    BY <1>3
  <2>2. ASSUME NEW d \in Commands, DeliverResult(d) PROVE FALSE
    <3>1. inbox[d].at # "none"
      BY <2>2 DEF DeliverResult
    <3>2. cmd[d].s \in Edge
      BY <1>0, <3>1 DEF TypeInv, Given
    <3>3. cmd' = cmd \/ cmd' = [cmd EXCEPT ![d].status = inbox[d].result]
      BY <1>0, <2>2, DeliverResultEffect
    <3>4. cmd \in [Commands -> CmdRec]
      BY <1>0 DEF TypeInv, Typed
    <3> QED  BY <1>0, <1>1, <2>1, <3>2, <3>3, <3>4
  <2>3. RunCommand(c)
    <3>1. cmd \in [Commands -> CmdRec]
      BY <1>0 DEF TypeInv, Typed
    <3>2. ASSUME NEW d \in Commands, RunCommand(d) PROVE d = c
      BY <1>0, <2>1, <3>2, RunCommandEffect DEF Dealt, Answered
    <3>3. ASSUME NEW d \in Commands, Insert(d) \/ \E t \in Sessions, kind \in Kinds : Judge(d, t, kind) PROVE FALSE
      BY <1>3, <2>1, <3>1, <3>3 DEF Insert, Judge
    <3> QED  BY <2>1, <2>2, <3>2, <3>3, Writers
  <2> QED  BY <1>1, <1>3, <2>3, DirectCommand DEF Down
<1> QED  BY <1>1, <1>2, <1>3

LEMMA RunnersHold == Spec => []RunnersInv
<1>1. Init => RunnersInv
  <2> SUFFICES ASSUME Init PROVE RunnersInv
    OBVIOUS
  <2>1. ASSUME NEW s \in Direct PROVE DirectInv(s)
    <3>1. s \in Sessions
      BY DEF Direct
    <3> QED  BY <3>1 DEF Init, DirectInv, Airborne, Down
  <2>2. ASSUME NEW c \in Commands PROVE DirectStop(c)
    BY ConstantTypes DEF Init, DirectStop, Direct
  <2> QED  BY <2>1, <2>2, ClaimsInit DEF RunnersInv
<1>2. RunnersInv /\ [Next]_vars => RunnersInv'
  <2> SUFFICES ASSUME RunnersInv, [Next]_vars PROVE RunnersInv'
    OBVIOUS
  <2>1. CASE Next
    <3>1. ASSUME NEW c \in Commands PROVE DirectStop(c)'
      BY <2>1, DirectStopStep DEF DirectStop, Down
    <3> QED  BY <2>1, <3>1, ClaimsStep, DirectStep DEF RunnersInv
  <2>2. CASE UNCHANGED vars
    BY <2>2, ClaimsStep DEF vars, RunnersInv, DirectInv, DirectStop, Down
  <2> QED  BY <2>1, <2>2
<1> QED  BY <1>1, <1>2, PTL DEF Spec

\* A stop reported as done has worked: the mission never leaves the ground, or is on its
\* way home or down. The one exception is a flight of the runner's own whose launch was
\* called in a transaction that was then lost: it reads READY, and is cancelled as such.
StopsStopUnlessLost == \A c \in Commands : cmd[c].kind \in {"CANCEL", "ABORT"} /\ cmd[c].status = "DONE" =>
    \/ air[cmd[c].s].at \in {"GROUND", "RETURNING", "LANDED"}
    \/ cmd[c].s \in Direct /\ flight[cmd[c].s].status = "CANCELLED" /\ crashes > 0

\* For any mixture of drones, behind gateways and the runner's own, and any faults.
THEOREM StopsWorkUnlessLost == Spec => []StopsStopUnlessLost
<1>1. StopsInv /\ RunnersInv => StopsStopUnlessLost
  <2> SUFFICES ASSUME StopsInv, RunnersInv,
                      NEW c \in Commands, cmd[c].kind \in {"CANCEL", "ABORT"}, cmd[c].status = "DONE"
               PROVE  \/ air[cmd[c].s].at \in {"GROUND", "RETURNING", "LANDED"}
                      \/ cmd[c].s \in Direct /\ flight[cmd[c].s].status = "CANCELLED" /\ crashes > 0
    BY DEF StopsStopUnlessLost
  <2>0. cmd[c].s \in Sessions /\ crashes \in Nat
    BY ConstantTypes DEF StopsInv, DiskInv, ClaimsInv, TypeInv, Typed, Given
  <2>1. CASE cmd[c].s \in Edge
    <3>1. flight[cmd[c].s].status = "CANCELLED" \/ Down(cmd[c].s)
      BY <2>1 DEF StopsInv, StopInv, Stop
    <3>2. flight[cmd[c].s].status = "CANCELLED" => ~flight[cmd[c].s].claimed
      BY <2>1, StatusKinds DEF StopsInv, DiskInv, ClaimsInv, ClaimedInv
    <3>3. ~flight[cmd[c].s].claimed => air[cmd[c].s].at = "GROUND"
      BY <2>1 DEF StopsInv, DiskInv, ClaimsInv, ClaimedInv
    <3> QED  BY <3>1, <3>2, <3>3 DEF Down
  <2>2. CASE cmd[c].s \in Direct
    BY <2>0, <2>2 DEF RunnersInv, DirectStop, DirectInv, Down, Stop
  <2> QED  BY <2>0, <2>1, <2>2 DEF Direct
<1> QED  BY <1>1, StopsHold, RunnersHold, PTL

\* Where every drone is behind a gateway, though commands, answers and updates cross a
\* link that loses them and a gateway that restarts - or where no transaction is lost -
\* a stop reported as done has worked.
THEOREM StopsAreSafe == ASSUME Edge = Sessions \/ MaxCrashes = 0 PROVE Spec => []StopsStop
<1>1. TypeInv /\ StopsStopUnlessLost => StopsStop
  <2>1. TypeInv => crashes \in 0..MaxCrashes
    BY DEF TypeInv, Typed
  <2> QED  BY <2>1 DEF StopsStopUnlessLost, StopsStop, Direct
<1> QED  BY <1>1, TypesHold, StopsWorkUnlessLost, PTL

-----------------------------------------------------------------------------
(* One drone, one flight.                                                   *)

\* The gateway flies s, or something on its way may yet make it fly s.
Potential(s) ==
    \/ Live(s) \/ s \in mail.claimed \/ Granted(s)
    \/ flight[s].claimed /\ flight[s].status \in InFlight
    \/ s \in claims /\ flight[s].status \in BeforeLaunch

Apart(s, t) ==
    /\ ~(flight[s].status \in InFlight /\ flight[t].status \in InFlight)
    /\ ~(Potential(s) /\ Potential(t))

\* What is asked for was created; and of the sessions of one drone at most one is in
\* flight, and at most one is the gateway's to fly.
AskedFor == \A s \in claims \cup ready \cup mail.ready : flight[s].status # "none"

DronesInv ==
    /\ DiskInv /\ AskedFor
    /\ \A s, t \in Edge : s # t /\ DroneOf[s] = DroneOf[t] => Apart(s, t)

LEMMA AskedStep ==
    ASSUME DiskInv, AskedFor, Next
    PROVE  AskedFor'
<1>0. TypeInv
  BY DEF DiskInv, ClaimsInv
<1>1. mail'.ready \subseteq mail.ready \cup {s \in Edge : flight[s].status # "none"}
  <2>1. NoMail.ready = {}
    BY DEF NoMail
  <2>2. Sync => mail'.ready \subseteq {s \in Edge : flight[s].status # "none"}
    BY StatusKinds DEF Sync
  <2> QED  BY <2>1, <2>2, Writers DEF Take, LoseMail, Crash
<1>2. ready' \subseteq ready \cup mail.ready
  <2>1. \A s \in Edge : Claim(s) => ready' \subseteq ready
    BY <1>0, ClaimEffect
  <2> QED  BY <2>1, Writers DEF Take, LoseMail, GiveUpClaim, Crash
<1>3. claims' \subseteq claims \cup ready
  <2>1. \A s \in Edge : Claim(s) \/ AskClaim(s) \/ LoseClaim(s) => claims' \subseteq claims \cup ready
    BY DEF Claim, AskClaim, LoseClaim
  <2> QED  BY <2>1, Writers
<1>4. claims \cup ready \cup mail.ready \subseteq Sessions
  BY <1>0, ConstantTypes DEF TypeInv, Typed, MailRec
<1>5. ASSUME NEW s \in claims' \cup ready' \cup mail'.ready PROVE flight'[s].status # "none"
  <2>1. s \in Sessions /\ flight[s].status # "none"
    BY <1>1, <1>2, <1>3, <1>4, <1>5, ConstantTypes DEF AskedFor
  <2> QED  BY <1>0, <2>1, CreatedStays
<1> QED  BY <1>5 DEF AskedFor

LEMMA InFlightStep ==
    ASSUME ClaimsInv, Next, NEW s \in Edge, flight'[s].status \in InFlight
    PROVE  \/ flight[s].status \in InFlight
           \/ Create(s)
<1>1. TypeInv /\ s \in Sessions /\ ClaimedInv(s)
  BY ConstantTypes DEF ClaimsInv
<1>2. flight[s].status \notin Terminal
  BY <1>1, EndedStep, StatusKinds
<1>3. flight[s].claimed => flight[s].status \in InFlight
  BY <1>1, <1>2, StatusKinds DEF ClaimedInv
<1> QED  BY <1>3, RecordStep, StatusKinds DEF SameRecord

\* Nothing makes the gateway fly a session but its own asking for it.
LEMMA PotentialStep ==
    ASSUME DiskInv, AskedFor, Next, NEW s \in Edge, Potential(s)'
    PROVE  Potential(s) \/ (AskClaim(s) /\ flight[s].status \in BeforeLaunch)
<1>0. /\ TypeInv /\ ClaimsInv /\ ClaimedInv(s) /\ ClaimedInv(s)' /\ s \in Sessions
      /\ claims \subseteq Edge
  BY ClaimedStep, ConstantTypes DEF DiskInv, ClaimsInv, TypeInv, Typed
<1>1. flight'[s].claimed /\ flight'[s].status \in InFlight => Potential(s)
  <2> SUFFICES ASSUME flight'[s].claimed, flight'[s].status \in InFlight PROVE Potential(s)
    OBVIOUS
  <2>1. CASE flight[s].claimed
    <3>1. flight[s].status \notin Terminal
      BY <1>0, EndedStep, StatusKinds
    <3>2. flight[s].status \in InFlight
      BY <1>0, <2>1, <3>1, StatusKinds DEF ClaimedInv
    <3> QED  BY <2>1, <3>2 DEF Potential
  <2>2. CASE ~flight[s].claimed
    <3>1. Claim(s) /\ flight[s].status \in BeforeLaunch
      BY <1>0, <2>2, RecordStep DEF SameRecord, Turned
    <3> QED  BY <3>1 DEF Claim, Potential
  <2> QED  BY <2>1, <2>2
<1>2. Live(s)' => Potential(s)
  <2>1. Deliver(s) => (Live(s)' => Live(s))
    BY <1>0, DeliverEffect DEF Live
  <2>2. Prune(s) => ~Live(s)'
    BY <1>0, PruneEffect DEF Live
  <2>3. local'[s] = local[s] => (Live(s)' => Live(s))
    BY DEF Live
  <2> QED  BY <2>1, <2>2, <2>3, TableStep DEF Potential
<1>3. s \in mail'.claimed \/ Granted(s)' => Potential(s)
  BY <1>0, <1>1, PromisedStep DEF Potential
<1>4. s \in claims' /\ flight'[s].status \in BeforeLaunch =>
        Potential(s) \/ (AskClaim(s) /\ flight[s].status \in BeforeLaunch)
  <2> SUFFICES ASSUME s \in claims', flight'[s].status \in BeforeLaunch
               PROVE  Potential(s) \/ (AskClaim(s) /\ flight[s].status \in BeforeLaunch)
    OBVIOUS
  <2>1. ~flight'[s].claimed
    BY <1>0, StatusKinds DEF ClaimedInv
  <2>2. flight[s].status \in BeforeLaunch \/ Create(s)
    BY <1>0, <2>1, StatusKinds, RecordStep DEF SameRecord, Turned
  <2>3. s \in claims \/ AskClaim(s)
    <3>1. \A t \in Edge : (Claim(t) => claims' \subseteq claims) /\ (LoseClaim(t) => claims' \subseteq claims)
                          /\ (AskClaim(t) => claims' = claims \cup {t})
      BY DEF Claim, LoseClaim, AskClaim
    <3> QED  BY <3>1, Writers
  <2>4. ~Create(s)
    <3>1. Create(s) => flight[s].status = "none" /\ claims' = claims
      BY DEF Create, link
    <3> QED  BY <3>1 DEF AskedFor
  <2> QED  BY <2>2, <2>3, <2>4 DEF Potential
<1>5. \/ Live(s)' \/ s \in mail'.claimed \/ Granted(s)'
      \/ flight'[s].claimed /\ flight'[s].status \in InFlight
      \/ s \in claims' /\ flight'[s].status \in BeforeLaunch
  BY DEF Potential, Live, Granted
<1> QED  BY <1>1, <1>2, <1>3, <1>4, <1>5

\* Who asks for a session finds no other of its drone on the way.
LEMMA AskingAlone ==
    ASSUME DiskInv, NEW s \in Edge, NEW t \in Edge, s # t, DroneOf[s] = DroneOf[t], Apart(s, t),
           AskClaim(s), flight[s].status \in BeforeLaunch
    PROVE  ~Potential(t)
<1>1. ~Live(t) /\ pc = Idle /\ mail = NoMail
  BY DEF AskClaim, FreeToFly
<1>2. t \notin mail.claimed /\ ~Granted(t)
  BY <1>1 DEF NoMail, Idle, Granted
<1>3. flight[t].status \notin InFlight /\ flight[t].status \notin BeforeLaunch
  BY StatusKinds DEF Apart
<1> QED  BY <1>1, <1>2, <1>3 DEF Potential

LEMMA ApartStep ==
    ASSUME DronesInv, Next, NEW s \in Edge, NEW t \in Edge, s # t, DroneOf[s] = DroneOf[t]
    PROVE  Apart(s, t)'
<1>0. /\ DiskInv /\ ClaimsInv /\ TypeInv /\ AskedFor /\ Apart(s, t) /\ Apart(t, s)
      /\ s \in Sessions /\ t \in Sessions
  BY ConstantTypes DEF DronesInv, DiskInv, ClaimsInv
<1>1. ~(flight'[s].status \in InFlight /\ flight'[t].status \in InFlight)
  <2>1. Create(s) => flight'[t].status \notin InFlight
    BY <1>0, CreateEffect DEF Kept
  <2>2. Create(t) => flight'[s].status \notin InFlight
    BY <1>0, CreateEffect DEF Kept
  <2> QED  BY <1>0, <2>1, <2>2, InFlightStep DEF Apart
<1>2. ~(Potential(s)' /\ Potential(t)')
  <2> SUFFICES ASSUME Potential(s)', Potential(t)' PROVE FALSE
    OBVIOUS
  <2>1. /\ Potential(s) \/ (AskClaim(s) /\ flight[s].status \in BeforeLaunch)
        /\ Potential(t) \/ (AskClaim(t) /\ flight[t].status \in BeforeLaunch)
    BY <1>0, PotentialStep
  <2>2. ~(flight[s].status \in BeforeLaunch /\ flight[t].status \in BeforeLaunch)
    BY <1>0, StatusKinds DEF Apart
  <2>3. ~(Potential(s) /\ Potential(t))
    BY <1>0 DEF Apart
  <2>4. AskClaim(s) /\ flight[s].status \in BeforeLaunch => ~Potential(t)
    BY <1>0, AskingAlone
  <2>5. AskClaim(t) /\ flight[t].status \in BeforeLaunch => ~Potential(s)
    BY <1>0, AskingAlone
  <2> QED  BY <2>1, <2>2, <2>3, <2>4, <2>5
<1> QED  BY <1>1, <1>2 DEF Apart, Potential, Live, Granted

LEMMA DronesInit == Init => DronesInv
<1>1. ASSUME Init PROVE AskedFor
  BY <1>1 DEF Init, AskedFor, NoMail
<1>2. ASSUME Init, NEW s \in Edge, NEW t \in Edge PROVE Apart(s, t)
  BY <1>2, ConstantTypes DEF Init, Apart, Potential, Live, Granted, Idle, NoMail, InFlight, BeforeLaunch, Airborne
<1> QED  BY <1>1, <1>2, DiskInit DEF DronesInv

LEMMA DronesStep == DronesInv /\ [Next]_vars => DronesInv'
<1>1. CASE Next
  BY <1>1, DiskStep, AskedStep, ApartStep DEF DronesInv
<1>2. CASE UNCHANGED vars
  BY <1>2, DiskStep DEF vars, DronesInv, AskedFor, Apart, Potential, Live, Granted
<1> QED  BY <1>1, <1>2

LEMMA DronesHold == Spec => []DronesInv
BY DronesInit, DronesStep, PTL DEF Spec

\* No drone has two flights in the air, whatever the centre has given up and handed
\* out again: for any number of sessions, drones, restarts and lost messages.
THEOREM DronesFlyAlone == Spec => []OneInTheAir
<1>1. DronesInv => OneInTheAir
  <2> SUFFICES ASSUME DronesInv, NEW s \in Edge, NEW t \in Edge, s # t, DroneOf[s] = DroneOf[t], Flying(s), Flying(t)
               PROVE  FALSE
    BY DEF OneInTheAir
  <2>1. ASSUME NEW u \in Edge, Flying(u) PROVE Live(u)
    <3>1. air[u].at # "GROUND" /\ air[u].at # "LANDED"
      BY <2>1 DEF Flying, Airborne
    <3> QED  BY <3>1 DEF DronesInv, DiskInv, FlownInv, Live
  <2>2. ~(Live(s) /\ Live(t))
    BY DEF DronesInv, Apart, Potential
  <2> QED  BY <2>1, <2>2
<1> QED  BY <1>1, DronesHold, PTL

-----------------------------------------------------------------------------
(* Late records.                                                            *)

\* Of a flight without faults: a claimed session that is over was given up for its
\* silence, or everything was told; and what was told is what the record says.
LateInv(s) ==
    /\ ~air[s].fault
    /\ \A i \in 1..Len(local[s].log) : ~local[s].log[i].fault
    /\ pc.at = "called" /\ pc.s = s => ~pc.up.fault
    /\ flight[s].claimed /\ flight[s].status \in Terminal =>
         \/ flight[s].code = "EDGE_UNREACHABLE"
         \/ local[s].outcome # "none" /\ local[s].sent = Len(local[s].log)
    /\ local[s].outcome # "none" /\ local[s].sent = Len(local[s].log) => flight[s].status = local[s].outcome

LateRecords == DiskInv /\ \A s \in Edge : LateInv(s)

LEMMA LateStep ==
    ASSUME ~MayFault, LateRecords, Next, NEW s \in Edge
    PROVE  LateInv(s)'
<1>0. /\ TypeInv /\ ClaimsInv /\ DiskInv /\ FlownInv(s) /\ ClaimedInv(s) /\ LateInv(s) /\ s \in Sessions
      /\ local[s] \in LocalRec /\ local[s].sent \in Nat /\ Len(local[s].log) \in Nat /\ local[s].sent <= Len(local[s].log)
  BY ConstantTypes, LocalFields DEF LateRecords, DiskInv, ClaimsInv, TypeInv, Typed, Logged
<1>1. ~air'[s].fault
  <2>1. air[s] \in AirRec
    BY <1>0 DEF TypeInv, Typed
  <2>2. \A what : Told(s, what) => air'[s].fault = air[s].fault
    BY <2>1, ObeyedTypes DEF Told
  <2>3. Progress(s) => air'[s].fault = air[s].fault
    BY <1>0, ProgressEffect
  <2> QED  BY <1>0, <2>2, <2>3, EdgeAirStep DEF LateInv
<1>2. pc'.at = "called" /\ pc'.s = s => ~pc'.up.fault
  <2> SUFFICES ASSUME pc'.at = "called", pc'.s = s PROVE ~pc'.up.fault
    OBVIOUS
  <2>1. \A c, t : Calling(t, c) => ~pc'.up.fault
    BY <1>1 DEF Calling
  <2>2. pc' # Idle
    BY DEF Idle
  <2>3. \A t \in Edge : pc' # [Idle EXCEPT !.at = "claim", !.s = t]
    BY DEF Idle
  <2>4. pc' # [pc EXCEPT !.at = "granted"] /\ pc' # [pc EXCEPT !.at = "recorded"]
    BY <1>0 DEF TypeInv, Typed, PcRec
  <2>5. pc' = pc => ~pc'.up.fault
    BY <1>0 DEF LateInv
  <2> QED  BY <1>0, <2>1, <2>2, <2>3, <2>4, <2>5, PcStep
<1>3. \A i \in 1..Len(local'[s].log) : ~local'[s].log[i].fault
  <2>1. CASE local'[s].log = local[s].log
    BY <1>0, <2>1 DEF LateInv
  <2>2. CASE local'[s].log = <<>>
    BY <2>2
  <2>3. CASE Record /\ pc.s = s
    <3>1. /\ Len(local'[s].log) = Len(local[s].log) + 1 /\ local'[s].log[Len(local'[s].log)] = pc.up
          /\ \A i \in 1..Len(local[s].log) : local'[s].log[i] = local[s].log[i]
          /\ pc.at = "called"
      BY <1>0, <2>3, RecordEffect
    <3>2. ASSUME NEW i \in 1..Len(local'[s].log) PROVE ~local'[s].log[i].fault
      <4>1. CASE i = Len(local'[s].log)
        BY <1>0, <2>3, <3>1, <4>1 DEF LateInv
      <4>2. CASE i # Len(local'[s].log)
        <5>1. i \in 1..Len(local[s].log)
          BY <1>0, <3>1, <4>2
        <5> QED  BY <1>0, <3>1, <5>1 DEF LateInv
      <4> QED  BY <4>1, <4>2
    <3> QED  BY <3>2
  <2>4. Deliver(s) \/ Prune(s) => local'[s].log = local[s].log
    BY <1>0, DeliverEffect, PruneEffect
  <2>5. local'[s].log = local[s].log \/ local'[s].log = <<>> \/ (Record /\ pc.s = s)
    BY <1>0, <2>4, TableStep
  <2> QED  BY <2>1, <2>2, <2>3, <2>5
\* All has been told, and it stays so.
<1>4. ASSUME local[s].outcome # "none", local[s].sent = Len(local[s].log)
      PROVE  /\ local'[s].outcome = local[s].outcome /\ local'[s].sent = local[s].sent /\ local'[s].log = local[s].log
             /\ SameRecord(s)
  <2>1. ~Deliver(s)
    BY <1>0, <1>4, DeliverEffect
  <2>2. flight[s].status \in Terminal /\ flight[s].status \notin InFlight \cup BeforeLaunch \cup {"none"}
    BY <1>0, <1>4, StatusKinds DEF FlownInv
  <2>3. SameRecord(s)
    BY <1>0, <2>1, <2>2, RecordStep
  <2>4. Prune(s) => local'[s].outcome = local[s].outcome /\ local'[s].sent = local[s].sent /\ local'[s].log = local[s].log
    BY <1>0, PruneEffect
  <2> QED  BY <1>0, <1>4, <2>1, <2>3, <2>4, TableStep DEF Live
\* The next update is delivered.
<1>5. ASSUME Deliver(s)
      PROVE  LET n  == local[s].sent + 1
                 up == local[s].log[n]
             IN  /\ ~up.fault /\ local'[s].sent = n /\ local'[s].log = local[s].log /\ local'[s].outcome = local[s].outcome
                 /\ up.outcome # "none" <=> (local[s].outcome # "none" /\ n = Len(local[s].log))
                 /\ up.outcome # "none" => up.outcome = local[s].outcome
                 /\ n <= Len(local[s].log) /\ up \in Update
  <2> DEFINE n  == local[s].sent + 1
             up == local[s].log[n]
  <2>1. /\ n \in 1..Len(local[s].log) /\ local'[s].sent = n /\ local'[s].log = local[s].log
        /\ local'[s].outcome = local[s].outcome /\ up \in Update
    BY <1>0, <1>5, DeliverEffect
  <2>2. ~up.fault /\ up.outcome = IF n = Len(local[s].log) THEN local[s].outcome ELSE "none"
    BY <1>0, <2>1 DEF LateInv, FlownInv
  <2> QED  BY <1>0, <2>1, <2>2
<1>6. flight'[s].claimed /\ flight'[s].status \in Terminal =>
        \/ flight'[s].code = "EDGE_UNREACHABLE"
        \/ local'[s].outcome # "none" /\ local'[s].sent = Len(local'[s].log)
  <2> SUFFICES ASSUME flight'[s].claimed, flight'[s].status \in Terminal
               PROVE  \/ flight'[s].code = "EDGE_UNREACHABLE"
                      \/ local'[s].outcome # "none" /\ local'[s].sent = Len(local'[s].log)
    OBVIOUS
  <2>1. CASE SameRecord(s)
    BY <1>0, <1>4, <2>1 DEF SameRecord, LateInv
  <2>2. CASE flight[s].status = "none" /\ Turned(s, "READY", "none")
    BY <2>2, StatusKinds DEF Turned
  <2>3. CASE flight[s].status \in BeforeLaunch /\ \E status \in {"CANCELLED", "BLOCKED"} : Turned(s, status, "none")
    BY <1>0, <2>3, StatusKinds DEF Turned, ClaimedInv
  <2>4. CASE ~flight[s].claimed /\ Turned(s, "MISSED", "EDGE_NOT_CLAIMED")
    BY <2>4 DEF Turned
  <2>5. CASE Turned(s, "FAILED", "EDGE_UNREACHABLE")
    BY <2>5 DEF Turned
  <2>6. CASE flight'[s].status = "LAUNCHING"
    BY <2>6, StatusKinds
  <2>7. CASE Deliver(s) /\ flight[s].claimed /\ ~SameRecord(s)
    <3> DEFINE n  == local[s].sent + 1
               up == local[s].log[n]
    <3>1. CASE up.outcome # "none"
      BY <1>5, <2>7, <3>1
    <3>2. CASE up.outcome = "none"
      <4>1. flight[s].status \in Terminal
        <5>1. flight[s].status \notin Terminal => flight'[s].status \in Airborne \/ flight'[s].status = flight[s].status
          BY <1>0, <2>7, <3>2, DeliverEffect
        <5> QED  BY <5>1, StatusKinds
      <4>2. flight[s].code = "EDGE_UNREACHABLE" /\ flight'[s].code = flight[s].code
        BY <1>0, <1>5, <2>7, <3>2, <4>1, DeliverEffect
      <4> QED  BY <4>2
    <3> QED  BY <3>1, <3>2
  <2> QED  BY <1>0, <2>1, <2>2, <2>3, <2>4, <2>5, <2>6, <2>7, RecordStep
<1>7. local'[s].outcome # "none" /\ local'[s].sent = Len(local'[s].log) => flight'[s].status = local'[s].outcome
  <2> SUFFICES ASSUME local'[s].outcome # "none", local'[s].sent = Len(local'[s].log)
               PROVE  flight'[s].status = local'[s].outcome
    OBVIOUS
  <2>1. CASE local[s].outcome # "none" /\ local[s].sent = Len(local[s].log)
    BY <1>0, <1>4, <2>1 DEF SameRecord, LateInv
  <2>2. CASE Deliver(s)
    <3> DEFINE n  == local[s].sent + 1
               up == local[s].log[n]
    <3>1. /\ up.outcome # "none" /\ up.outcome = local'[s].outcome
          /\ local[s].outcome # "none" /\ local[s].sent # Len(local[s].log)
      BY <1>0, <1>5, <2>2
    <3>2. flight[s].claimed
      BY <1>0, <3>1 DEF ClaimedInv
    <3>3. flight[s].status \in Terminal => flight[s].code = "EDGE_UNREACHABLE"
      BY <1>0, <3>1, <3>2 DEF LateInv
    <3> QED  BY <1>0, <2>2, <3>1, <3>2, <3>3, DeliverEffect
  <2>3. CASE Prune(s) \/ local'[s] = local[s]
    BY <1>0, <2>1, <2>3, PruneEffect
  <2>4. CASE Record /\ pc.s = s
    BY <1>0, <2>4, RecordEffect
  <2>5. Deliver(s) \/ Prune(s) \/ local'[s] = local[s] \/ (Record /\ pc.s = s)
    BY <1>0, TableStep
  <2> QED  BY <2>1, <2>2, <2>3, <2>4, <2>5
<1> QED  BY <1>1, <1>2, <1>3, <1>6, <1>7 DEF LateInv

\* Where the aircraft reports no fault, a gateway that has told all it knows of a
\* flight that is over has put the record right, whatever was guessed meanwhile.
THEOREM LateRecordsCount == ASSUME ~MayFault PROVE Spec => []LateRecordCorrects
<1>1. Init => LateRecords
  <2>1. ASSUME Init, NEW s \in Edge PROVE LateInv(s)
    BY <2>1, ConstantTypes DEF Init, LateInv, Idle
  <2> QED  BY <2>1, DiskInit DEF LateRecords
<1>2. LateRecords /\ [Next]_vars => LateRecords'
  <2>1. CASE Next
    BY <2>1, DiskStep, LateStep DEF LateRecords
  <2>2. CASE UNCHANGED vars
    BY <2>2, DiskStep DEF vars, LateRecords, LateInv
  <2> QED  BY <2>1, <2>2
<1>3. LateRecords => LateRecordCorrects
  BY DEF LateRecords, LateInv, LateRecordCorrects
<1> QED  BY <1>1, <1>2, <1>3, PTL DEF Spec

=============================================================================
