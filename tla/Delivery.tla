------------------------------ MODULE Delivery ------------------------------
(***************************************************************************)
(* What store-and-forward delivery promises, with nothing of how: no       *)
(* batches, requests, receipts, crashes or clocks.                         *)
(*                                                                         *)
(* A row is submitted at the site, and some rows are updates of a flight.  *)
(* The centre settles rows: it applies them, at most once each and a       *)
(* flight's updates in order, or drops them.  A row leaves the site's      *)
(* queue only once it is settled.                                          *)
(***************************************************************************)
EXTENDS Naturals

CONSTANTS
    Rows,       \* row numbers, handed out in ascending order
    Flights

VARIABLES
    submitted,  \* rows reported so far
    updates,    \* the rows that are updates of each flight
    queued,     \* rows the site still holds
    times,      \* how often each row has been applied
    dropped     \* rows settled without being applied

vars == <<submitted, updates, queued, times, dropped>>

Settled == {i \in Rows : times[i] > 0} \cup dropped

Init ==
    /\ submitted = {} /\ queued = {} /\ dropped = {}
    /\ updates = [f \in Flights |-> {}]
    /\ times = [i \in Rows |-> 0]

Submit(i) ==
    /\ i \in Rows /\ \A j \in submitted : j < i
    /\ submitted' = submitted \cup {i}
    /\ queued' = queued \cup {i}
    /\ \/ updates' = updates
       \/ \E f \in Flights : updates' = [updates EXCEPT ![f] = @ \cup {i}]
    /\ UNCHANGED <<times, dropped>>

\* The centre applies the rows of `now` for the first time, and no update while
\* an earlier one of its flight is unsettled.
Settle(now) ==
    /\ now \subseteq submitted /\ \A i \in now : times[i] = 0
    /\ times' = [i \in Rows |-> IF i \in now THEN 1 ELSE times[i]]
    /\ dropped \subseteq dropped' /\ dropped' \subseteq submitted
    /\ \A f \in Flights : \A i \in now \cap updates[f], j \in updates[f] : j < i => j \in Settled'
    /\ UNCHANGED <<submitted, updates, queued>>

\* Rows leave the site, some of them set aside there.
Leave(rows) ==
    /\ rows \subseteq queued /\ queued' = queued \ rows
    /\ dropped \subseteq dropped' /\ dropped' \subseteq dropped \cup rows
    /\ rows \subseteq Settled'
    /\ UNCHANGED <<submitted, updates, times>>

Next ==
    \/ \E i \in Rows : Submit(i)
    \/ \E now \in SUBSET submitted : Settle(now)
    \/ \E rows \in SUBSET queued : Leave(rows)

Spec == Init /\ [][Next]_vars

=============================================================================
