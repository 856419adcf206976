------------------------------- MODULE Delivery -------------------------------
(***************************************************************************)
(* What internal/events promises of an item the API shows (events.go:      *)
(* 10-11, state.go:1-3), said without polls, handlers or a state file:     *)
(* an item is reported before it is noted as done with, is never reported  *)
(* again once it is noted, and is reported again before that only when a   *)
(* fault has happened for every earlier report.                            *)
(*                                                                         *)
(* All three ways the emitter keeps its notes implement it: the seen-set   *)
(* of SeenEvents; the watermark of GuildLogEvents, where one note stands   *)
(* for a batch and may also pass over what the API stopped showing; and    *)
(* the baseline of DiffEvents, where an item is a value that a rising      *)
(* number has reached and one event reports all the values of a rise.      *)
(***************************************************************************)
EXTENDS Naturals

CONSTANT Items

VARIABLES
    offered,   \* items the API shows
    reported,  \* reported[i]: how often i was reported
    noted,     \* items that will not be reported any more
    faults     \* crashes and failed writes

vars == <<offered, reported, noted, faults>>

Init ==
    /\ offered = {}
    /\ reported = [i \in Items |-> 0]
    /\ noted = {}
    /\ faults = 0

(* The API begins to show an item, and stops showing some.  What was noted *)
(* without a report does not come back.                                    *)
Offer(i) ==
    /\ i \in noted => reported[i] > 0
    /\ offered' = offered \union {i}
    /\ UNCHANGED <<reported, noted, faults>>

Withdraw(batch) ==
    /\ offered' = offered \ batch
    /\ UNCHANGED <<reported, noted, faults>>

(* Items may be reported together while they are not noted, the first time *)
(* for free, and every other time at the expense of a fault.               *)
Report(batch) ==
    /\ \A i \in batch : i \notin noted /\ reported[i] <= faults
    /\ reported' = [i \in Items |-> IF i \in batch THEN reported[i] + 1
                                                  ELSE reported[i]]
    /\ UNCHANGED <<offered, noted, faults>>

(* A note may cover many items, all of those on show having been reported. *)
Note(batch) ==
    /\ \A i \in batch \cap offered : reported[i] > 0
    /\ noted' = noted \union batch
    /\ UNCHANGED <<offered, reported, faults>>

Fault ==
    /\ faults' = faults + 1
    /\ UNCHANGED <<offered, reported, noted>>

Next ==
    \/ \E i \in Items : Offer(i)
    \/ \E batch \in SUBSET Items : Withdraw(batch) \/ Report(batch) \/ Note(batch)
    \/ Fault

Spec == Init /\ [][Next]_vars

-----------------------------------------------------------------------------
TypeOK ==
    /\ offered \subseteq Items
    /\ reported \in [Items -> Nat]
    /\ noted \subseteq Items
    /\ faults \in Nat

(* What is on show and noted has been reported: nothing is passed over.    *)
NothingPassedOver == \A i \in noted \cap offered : reported[i] > 0

(* No more reports than one, and one more for each fault.                  *)
RepeatsNeedFaults == \A i \in Items : reported[i] <= faults + 1
=============================================================================
