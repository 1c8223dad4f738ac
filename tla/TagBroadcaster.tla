--------------------------- MODULE TagBroadcaster ---------------------------
(***************************************************************************)
(* The device that stands in for the trigger system of e16                 *)
(* (e16/Sampler/TagBroadcaster.cxx): it numbers events and spills and      *)
(* publishes a tag for each event.                                         *)
(***************************************************************************)
EXTENDS Integers, Sequences

CONSTANTS
    SpillLengths,   \* the values the distribution of n-events yields, rounded
    MaxTag          \* bound: tags in a run

ASSUME SpillAssumption == SpillLengths \subseteq Nat \ {0} /\ MaxTag \in Nat

\* The counters of the device; a tag has the run it was made in, too, for the
\* properties only.
VARIABLES broadcaster
Running(b) == b.state = "Running"

BroadcasterInit ==
    broadcaster = [state |-> "Ready", pending |-> FALSE, fEventId |-> 0, fSpillId |-> 0,
                   fEventsInSpill |-> 0, fMaxEventsInSpill |-> 0]

\* PreRun restarts the numbers and draws the length of the first spill.
BroadcasterPreRun ==
    /\ broadcaster.state = "Ready"
    /\ \E n \in SpillLengths :
        broadcaster' = [state |-> "Running", pending |-> FALSE, fEventId |-> 0, fSpillId |-> 0,
                        fEventsInSpill |-> 0, fMaxEventsInSpill |-> n]

Tag(run) == [run |-> run, event |-> broadcaster.fEventId, spill |-> broadcaster.fSpillId]

\* The numbers after a tag was sent: a spill ends with the event that finds
\* fMaxEventsInSpill events counted already, so that it has one more.
NextNumbers ==
    IF broadcaster.fEventsInSpill = broadcaster.fMaxEventsInSpill
    THEN \E n \in SpillLengths :
            broadcaster' = [broadcaster EXCEPT !.fEventId = @ + 1, !.fSpillId = @ + 1,
                                !.fEventsInSpill = 0, !.fMaxEventsInSpill = n]
    ELSE broadcaster' = [broadcaster EXCEPT !.fEventId = @ + 1, !.fEventsInSpill = @ + 1]

BroadcasterStop ==
    /\ Running(broadcaster) /\ broadcaster.pending
    /\ broadcaster' = [broadcaster EXCEPT !.state = "Ready"]
=============================================================================
