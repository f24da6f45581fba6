------------------------------ MODULE Timesheet ------------------------------
(***************************************************************************)
(* The rows the time of a shift and of a trip is counted from, as they come to  *)
(* be recorded: the breaks of a shift (modules/shifts), whose times a device may  *)
(* report late and in any order, and the pauses of a trip (modules/drivers), of    *)
(* which old trips still carry some: no command logs one any more.               *)
(***************************************************************************)
EXTENDS TimeMath

CONSTANTS MaxBreaks, MaxEvents      \* bounds on the rows of a shift and of a trip

ASSUME TimesheetAssumption == MaxBreaks \in Nat /\ MaxEvents \in Nat

VARIABLES
  breaks,       \* rows of shift_breaks of one shift, told apart by id
  events        \* the pauses and resumptions logged for one trip, in order of occurredAt

SheetInit == breaks = {} /\ events = <<>>

(* A shift has one open break at a time: shift_breaks_one_open_per_shift.           *)
BreakOpened ==
  /\ Cardinality(breaks) < MaxBreaks
  /\ \A b \in breaks : b.end # Unended
  /\ \E at \in Instants, type \in {"PAID", "UNPAID", "MEAL"} :
       breaks' = breaks \cup {[id |-> Cardinality(breaks) + 1, start |-> at, end |-> Unended,
                               type |-> type]}
  /\ UNCHANGED events

BreakClosed ==
  /\ \E b \in breaks, at \in Instants :
       /\ b.end = Unended /\ b.start <= at
       /\ breaks' = (breaks \ {b}) \cup {[b EXCEPT !.end = at]}
  /\ UNCHANGED events

EventLogged ==
  /\ Len(events) < MaxEvents
  /\ \E e \in Pauses :
       /\ \A i \in DOMAIN events : events[i].at <= e.at
       /\ events' = Append(events, e)
  /\ UNCHANGED breaks

SheetNext == BreakOpened \/ BreakClosed \/ EventLogged
SheetSpec == SheetInit /\ [][SheetNext]_<<breaks, events>>
---------------------------------------------------------------------------
(* Hours are counted once, whatever the rows of breaks and the log of pauses hold: no      *)
(* stretch of break is deducted twice, and no stretch of a trip is both driven and paused     *)
(* but for the rounding of its pauses.                                                *)
SecondsCountOnce == BreaksCountOnce(breaks) /\ PausesCountOnce(events)
=============================================================================
