------------------------------ MODULE MCTrackLog ------------------------------
(* A small instance of TrackLog: one fence at 0, and fixes in it, in the band     *)
(* around it, beyond it, beyond it at speed, and too vague to place.  In the other   *)
(* part of the run the rows of Timesheet accumulate: breaks of a shift, or events of    *)
(* a trip.  The parts share no variable.                                           *)
EXTENDS TrackLog, Timesheet

VARIABLE part

Reads(pos, speed, accuracy) == [pos |-> pos, speed |-> speed, accuracy |-> accuracy]
SmallReadings ==
  {Reads(0, Null, 0), Reads(1, Null, 0), Reads(2, Null, 0), Reads(2, 2, 0), Reads(0, Null, 2)}
AtOrigin == {0}

Sum == Init /\ SheetInit /\ part \in {"track", "shift", "trip"}

SumNext ==
  /\ UNCHANGED part
  /\ \/ part = "track" /\ Next /\ UNCHANGED <<breaks, events>>
     \/ part = "shift" /\ (BreakOpened \/ BreakClosed) /\ UNCHANGED vars
     \/ part = "trip" /\ EventLogged /\ UNCHANGED vars

SumSpec == Sum /\ [][SumNext]_<<part, breaks, events, vars>>
=============================================================================
