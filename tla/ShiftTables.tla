---------------------------- MODULE ShiftTables ----------------------------
(***************************************************************************)
(* The rows the shift commands write and what PostgreSQL enforces on them: *)
(* shifts, breaks, position sessions, the trip opened with a driving       *)
(* session, and the open vehicle assignments.  A table is a value here; the *)
(* modules that own variables pass it in.                                  *)
(*                                                                         *)
(* Abstractions.  A row id is an index, 0 is SQL's NULL id; a row that was  *)
(* never inserted is the No... record.  A session's worker is its shift's   *)
(* worker, and a worker is his own driver record (findDriverForWorker).     *)
(* A trip is stored under its positionSessionId, which is unique.  Only     *)
(* open assignments are kept: a released one is never read again.           *)
(***************************************************************************)
EXTENDS Integers, FiniteSets

CONSTANTS
  Worker,        \* employees of the tenant
  Driver,        \* those with an ACTIVE driver profile and a valid licence
  Position,      \* positions of the site
  Vehicle,       \* vehicles in status ACTIVE
  Nobody, Nowhere, NoVehicle,   \* sentinels
  MaxShifts, MaxBreaks, MaxSessions,  \* bounds on the rows ever inserted
  MaxTime        \* bound on the clock

ASSUME SentinelAssumption ==
  /\ Driver \subseteq Worker
  /\ Nobody \notin Worker /\ Nowhere \notin Position /\ NoVehicle \notin Vehicle

ASSUME BoundAssumption ==
  /\ MaxShifts \in Nat /\ MaxBreaks \in Nat /\ MaxSessions \in Nat
  /\ MaxTime \in Nat

Null == -1
Time == 0..MaxTime
ShiftId == 1..MaxShifts
BreakId == 1..MaxBreaks
SessionId == 1..MaxSessions

ShiftRow == [worker: Worker \cup {Nobody},
             status: {"NONE", "ACTIVE", "ON_BREAK", "COMPLETED"},
             start: Time, end: Time \cup {Null}]
IntervalRow == [shift: ShiftId \cup {0}, start: Time, end: Time \cup {Null}]
SessionRow == [shift: ShiftId \cup {0}, position: Position \cup {Nowhere},
               start: Time, end: Time \cup {Null}]
TripRow == [status: {"NONE", "ACTIVE", "COMPLETED"},
            vehicle: Vehicle \cup {NoVehicle},
            start: Time, end: Time \cup {Null}]
Assignment == [driver: Worker \cup {Nobody}, isAutomatic: BOOLEAN]

NoShift == [worker |-> Nobody, status |-> "NONE", start |-> 0, end |-> Null]
NoBreak == [shift |-> 0, start |-> 0, end |-> Null]
NoSession == [shift |-> 0, position |-> Nowhere, start |-> 0, end |-> Null]
NoTrip == [status |-> "NONE", vehicle |-> NoVehicle, start |-> 0, end |-> Null]
Free == [driver |-> Nobody, isAutomatic |-> FALSE]
---------------------------------------------------------------------------
(* Reads. *)

IsOpen(row) == row.status \in {"ACTIVE", "ON_BREAK"}

\* The rows of an interval table (breaks, sessions) still open on shift i.
OpenOn(table, i) == {k \in DOMAIN table : table[k].shift = i /\ table[k].end = Null}

OpenShiftsOf(shifts, w) ==
  {i \in DOMAIN shifts : shifts[i].worker = w /\ IsOpen(shifts[i])}

OpenSessionsOf(shifts, sessions, w) ==
  {s \in DOMAIN sessions :
     /\ sessions[s].shift # 0
     /\ sessions[s].end = Null
     /\ shifts[sessions[s].shift].worker = w}

SessionWorker(shifts, sessions, s) ==
  IF sessions[s].shift = 0 THEN Nobody ELSE shifts[sessions[s].shift].worker

ActiveTripsOf(shifts, sessions, trips, w) ==
  {s \in DOMAIN trips :
     trips[s].status = "ACTIVE" /\ SessionWorker(shifts, sessions, s) = w}

\* findFirst over a set the partial unique indexes keep at one element at most.
FindFirst(ids) == IF ids = {} THEN 0 ELSE CHOOSE i \in ids : TRUE

\* The id the next insert gets.  An insert beyond the bound is not taken.
NextIds(unused) == {i \in unused : \A j \in unused : i <= j}
NewShiftIds(shifts) == NextIds({i \in DOMAIN shifts : shifts[i].status = "NONE"})
NewRowIds(table) == NextIds({k \in DOMAIN table : table[k].shift = 0})
---------------------------------------------------------------------------
(* The unique indexes and CHECK constraints, as the condition a statement    *)
(* must satisfy to be accepted.                                              *)

MutNoShiftIndex(shifts, w, i) == TRUE

\* shifts_one_open_per_worker: shift i of w may be in an open status.
ShiftIndexAllows(shifts, w, i) == OpenShiftsOf(shifts, w) \subseteq {i}

\* shift_breaks_one_open_per_shift
BreakIndexAllows(breaks, i) == OpenOn(breaks, i) = {}

\* position_sessions_one_open_per_shift and ..._per_worker, for an insert by w on
\* shift i once session `closing` (0: none) has been closed by the same transaction.
SessionIndexAllows(shifts, sessions, w, i, closing) ==
  /\ OpenOn(sessions, i) \subseteq {closing}
  /\ OpenSessionsOf(shifts, sessions, w) \subseteq {closing}

\* driver_trips_one_open_per_driver and ..._per_vehicle
TripIndexAllows(shifts, sessions, trips, w, v) ==
  /\ ActiveTripsOf(shifts, sessions, trips, w) = {}
  /\ \A s \in DOMAIN trips : trips[s].status = "ACTIVE" => trips[s].vehicle # v

\* vehicle_assignments_one_open_per_vehicle and ..._per_driver
AssignmentIndexAllows(held, w, v) ==
  /\ held[v] = Free
  /\ \A u \in DOMAIN held : held[u].driver # w
---------------------------------------------------------------------------
(* Writes.  (Definitions named Mut... here and in the modules below are the   *)
(* plausible mistakes the properties are shown to catch; no action uses them.) *)

MutBreakLeftOpen(breaks, b, at) == breaks

\* Closing a break filters on endedAt IS NULL and ignores the row count.
CloseBreak(breaks, b, at) ==
  IF b # 0 /\ breaks[b].end = Null
    THEN [breaks EXCEPT ![b].end = at] ELSE breaks

\* ... and CHECK (endedAt >= startedAt) rejects an end before the start.
BreakCheckAllows(breaks, b, at) ==
  b # 0 /\ breaks[b].end = Null => at >= breaks[b].start

MutCloseUnconditionally(sessions, s, at) == s # 0 => at >= sessions[s].start

\* positionSession.close compares and sets: zero rows written is a ConflictError.
\* The same CHECK holds of sessions, whose start a correction may have moved.
MayCloseSession(sessions, s, at) ==
  s # 0 => sessions[s].end = Null /\ at >= sessions[s].start

MutSessionLeftOpen(sessions, s, at) == sessions
CloseSession(sessions, s, at) ==
  IF s = 0 THEN sessions ELSE [sessions EXCEPT ![s].end = at]

OpenSession(sessions, s, i, p, at) ==
  [sessions EXCEPT ![s] = [shift |-> i, position |-> p, start |-> at, end |-> Null]]

\* closeAutomaticAssignment: an assignment a fleet manager made is not released.
ReleaseAutomatic(held, w, v) ==
  IF v \in DOMAIN held /\ held[v] = [driver |-> w, isAutomatic |-> TRUE]
    THEN [held EXCEPT ![v] = Free] ELSE held

\* closeTrip and trips.close: updates by id that do not look at the status; the caller
\* checks that the trip may end at that instant, as CHECK (endedAt >= startedAt) does.
CloseTrip(trips, s, at) ==
  [trips EXCEPT ![s].status = "COMPLETED", ![s].end = at]

\* shift.close writes whatever row has the id, open or not.
CloseShift(shifts, i, at) ==
  [shifts EXCEPT ![i].status = "COMPLETED", ![i].end = at]
=============================================================================
