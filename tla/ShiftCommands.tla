--------------------------- MODULE ShiftCommands ---------------------------
(***************************************************************************)
(* The write side of a working day: ShiftCommandService and                *)
(* DrivingCommandService, one database transaction per command.             *)
(*                                                                         *)
(* withTenant opens a transaction at PostgreSQL's default level, READ       *)
(* COMMITTED, and no read takes a row lock.  A command is therefore several  *)
(* steps of a request: its reads, each of what is committed at that moment,  *)
(* then one step for its writes, which become visible together and which    *)
(* the row filters, the unique indexes and the CHECK constraints judge       *)
(* against the rows as they are then.  A request may stop at any point       *)
(* before that (Abort): a rule of the command refused it, a constraint       *)
(* failed, or the transaction was lost.                                     *)
(*                                                                         *)
(* Abstractions.  Eligibility is decided before the transaction and is the   *)
(* subject of its own module: here any worker may take any position.  Trips  *)
(* are those opened by the handoff; the driver portal can end them.  What a  *)
(* duration or a distance comes to is left out.                             *)
(***************************************************************************)
EXTENDS ShiftTables

CONSTANTS
  Device,             \* requests workers may have in flight at once
  Office,             \* those of supervisors and of the sweep
  MaxBacklog,         \* how far back an offline action may be dated
  MaxSkew,            \* tolerance for a device clock running fast
  MaxShiftDuration,   \* the cap of autoCloseOverrunningShifts
  Sweeping,           \* autoCloseOverrunningShifts is scheduled
  Correcting,         \* supervisors correct position sessions
  PortalTrips         \* drivers use the driver portal beside the worker app

ASSUME PolicyAssumption ==
  /\ MaxBacklog \in Nat /\ MaxSkew \in Nat /\ MaxShiftDuration \in Nat
  /\ Sweeping \in BOOLEAN /\ Correcting \in BOOLEAN /\ PortalTrips \in BOOLEAN

Request == Device \cup Office

VARIABLES
  shifts, breaks, sessions, trips, held,   \* committed rows
  req,                                     \* requests being served
  now                                      \* the server's clock

tables == <<shifts, breaks, sessions, trips, held>>
vars == <<shifts, breaks, sessions, trips, held, req, now>>

Command == {"startShift", "endShift", "startBreak", "endBreak", "changePosition",
            "beginDriving", "endTrip", "autoClose", "correct"}

(* What a request remembers of its input and of its reads.                   *)
RequestState ==
  [cmd: Command \cup {"none"},
   phase: {"idle", "shiftRead", "planned", "write", "release"},
   worker: Worker \cup {Nobody},
   at: Time, until: Time \cup {Null},        \* until: a correction's new end
   position: Position \cup {Nowhere}, vehicle: Vehicle \cup {NoVehicle},
   shift: ShiftId \cup {0}, session: SessionId \cup {0}, brk: BreakId \cup {0},
   trip: SessionId \cup {0},                 \* the running trip to end
   plan: {"NONE", "REUSE", "CREATE"}]        \* what planAssignment decided

Idle == [cmd |-> "none", phase |-> "idle", worker |-> Nobody, at |-> 0,
         until |-> Null, position |-> Nowhere, vehicle |-> NoVehicle,
         shift |-> 0, session |-> 0, brk |-> 0, trip |-> 0, plan |-> "NONE"]

TypeOK ==
  /\ shifts \in [ShiftId -> ShiftRow]
  /\ breaks \in [BreakId -> IntervalRow]
  /\ sessions \in [SessionId -> SessionRow]
  /\ trips \in [SessionId -> TripRow]
  /\ held \in [Vehicle -> Assignment]
  /\ req \in [Request -> RequestState]
  /\ now \in Time

(* A fleet manager may have assigned vehicles for the long term.             *)
Init ==
  /\ shifts = [i \in ShiftId |-> NoShift]
  /\ breaks = [b \in BreakId |-> NoBreak]
  /\ sessions = [s \in SessionId |-> NoSession]
  /\ trips = [s \in SessionId |-> NoTrip]
  /\ held \in [Vehicle -> {Free} \cup {[driver |-> d, isAutomatic |-> FALSE] : d \in Driver}]
  /\ \A u, v \in Vehicle : held[u].driver = held[v].driver /\ u # v => held[u] = Free
  /\ req = [r \in Request |-> Idle]
  /\ now = 0
---------------------------------------------------------------------------
(* The effective instant of an action: the client's, clamped into a window   *)
(* around the server's clock.                                                *)
Reconcile(client, serverNow) ==
  IF client < serverNow - MaxBacklog THEN serverNow - MaxBacklog
  ELSE IF client > serverNow + MaxSkew THEN serverNow
  ELSE client

OccurredAt == {Reconcile(client, now) : client \in Time}

(* A step that commits nothing: the request goes on as q.                     *)
Remember(r, q) == req' = [req EXCEPT ![r] = q] /\ UNCHANGED <<tables, now>>

Finish(r) == req' = [req EXCEPT ![r] = Idle]

Abort(r) == req[r].phase # "idle" /\ Remember(r, Idle)

Writing(r, cmd) == req[r].cmd = cmd /\ req[r].phase = "write"
---------------------------------------------------------------------------
(* Starting a shift.                                                         *)

StartShiftRead(r, w, at, p) ==
  /\ req[r] = Idle
  /\ OpenShiftsOf(shifts, w) = {}
  /\ Remember(r, [Idle EXCEPT !.cmd = "startShift", !.phase = "write", !.worker = w,
                              !.at = at, !.position = p])

StartShiftWrite(r) ==
  LET q == req[r] IN
  /\ Writing(r, "startShift")
  /\ ShiftIndexAllows(shifts, q.worker, 0)
  /\ \E i \in NewShiftIds(shifts) :
       /\ shifts' = [shifts EXCEPT ![i] = [worker |-> q.worker, status |-> "ACTIVE",
                                           start |-> q.at, end |-> Null]]
       /\ \/ q.position = Nowhere /\ UNCHANGED sessions
          \/ /\ q.position # Nowhere
             /\ SessionIndexAllows(shifts, sessions, q.worker, i, 0)
             /\ \E s \in NewRowIds(sessions) :
                  sessions' = OpenSession(sessions, s, i, q.position, q.at)
  /\ Finish(r)
  /\ UNCHANGED <<breaks, trips, held, now>>
---------------------------------------------------------------------------
(* requireOpenShift, the first read of every other worker command, with the  *)
(* refusals that look at the shift alone.                                    *)

StatusAllows(cmd, status) ==
  CASE cmd = "endShift" -> status \in {"ACTIVE", "ON_BREAK"}
    [] cmd = "endBreak" -> status = "ON_BREAK"
    [] OTHER -> status = "ACTIVE"

RequireOpenShift(r, cmd, w, at, p, v) ==
  /\ req[r] = Idle
  /\ \E i \in OpenShiftsOf(shifts, w) :
       /\ StatusAllows(cmd, shifts[i].status)
       /\ cmd = "endShift" => at >= shifts[i].start
       /\ Remember(r, [Idle EXCEPT !.cmd = cmd, !.phase = "shiftRead", !.worker = w,
                                   !.at = at, !.position = p, !.vehicle = v,
                                   !.shift = i])

(* The session a command is about to close, and whether a trip is to be      *)
(* ended with it (endDrivingForSession up to its writes).                     *)
MayClose(s, at) == s # 0 => at >= sessions[s].start

RunningTrip(s) == IF s # 0 /\ trips[s].status = "ACTIVE" THEN s ELSE 0
MayEndTrip(s, at) == RunningTrip(s) # 0 => at >= trips[s].start

MutEndShiftForgetsTrip(r) ==
  LET q == req[r]
      s == FindFirst(OpenOn(sessions, q.shift))
  IN
  /\ q.cmd = "endShift" /\ q.phase = "shiftRead"
  /\ MayClose(s, q.at)
  /\ Remember(r, [q EXCEPT !.phase = "write", !.session = s,
                           !.brk = FindFirst(OpenOn(breaks, q.shift))])

EndShiftRead(r) ==
  LET q == req[r]
      s == FindFirst(OpenOn(sessions, q.shift))
  IN
  /\ q.cmd = "endShift" /\ q.phase = "shiftRead"
  /\ MayClose(s, q.at) /\ MayEndTrip(s, q.at)
  /\ Remember(r, [q EXCEPT !.phase = "write", !.session = s, !.trip = RunningTrip(s),
                           !.brk = FindFirst(OpenOn(breaks, q.shift))])

(* closeTrip, with its CHECK, and closeAutomaticAssignment                     *)
EndDriving(q) ==
  IF q.trip # 0
    THEN /\ q.at >= trips[q.trip].start
         /\ trips' = CloseTrip(trips, q.trip, q.at)
         /\ held' = ReleaseAutomatic(held, q.worker, trips[q.trip].vehicle)
    ELSE UNCHANGED <<trips, held>>

EndShiftWrite(r) ==
  LET q == req[r] IN
  /\ Writing(r, "endShift")
  /\ BreakCheckAllows(breaks, q.brk, q.at)
  /\ MayCloseSession(sessions, q.session, q.at)
  /\ breaks' = CloseBreak(breaks, q.brk, q.at)
  /\ sessions' = CloseSession(sessions, q.session, q.at)
  /\ EndDriving(q)
  /\ shifts' = CloseShift(shifts, q.shift, q.at)
  /\ Finish(r)
  /\ UNCHANGED now
---------------------------------------------------------------------------
(* Breaks.                                                                   *)

StartBreakRead(r) ==
  /\ req[r].cmd = "startBreak" /\ req[r].phase = "shiftRead"
  /\ OpenOn(breaks, req[r].shift) = {}
  /\ Remember(r, [req[r] EXCEPT !.phase = "write"])

(* updateStatus writes the row whatever its status has become.               *)
StartBreakWrite(r) ==
  LET q == req[r] IN
  /\ Writing(r, "startBreak")
  /\ BreakIndexAllows(breaks, q.shift)
  /\ ShiftIndexAllows(shifts, q.worker, q.shift)
  /\ \E b \in NewRowIds(breaks) :
       breaks' = [breaks EXCEPT ![b] = [shift |-> q.shift, start |-> q.at, end |-> Null]]
  /\ shifts' = [shifts EXCEPT ![q.shift].status = "ON_BREAK"]
  /\ Finish(r)
  /\ UNCHANGED <<sessions, trips, held, now>>

EndBreakRead(r) ==
  LET q == req[r] IN
  /\ q.cmd = "endBreak" /\ q.phase = "shiftRead"
  /\ \E b \in OpenOn(breaks, q.shift) :
       /\ q.at >= breaks[b].start
       /\ Remember(r, [q EXCEPT !.phase = "write", !.brk = b])

EndBreakWrite(r) ==
  LET q == req[r] IN
  /\ Writing(r, "endBreak")
  /\ ShiftIndexAllows(shifts, q.worker, q.shift)
  /\ breaks' = CloseBreak(breaks, q.brk, q.at)
  /\ shifts' = [shifts EXCEPT ![q.shift].status = "ACTIVE"]
  /\ Finish(r)
  /\ UNCHANGED <<sessions, trips, held, now>>
---------------------------------------------------------------------------
(* Moving between positions, and the worker-to-driver handoff.               *)

MutAlwaysReuse(r) ==
  /\ req[r].cmd = "beginDriving" /\ req[r].phase = "shiftRead"
  /\ held[req[r].vehicle].driver \in {Nobody, req[r].worker}
  /\ Remember(r, [req[r] EXCEPT !.phase = "planned", !.plan = "REUSE"])

(* loadAssignmentContext and planAssignment                                  *)
PlanAssignment(r) ==
  LET q == req[r] IN
  /\ q.cmd = "beginDriving" /\ q.phase = "shiftRead"
  /\ held[q.vehicle].driver \in {Nobody, q.worker}
  /\ \A u \in Vehicle : held[u].driver = q.worker => u = q.vehicle
  /\ Remember(r, [q EXCEPT !.phase = "planned",
                           !.plan = IF held[q.vehicle].driver = q.worker
                                    THEN "REUSE" ELSE "CREATE"])

MutTripForgotten(r) ==
  LET q == req[r]
      s == FindFirst(OpenOn(sessions, q.shift))
  IN
  /\ \/ q.cmd = "changePosition" /\ q.phase = "shiftRead"
     \/ q.cmd = "beginDriving" /\ q.phase = "planned"
  /\ s # 0 => sessions[s].position # q.position
  /\ MayClose(s, q.at)
  /\ Remember(r, [q EXCEPT !.phase = "write", !.session = s])

(* planPositionChange over the session open on the shift.  Only              *)
(* changePosition ends a trip with the session it closes.                    *)
PlanPositionChange(r) ==
  LET q == req[r]
      s == FindFirst(OpenOn(sessions, q.shift))
  IN
  /\ \/ q.cmd = "changePosition" /\ q.phase = "shiftRead" /\ MayEndTrip(s, q.at)
     \/ q.cmd = "beginDriving" /\ q.phase = "planned"
  /\ s # 0 => sessions[s].position # q.position
  /\ MayClose(s, q.at)
  /\ Remember(r, [q EXCEPT !.phase = "write", !.session = s,
                           !.trip = IF q.cmd = "changePosition" THEN RunningTrip(s) ELSE 0])

MutCloseAtServerTime(q, s) ==
  /\ MayCloseSession(sessions, q.session, now)
  /\ SessionIndexAllows(shifts, sessions, q.worker, q.shift, q.session)
  /\ sessions' = OpenSession(CloseSession(sessions, q.session, now),
                             s, q.shift, q.position, q.at)

(* The close and the open both commands share.  The new session is s.        *)
MoveTo(q, s) ==
  /\ MayCloseSession(sessions, q.session, q.at)
  /\ SessionIndexAllows(shifts, sessions, q.worker, q.shift, q.session)
  /\ sessions' = OpenSession(CloseSession(sessions, q.session, q.at),
                             s, q.shift, q.position, q.at)

ChangePositionWrite(r) ==
  /\ Writing(r, "changePosition")
  /\ \E s \in NewRowIds(sessions) : MoveTo(req[r], s)
  /\ EndDriving(req[r])
  /\ Finish(r)
  /\ UNCHANGED <<shifts, breaks, now>>

BeginDrivingWrite(r) ==
  LET q == req[r] IN
  /\ Writing(r, "beginDriving")
  /\ \E s \in NewRowIds(sessions) :
       /\ MoveTo(q, s)
       /\ TripIndexAllows(shifts, sessions, trips, q.worker, q.vehicle)
       /\ trips' = [trips EXCEPT ![s] = [status |-> "ACTIVE", vehicle |-> q.vehicle,
                                         start |-> q.at, end |-> Null]]
  /\ \/ q.plan = "REUSE" /\ UNCHANGED held
     \/ /\ q.plan = "CREATE"
        /\ AssignmentIndexAllows(held, q.worker, q.vehicle)
        /\ held' = [held EXCEPT ![q.vehicle] = [driver |-> q.worker, isAutomatic |-> TRUE]]
  /\ Finish(r)
  /\ UNCHANGED <<shifts, breaks, now>>
---------------------------------------------------------------------------
(* Ending a trip in the driver portal.  Its instant is the device's, not      *)
(* reconciled.  The vehicle is released by a statement after the transaction. *)

EndTripRead(r, s, at) ==
  /\ PortalTrips
  /\ req[r] = Idle
  /\ trips[s].status = "ACTIVE"
  /\ at >= trips[s].start
  /\ Remember(r, [Idle EXCEPT !.cmd = "endTrip", !.phase = "write", !.at = at,
                              !.worker = SessionWorker(shifts, sessions, s),
                              !.vehicle = trips[s].vehicle, !.session = s, !.trip = s])

EndTripWrite(r) ==
  LET q == req[r] IN
  /\ Writing(r, "endTrip")
  /\ trips' = CloseTrip(trips, q.trip, q.at)
  /\ req' = [req EXCEPT ![r] = [q EXCEPT !.phase = "release", !.trip = 0]]
  /\ UNCHANGED <<shifts, breaks, sessions, held, now>>

ReleaseVehicle(r) ==
  LET q == req[r] IN
  /\ q.cmd = "endTrip" /\ q.phase = "release"
  /\ held' = ReleaseAutomatic(held, q.worker, q.vehicle)
  /\ Finish(r)
  /\ UNCHANGED <<shifts, breaks, sessions, trips, now>>
---------------------------------------------------------------------------
(* The sweep over overrunning shifts: the list is read in one transaction,   *)
(* each shift of it is closed in another.  One request per shift.            *)

ListOverrunning(r, i) ==
  /\ Sweeping
  /\ req[r] = Idle
  /\ IsOpen(shifts[i])
  /\ now - shifts[i].start > MaxShiftDuration
  /\ Remember(r, [Idle EXCEPT !.cmd = "autoClose", !.phase = "shiftRead", !.shift = i,
                              !.worker = shifts[i].worker,
                              !.at = shifts[i].start + MaxShiftDuration])

AutoCloseRead(r) ==
  LET q == req[r]
      s == FindFirst(OpenOn(sessions, q.shift))
  IN
  /\ q.cmd = "autoClose" /\ q.phase = "shiftRead"
  /\ MayClose(s, q.at)
  /\ Remember(r, [q EXCEPT !.phase = "write", !.session = s,
                           !.brk = FindFirst(OpenOn(breaks, q.shift))])

AutoCloseWrite(r) ==
  LET q == req[r] IN
  /\ Writing(r, "autoClose")
  /\ BreakCheckAllows(breaks, q.brk, q.at)
  /\ MayCloseSession(sessions, q.session, q.at)
  /\ breaks' = CloseBreak(breaks, q.brk, q.at)
  /\ sessions' = CloseSession(sessions, q.session, q.at)
  /\ shifts' = CloseShift(shifts, q.shift, q.at)
  /\ Finish(r)
  /\ UNCHANGED <<trips, held, now>>
---------------------------------------------------------------------------
(* A supervisor's correction of one session.                                 *)

(* An open end counts as later than every instant.                           *)
EndsAfter(end, t) == end = Null \/ end > t

ValidCorrection(s, newStart, newEnd) ==
  LET shift == shifts[sessions[s].shift]
      siblings == {o \in SessionId \ {s} : sessions[o].shift = sessions[s].shift}
  IN
  /\ newEnd # Null => newEnd >= newStart
  /\ newStart >= shift.start
  /\ shift.end # Null /\ newEnd # Null => newEnd <= shift.end
  /\ \A o \in siblings :
       ~(EndsAfter(newEnd, sessions[o].start) /\ EndsAfter(sessions[o].end, newStart))

CorrectRead(r, s, newStart, newEnd) ==
  /\ Correcting
  /\ req[r] = Idle
  /\ sessions[s].shift # 0
  /\ ValidCorrection(s, newStart, newEnd)
  /\ Remember(r, [Idle EXCEPT !.cmd = "correct", !.phase = "write", !.session = s,
                              !.at = newStart, !.until = newEnd])

(* An update by id.  Reopening a session is subject to the open indexes.     *)
CorrectWrite(r) ==
  LET q == req[r]
      i == sessions[q.session].shift
  IN
  /\ Writing(r, "correct")
  /\ q.until = Null =>
       SessionIndexAllows(shifts, sessions, shifts[i].worker, i, q.session)
  /\ sessions' = [sessions EXCEPT ![q.session].start = q.at, ![q.session].end = q.until]
  /\ Finish(r)
  /\ UNCHANGED <<shifts, breaks, trips, held, now>>
---------------------------------------------------------------------------
Tick ==
  /\ now < MaxTime
  /\ now' = now + 1
  /\ UNCHANGED <<tables, req>>

WorkerRequest(r) ==
  \E w \in Worker, at \in OccurredAt :
    \/ \E p \in Position \cup {Nowhere} : StartShiftRead(r, w, at, p)
    \/ \E cmd \in {"endShift", "startBreak", "endBreak"} :
         RequireOpenShift(r, cmd, w, at, Nowhere, NoVehicle)
    \/ \E p \in Position : RequireOpenShift(r, "changePosition", w, at, p, NoVehicle)
    \/ \E p \in Position, v \in Vehicle :
         w \in Driver /\ RequireOpenShift(r, "beginDriving", w, at, p, v)

PortalRequest(r) == \E s \in SessionId, at \in Time : EndTripRead(r, s, at)

Supervision(r) ==
  \/ \E i \in ShiftId : ListOverrunning(r, i)
  \/ \E s \in SessionId, t \in Time, u \in Time \cup {Null} : CorrectRead(r, s, t, u)

Continue(r) ==
  \/ StartShiftWrite(r)
  \/ EndShiftRead(r) \/ EndShiftWrite(r)
  \/ StartBreakRead(r) \/ StartBreakWrite(r)
  \/ EndBreakRead(r) \/ EndBreakWrite(r)
  \/ PlanAssignment(r) \/ PlanPositionChange(r)
  \/ ChangePositionWrite(r) \/ BeginDrivingWrite(r)
  \/ EndTripWrite(r) \/ ReleaseVehicle(r)
  \/ AutoCloseRead(r) \/ AutoCloseWrite(r)
  \/ CorrectWrite(r)

Next ==
  \/ Tick
  \/ \E r \in Device : WorkerRequest(r) \/ PortalRequest(r)
  \/ \E r \in Office : Supervision(r)
  \/ \E r \in Request : Continue(r) \/ Abort(r)

Spec == Init /\ [][Next]_vars
---------------------------------------------------------------------------
(* Properties.                                                               *)

OpenOf(table) == {k \in DOMAIN table : table[k].shift # 0 /\ table[k].end = Null}

(* The promise of the partial unique indexes, whichever command writes and    *)
(* however stale its reads were: a worker is in one shift, at one position    *)
(* and in one vehicle, a shift has one break, a vehicle has one driver.       *)
OneShift == \A w \in Worker : \A i, j \in OpenShiftsOf(shifts, w) : i = j
OneBreak == \A b, c \in OpenOf(breaks) : breaks[b].shift = breaks[c].shift => b = c
OnePosition == \A w \in Worker : \A s, t \in OpenSessionsOf(shifts, sessions, w) : s = t
OneTrip ==
  \A s, t \in SessionId :
    /\ trips[s].status = "ACTIVE" /\ trips[t].status = "ACTIVE" /\ s # t
    => /\ trips[s].vehicle # trips[t].vehicle
       /\ SessionWorker(shifts, sessions, s) # SessionWorker(shifts, sessions, t)
OneVehicle ==
  \A u, v \in Vehicle : held[u].driver # Nobody /\ held[u].driver = held[v].driver => u = v
NoDoubleBooking == OneShift /\ OneBreak /\ OnePosition /\ OneTrip /\ OneVehicle

(* The compare-and-set of positionSession.close: of two requests that read    *)
(* the same open session one ends it, and its end never moves again except    *)
(* by a supervisor's correction.                                              *)
EndedSessionFrozen ==
  [][\A s \in SessionId :
       sessions[s].end # Null /\ sessions'[s] # sessions[s] =>
         \E r \in Request : Writing(r, "correct") /\ req[r].session = s]_vars

(* An ended trip keeps its end and its totals: it is ended once.  So it is while *)
(* the driver portal is not in use; its endTrip may end a trip over a handoff's. *)
EndedTripFrozen ==
  [][\A s \in SessionId : trips[s].status = "COMPLETED" => trips'[s] = trips[s]]_vars

(* Leaving the driving position, or the shift, is never half applied: a trip   *)
(* still runs only while the position session it was opened with is open.      *)
TripRunsWithItsSession ==
  \A s \in SessionId : trips[s].status = "ACTIVE" => sessions[s].end = Null

(* A vehicle under a running trip is assigned to the driver of that trip.     *)
DrivenVehicleHeld ==
  \A s \in SessionId :
    trips[s].status = "ACTIVE" =>
      held[trips[s].vehicle].driver = SessionWorker(shifts, sessions, s)

(* The status column agrees with the break rows.                              *)
OnBreakIffOpenBreak ==
  \A i \in ShiftId : shifts[i].status = "ON_BREAK" <=> OpenOn(breaks, i) # {}

(* Ending a shift settles it: whatever came before, no break and no position   *)
(* session of a completed shift is open.                                     *)
CompletedIsSettled ==
  \A i \in ShiftId : shifts[i].status = "COMPLETED" =>
    OpenOn(breaks, i) = {} /\ OpenOn(sessions, i) = {}

(* The time at a position is the sum of its sessions, so two sessions of a    *)
(* shift never overlap, whatever order offline actions are dated in.          *)
SessionsDisjoint ==
  \A s, t \in SessionId :
    /\ s # t /\ sessions[s].shift # 0 /\ sessions[s].shift = sessions[t].shift
    => ~(EndsAfter(sessions[s].end, sessions[t].start)
         /\ EndsAfter(sessions[t].end, sessions[s].start))

(* A worker who ends his shift while driving leaves no trip running.          *)
NoTripAfterShift ==
  \A s \in SessionId :
    trips[s].status = "ACTIVE" => shifts[sessions[s].shift].status # "COMPLETED"

(* The transition table of domain/shift.ts: COMPLETED is final.               *)
CompletedIsFinal ==
  [][\A i \in ShiftId : shifts[i].status = "COMPLETED" => shifts'[i].status = "COMPLETED"]_vars
=============================================================================
