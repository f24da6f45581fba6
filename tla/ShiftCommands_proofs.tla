----------------------- MODULE ShiftCommands_proofs -----------------------
(***************************************************************************)
(* Theorems about ShiftCommands, for every set of requests, workers,        *)
(* positions and vehicles, every bound and every policy.                    *)
(***************************************************************************)
EXTENDS ShiftCommands, TLAPS

LEMMA FindFirstInIds ==
  ASSUME NEW ids
  PROVE  (ids = {} /\ FindFirst(ids) = 0) \/ (ids # {} /\ FindFirst(ids) \in ids)
BY DEF FindFirst

LEMMA ReconciledInTime ==
  ASSUME now \in Time
  PROVE  OccurredAt \subseteq Time
BY BoundAssumption, PolicyAssumption DEF OccurredAt, Reconcile, Time

LEMMA IdleTyped == Idle \in RequestState
BY BoundAssumption DEF Idle, RequestState, Command, Time, Null

(* An auto-close time lies in the past.                                      *)
LEMMA CapInTime ==
  ASSUME NEW i \in ShiftId, TypeOK, now - shifts[i].start > MaxShiftDuration
  PROVE  shifts[i].start + MaxShiftDuration \in Time
BY BoundAssumption, PolicyAssumption DEF TypeOK, ShiftRow, Time
---------------------------------------------------------------------------
(* Type correctness.                                                         *)

LEMMA RememberTyped ==
  ASSUME TypeOK, NEW r \in Request, NEW q \in RequestState, Remember(r, q)
  PROVE  TypeOK'
BY DEF Remember, TypeOK, tables

LEMMA OpenRowTyped ==
  ASSUME TypeOK, NEW i
  PROVE  /\ FindFirst(OpenOn(sessions, i)) \in SessionId \cup {0}
         /\ FindFirst(OpenOn(breaks, i)) \in BreakId \cup {0}
BY FindFirstInIds DEF OpenOn, TypeOK

LEMMA TypeStart ==
  ASSUME TypeOK, NEW r \in Request, NEW w \in Worker, NEW at \in Time,
         NEW p \in Position \cup {Nowhere}, StartShiftRead(r, w, at, p)
  PROVE  TypeOK'
<1> DEFINE q == [Idle EXCEPT !.cmd = "startShift", !.phase = "write", !.worker = w,
                             !.at = at, !.position = p]
<1>1. q \in RequestState
  BY IdleTyped DEF Idle, RequestState, Command
<1>2. Remember(r, q)
  BY DEF StartShiftRead
<1> QED BY <1>1, <1>2, RememberTyped

LEMMA TypeRequire ==
  ASSUME TypeOK, NEW r \in Request, NEW w \in Worker, NEW at \in Time,
         NEW p \in Position \cup {Nowhere}, NEW v \in Vehicle \cup {NoVehicle},
         NEW cmd \in Command, RequireOpenShift(r, cmd, w, at, p, v)
  PROVE  TypeOK'
<1>1. PICK i \in ShiftId :
        Remember(r, [Idle EXCEPT !.cmd = cmd, !.phase = "shiftRead", !.worker = w,
                                 !.at = at, !.position = p, !.vehicle = v, !.shift = i])
  BY DEF RequireOpenShift, OpenShiftsOf, TypeOK
<1> DEFINE q == [Idle EXCEPT !.cmd = cmd, !.phase = "shiftRead", !.worker = w,
                             !.at = at, !.position = p, !.vehicle = v, !.shift = i]
<1>2. q \in RequestState
  BY IdleTyped DEF Idle, RequestState
<1> QED BY <1>1, <1>2, RememberTyped

LEMMA TypeReads ==
  ASSUME TypeOK, NEW r \in Request
  PROVE  /\ EndShiftRead(r) => TypeOK'
         /\ StartBreakRead(r) => TypeOK'
         /\ EndBreakRead(r) => TypeOK'
         /\ PlanAssignment(r) => TypeOK'
         /\ PlanPositionChange(r) => TypeOK'
         /\ AutoCloseRead(r) => TypeOK'
<1> DEFINE q == req[r]
           s == FindFirst(OpenOn(sessions, q.shift))
           b == FindFirst(OpenOn(breaks, q.shift))
<1>1. q \in RequestState
  BY DEF TypeOK
<1>2. s \in SessionId \cup {0} /\ b \in BreakId \cup {0}
  BY OpenRowTyped
<1> HIDE DEF s, b, q
<1>a. [q EXCEPT !.phase = "write"] \in RequestState
  BY <1>1 DEF RequestState
<1>b. \A c \in BreakId \cup {0}, t \in SessionId \cup {0} :
        /\ [q EXCEPT !.phase = "write", !.brk = c] \in RequestState
        /\ [q EXCEPT !.phase = "write", !.session = s, !.brk = c] \in RequestState
        /\ [q EXCEPT !.phase = "write", !.session = s, !.trip = t, !.brk = c]
             \in RequestState
        /\ [q EXCEPT !.phase = "write", !.session = s, !.trip = t] \in RequestState
  BY <1>1, <1>2 DEF RequestState
<1>c. \A d \in {"REUSE", "CREATE"} :
        [q EXCEPT !.phase = "planned", !.plan = d] \in RequestState
  BY <1>1 DEF RequestState
<1>3. ASSUME EndShiftRead(r) PROVE TypeOK'
  BY <1>b, <1>2, <1>3, RememberTyped DEF q, s, b, EndShiftRead, RunningTrip
<1>4. ASSUME StartBreakRead(r) PROVE TypeOK'
  BY <1>a, <1>4, RememberTyped DEF q, StartBreakRead
<1>5. ASSUME EndBreakRead(r) PROVE TypeOK'
  BY <1>b, <1>5, RememberTyped DEF q, EndBreakRead, OpenOn, TypeOK
<1>6. ASSUME PlanAssignment(r) PROVE TypeOK'
  BY <1>c, <1>6, RememberTyped DEF q, PlanAssignment
<1>7. ASSUME PlanPositionChange(r) PROVE TypeOK'
  BY <1>b, <1>2, <1>7, RememberTyped DEF q, s, PlanPositionChange, RunningTrip
<1>8. ASSUME AutoCloseRead(r) PROVE TypeOK'
  BY <1>b, <1>2, <1>8, RememberTyped DEF q, s, b, AutoCloseRead
<1> QED BY <1>3, <1>4, <1>5, <1>6, <1>7, <1>8

(* The table writes keep the tables' types.                                  *)
LEMMA WritesTyped ==
  ASSUME TypeOK, NEW at \in Time
  PROVE  /\ \A b \in BreakId \cup {0} : CloseBreak(breaks, b, at) \in [BreakId -> IntervalRow]
         /\ \A s \in SessionId \cup {0} :
              CloseSession(sessions, s, at) \in [SessionId -> SessionRow]
         /\ \A i \in ShiftId \cup {0} : CloseShift(shifts, i, at) \in [ShiftId -> ShiftRow]
         /\ \A s \in SessionId \cup {0} : CloseTrip(trips, s, at) \in [SessionId -> TripRow]
         /\ \A w, v : ReleaseAutomatic(held, w, v) \in [Vehicle -> Assignment]
<1>1. \A b \in BreakId \cup {0} : CloseBreak(breaks, b, at) \in [BreakId -> IntervalRow]
  BY DEF TypeOK, CloseBreak, IntervalRow
<1>2. \A s \in SessionId \cup {0} : CloseSession(sessions, s, at) \in [SessionId -> SessionRow]
  BY DEF TypeOK, CloseSession, SessionRow
<1>3. \A i \in ShiftId \cup {0} : CloseShift(shifts, i, at) \in [ShiftId -> ShiftRow]
  BY DEF TypeOK, CloseShift, ShiftRow
<1>4. Free \in Assignment
  BY DEF Free, Assignment
<1>5. \A w, v : ReleaseAutomatic(held, w, v) \in [Vehicle -> Assignment]
  BY <1>4 DEF TypeOK, ReleaseAutomatic
<1>6. \A s \in SessionId \cup {0} : CloseTrip(trips, s, at) \in [SessionId -> TripRow]
  BY DEF TypeOK, CloseTrip, TripRow
<1> QED BY <1>1, <1>2, <1>3, <1>5, <1>6

LEMMA OpenSessionTyped ==
  ASSUME NEW table \in [SessionId -> SessionRow], NEW s \in SessionId, NEW i \in ShiftId \cup {0},
         NEW p \in Position \cup {Nowhere}, NEW at \in Time
  PROVE  OpenSession(table, s, i, p, at) \in [SessionId -> SessionRow]
<1>1. [shift |-> i, position |-> p, start |-> at, end |-> Null] \in SessionRow
  BY DEF SessionRow
<1> QED BY <1>1 DEF OpenSession

LEMMA NewIdsTyped ==
  ASSUME TypeOK
  PROVE  /\ NewShiftIds(shifts) \subseteq {i \in ShiftId : shifts[i].status = "NONE"}
         /\ NewRowIds(sessions) \subseteq {s \in SessionId : sessions[s].shift = 0}
         /\ NewRowIds(breaks) \subseteq {b \in BreakId : breaks[b].shift = 0}
BY DEF TypeOK, NewShiftIds, NewRowIds, NextIds

LEMMA FinishTyped ==
  ASSUME TypeOK, NEW r \in Request, Finish(r)
  PROVE  req' \in [Request -> RequestState]
BY IdleTyped DEF TypeOK, Finish

LEMMA EndDrivingTyped ==
  ASSUME TypeOK, NEW q \in RequestState, EndDriving(q)
  PROVE  trips' \in [SessionId -> TripRow] /\ held' \in [Vehicle -> Assignment]
<1>1. q.at \in Time /\ q.trip \in SessionId \cup {0}
  BY DEF RequestState
<1>2. CASE q.trip # 0
  <2>2. trips' \in [SessionId -> TripRow]
    BY <1>1, <1>2, WritesTyped DEF EndDriving
  <2>3. held' \in [Vehicle -> Assignment]
    BY <1>1, <1>2, WritesTyped DEF EndDriving
  <2> QED BY <2>2, <2>3
<1>3. CASE q.trip = 0
  BY <1>3 DEF EndDriving, TypeOK
<1> QED BY <1>2, <1>3

LEMMA TypeStartShiftWrite ==
  ASSUME TypeOK, NEW r \in Request, StartShiftWrite(r)
  PROVE  TypeOK'
<1> DEFINE q == req[r]
<1>1. q.worker \in Worker \cup {Nobody} /\ q.at \in Time /\ q.position \in Position \cup {Nowhere}
  BY DEF TypeOK, RequestState
<1>2. PICK i \in NewShiftIds(shifts) :
        /\ shifts' = [shifts EXCEPT ![i] = [worker |-> q.worker, status |-> "ACTIVE",
                                            start |-> q.at, end |-> Null]]
        /\ \/ UNCHANGED sessions
           \/ \E s \in NewRowIds(sessions) :
                sessions' = OpenSession(sessions, s, i, q.position, q.at)
  BY DEF StartShiftWrite
<1>3. i \in ShiftId
  BY NewIdsTyped
<1>4. shifts' \in [ShiftId -> ShiftRow]
  <2>1. [worker |-> q.worker, status |-> "ACTIVE", start |-> q.at, end |-> Null] \in ShiftRow
    BY <1>1 DEF ShiftRow
  <2> HIDE DEF q
  <2> QED BY <1>2, <2>1 DEF TypeOK
<1>5. sessions' \in [SessionId -> SessionRow]
  <2>1. sessions \in [SessionId -> SessionRow] /\ i \in ShiftId \cup {0}
    BY <1>3 DEF TypeOK
  <2>2. ASSUME NEW s \in NewRowIds(sessions),
               sessions' = OpenSession(sessions, s, i, q.position, q.at)
        PROVE  sessions' \in [SessionId -> SessionRow]
    <3>1. s \in SessionId
      BY NewIdsTyped
    <3> QED BY <1>1, <2>1, <2>2, <3>1, OpenSessionTyped
  <2> QED BY <1>2, <2>1, <2>2
<1>6. req' \in [Request -> RequestState]
  BY FinishTyped DEF StartShiftWrite
<1> QED BY <1>4, <1>5, <1>6 DEF StartShiftWrite, TypeOK

LEMMA TypeBreakWrites ==
  ASSUME TypeOK, NEW r \in Request, StartBreakWrite(r) \/ EndBreakWrite(r)
  PROVE  TypeOK'
<1> DEFINE q == req[r]
<1>1. q.at \in Time /\ q.shift \in ShiftId \cup {0} /\ q.brk \in BreakId \cup {0}
  BY DEF TypeOK, RequestState
<1>2. req' \in [Request -> RequestState]
  BY FinishTyped DEF StartBreakWrite, EndBreakWrite
<1>3. shifts' \in [ShiftId -> ShiftRow]
  <2>1. PICK status \in {"ACTIVE", "ON_BREAK"} :
          shifts' = [shifts EXCEPT ![q.shift].status = status]
    BY DEF StartBreakWrite, EndBreakWrite
  <2> HIDE DEF q
  <2> QED BY <2>1 DEF TypeOK, ShiftRow
<1>4. breaks' \in [BreakId -> IntervalRow]
  <2>1. CASE StartBreakWrite(r)
    <3>1. [shift |-> q.shift, start |-> q.at, end |-> Null] \in IntervalRow
      BY <1>1 DEF IntervalRow
    <3>2. \E b \in NewRowIds(breaks) :
            breaks' = [breaks EXCEPT ![b] = [shift |-> q.shift, start |-> q.at, end |-> Null]]
      BY <2>1 DEF StartBreakWrite
    <3> HIDE DEF q
    <3> QED BY <3>1, <3>2, NewIdsTyped DEF TypeOK
  <2>2. CASE EndBreakWrite(r)
    BY <1>1, <2>2, WritesTyped DEF EndBreakWrite
  <2> QED BY <2>1, <2>2
<1> QED BY <1>2, <1>3, <1>4 DEF StartBreakWrite, EndBreakWrite, TypeOK

LEMMA TypeCloseWrites ==
  ASSUME TypeOK, NEW r \in Request, EndShiftWrite(r) \/ AutoCloseWrite(r)
  PROVE  TypeOK'
<1> DEFINE q == req[r]
<1>1. /\ q.at \in Time /\ q.shift \in ShiftId \cup {0}
      /\ q.session \in SessionId \cup {0} /\ q.brk \in BreakId \cup {0}
  BY DEF TypeOK, RequestState
<1>2. req' \in [Request -> RequestState]
  BY FinishTyped DEF EndShiftWrite, AutoCloseWrite
<1>3. /\ shifts' \in [ShiftId -> ShiftRow] /\ breaks' \in [BreakId -> IntervalRow]
      /\ sessions' \in [SessionId -> SessionRow]
  BY <1>1, WritesTyped DEF EndShiftWrite, AutoCloseWrite
<1>4. trips' \in [SessionId -> TripRow] /\ held' \in [Vehicle -> Assignment]
  BY EndDrivingTyped DEF EndShiftWrite, AutoCloseWrite, TypeOK
<1> QED BY <1>2, <1>3, <1>4 DEF EndShiftWrite, AutoCloseWrite, TypeOK

LEMMA MoveToTyped ==
  ASSUME TypeOK, NEW q \in RequestState, NEW s \in SessionId, MoveTo(q, s)
  PROVE  sessions' \in [SessionId -> SessionRow]
<1>1. /\ q.at \in Time /\ q.shift \in ShiftId \cup {0}
      /\ q.session \in SessionId \cup {0} /\ q.position \in Position \cup {Nowhere}
  BY DEF RequestState
<1>2. CloseSession(sessions, q.session, q.at) \in [SessionId -> SessionRow]
  BY <1>1, WritesTyped
<1> QED BY <1>1, <1>2, OpenSessionTyped DEF MoveTo

LEMMA TypeMoveWrites ==
  ASSUME TypeOK, NEW r \in Request, ChangePositionWrite(r) \/ BeginDrivingWrite(r)
  PROVE  TypeOK'
<1> DEFINE q == req[r]
<1>1. q \in RequestState /\ q.at \in Time /\ q.vehicle \in Vehicle \cup {NoVehicle}
      /\ q.worker \in Worker \cup {Nobody}
  BY DEF TypeOK, RequestState
<1>2. req' \in [Request -> RequestState]
  BY FinishTyped DEF ChangePositionWrite, BeginDrivingWrite
<1>3. PICK s \in SessionId :
        /\ MoveTo(q, s)
        /\ BeginDrivingWrite(r) =>
             trips' = [trips EXCEPT ![s] = [status |-> "ACTIVE", vehicle |-> q.vehicle,
                                            start |-> q.at, end |-> Null]]
  <2>1. CASE ChangePositionWrite(r) /\ ~BeginDrivingWrite(r)
    BY <2>1, NewIdsTyped DEF ChangePositionWrite
  <2>2. CASE BeginDrivingWrite(r)
    BY <2>2, NewIdsTyped DEF BeginDrivingWrite
  <2> QED BY <2>1, <2>2
<1>4. sessions' \in [SessionId -> SessionRow]
  BY <1>1, <1>3, MoveToTyped
<1>5. trips' \in [SessionId -> TripRow] /\ held' \in [Vehicle -> Assignment]
  <2>1. CASE ChangePositionWrite(r)
    BY <1>1, <2>1, EndDrivingTyped DEF ChangePositionWrite
  <2>2. CASE BeginDrivingWrite(r)
    <3>1. [status |-> "ACTIVE", vehicle |-> q.vehicle, start |-> q.at, end |-> Null] \in TripRow
      BY <1>1 DEF TripRow
    <3>2. [driver |-> q.worker, isAutomatic |-> TRUE] \in Assignment
      BY <1>1 DEF Assignment
    <3>3. held' = held \/ held' = [held EXCEPT ![q.vehicle] =
                                     [driver |-> q.worker, isAutomatic |-> TRUE]]
      BY <2>2 DEF BeginDrivingWrite
    <3> HIDE DEF q
    <3> QED BY <2>2, <1>3, <3>1, <3>2, <3>3 DEF TypeOK
  <2> QED BY <2>1, <2>2
<1> QED BY <1>2, <1>4, <1>5 DEF ChangePositionWrite, BeginDrivingWrite, TypeOK

LEMMA TypeSupervision ==
  ASSUME TypeOK, NEW r \in Request
  PROVE  /\ \A i \in ShiftId : ListOverrunning(r, i) => TypeOK'
         /\ \A s \in SessionId, t \in Time, u \in Time \cup {Null} :
              CorrectRead(r, s, t, u) => TypeOK'
         /\ CorrectWrite(r) => TypeOK'
<1>1. ASSUME NEW i \in ShiftId, ListOverrunning(r, i) PROVE TypeOK'
  <2> DEFINE q == [Idle EXCEPT !.cmd = "autoClose", !.phase = "shiftRead", !.shift = i,
                               !.worker = shifts[i].worker,
                               !.at = shifts[i].start + MaxShiftDuration]
  <2>1. shifts[i].worker \in Worker \cup {Nobody}
    BY DEF TypeOK, ShiftRow
  <2>2. shifts[i].start + MaxShiftDuration \in Time
    BY <1>1, CapInTime DEF ListOverrunning
  <2>3. q \in RequestState
    BY <2>1, <2>2, IdleTyped DEF Idle, RequestState, Command
  <2> QED BY <1>1, <2>3, RememberTyped DEF ListOverrunning
<1>2. ASSUME NEW s \in SessionId, NEW t \in Time, NEW u \in Time \cup {Null},
             CorrectRead(r, s, t, u)
      PROVE  TypeOK'
  <2> DEFINE q == [Idle EXCEPT !.cmd = "correct", !.phase = "write", !.session = s,
                               !.at = t, !.until = u]
  <2>1. q \in RequestState
    BY IdleTyped DEF Idle, RequestState, Command
  <2> QED BY <1>2, <2>1, RememberTyped DEF CorrectRead
<1>3. ASSUME CorrectWrite(r) PROVE TypeOK'
  <2> DEFINE q == req[r]
  <2>1. q.at \in Time /\ q.until \in Time \cup {Null} /\ q.session \in SessionId \cup {0}
    BY DEF TypeOK, RequestState
  <2>2. sessions' = [sessions EXCEPT ![q.session].start = q.at, ![q.session].end = q.until]
    BY <1>3 DEF CorrectWrite
  <2>3. req' \in [Request -> RequestState]
    BY <1>3, FinishTyped DEF CorrectWrite
  <2> HIDE DEF q
  <2>4. sessions' \in [SessionId -> SessionRow]
    BY <2>1, <2>2 DEF TypeOK, SessionRow
  <2> QED BY <1>3, <2>3, <2>4 DEF CorrectWrite, TypeOK
<1> QED BY <1>1, <1>2, <1>3

LEMMA TypePortal ==
  ASSUME TypeOK, NEW r \in Request
  PROVE  /\ \A s \in SessionId, at \in Time : EndTripRead(r, s, at) => TypeOK'
         /\ EndTripWrite(r) => TypeOK'
         /\ ReleaseVehicle(r) => TypeOK'
<1>1. ASSUME NEW s \in SessionId, NEW at \in Time, EndTripRead(r, s, at) PROVE TypeOK'
  <2> DEFINE w == SessionWorker(shifts, sessions, s)
             v == trips[s].vehicle
             q == [Idle EXCEPT !.cmd = "endTrip", !.phase = "write", !.at = at, !.worker = w,
                               !.vehicle = v, !.session = s, !.trip = s]
  <2>1. Remember(r, q)
    BY <1>1 DEF EndTripRead
  <2>2. v \in Vehicle \cup {NoVehicle}
    BY DEF TypeOK, TripRow
  <2>3. w \in Worker \cup {Nobody}
    BY DEF SessionWorker, TypeOK, SessionRow, ShiftRow
  <2> HIDE DEF v, w
  <2>4. q \in RequestState
    BY <2>2, <2>3, IdleTyped DEF Idle, RequestState, Command
  <2> QED BY <2>1, <2>4, RememberTyped
<1>2. ASSUME EndTripWrite(r) PROVE TypeOK'
  <2>1. req[r] \in RequestState /\ req[r].at \in Time /\ req[r].trip \in SessionId \cup {0}
    BY DEF TypeOK, RequestState
  <2>2. trips' \in [SessionId -> TripRow]
    BY <1>2, <2>1, WritesTyped DEF EndTripWrite
  <2>3. [req[r] EXCEPT !.phase = "release", !.trip = 0] \in RequestState
    BY <2>1 DEF RequestState
  <2>4. req' \in [Request -> RequestState]
    BY <1>2, <2>3 DEF EndTripWrite, TypeOK
  <2> QED BY <1>2, <2>2, <2>4 DEF EndTripWrite, TypeOK
<1>3. ASSUME ReleaseVehicle(r) PROVE TypeOK'
  <2>1. req[r].at \in Time
    BY DEF TypeOK, RequestState
  <2>2. held' \in [Vehicle -> Assignment]
    BY <1>3, <2>1, WritesTyped DEF ReleaseVehicle
  <2>3. req' \in [Request -> RequestState]
    BY <1>3, FinishTyped DEF ReleaseVehicle
  <2> QED BY <1>3, <2>2, <2>3 DEF ReleaseVehicle, TypeOK
<1> QED BY <1>1, <1>2, <1>3

LEMMA TypeInit == Init => TypeOK
<1> SUFFICES ASSUME Init PROVE TypeOK
  OBVIOUS
<1>1. NoShift \in ShiftRow /\ NoBreak \in IntervalRow
  BY BoundAssumption DEF NoShift, NoBreak, ShiftRow, IntervalRow, Time
<1>2. NoSession \in SessionRow /\ NoTrip \in TripRow
  BY BoundAssumption DEF NoSession, NoTrip, SessionRow, TripRow, Time
<1>3. {Free} \cup {[driver |-> d, isAutomatic |-> FALSE] : d \in Driver} \subseteq Assignment
  <2>1. Free \in Assignment
    BY DEF Free, Assignment
  <2>2. \A d \in Driver : [driver |-> d, isAutomatic |-> FALSE] \in Assignment
    BY SentinelAssumption DEF Assignment
  <2> QED BY <2>1, <2>2
<1> QED BY <1>1, <1>2, <1>3, IdleTyped, BoundAssumption DEF Init, TypeOK, Time

LEMMA TypeStep == TypeOK /\ [Next]_vars => TypeOK'
<1> SUFFICES ASSUME TypeOK, [Next]_vars PROVE TypeOK'
  OBVIOUS
<1>1. CASE Tick
  BY <1>1, BoundAssumption DEF Tick, tables, TypeOK, Time
<1>2. ASSUME NEW r \in Device, WorkerRequest(r) PROVE TypeOK'
  <2>1. r \in Request
    BY DEF Request
  <2>2. PICK w \in Worker, at \in OccurredAt :
          \/ \E p \in Position \cup {Nowhere} : StartShiftRead(r, w, at, p)
          \/ \E cmd \in {"endShift", "startBreak", "endBreak"} :
               RequireOpenShift(r, cmd, w, at, Nowhere, NoVehicle)
          \/ \E p \in Position : RequireOpenShift(r, "changePosition", w, at, p, NoVehicle)
          \/ \E p \in Position, v \in Vehicle : RequireOpenShift(r, "beginDriving", w, at, p, v)
    BY <1>2 DEF WorkerRequest
  <2>3. at \in Time
    BY ReconciledInTime DEF TypeOK
  <2> QED BY <2>1, <2>2, <2>3, TypeStart, TypeRequire DEF Command
<1>3. ASSUME NEW r \in Office, Supervision(r) PROVE TypeOK'
  BY <1>3, TypeSupervision DEF Supervision, Request
<1>4. ASSUME NEW r \in Request, Abort(r) PROVE TypeOK'
  BY <1>4, IdleTyped, RememberTyped DEF Abort
<1>5. ASSUME NEW r \in Request, Continue(r) PROVE TypeOK'
  BY <1>5, TypeReads, TypeStartShiftWrite, TypeBreakWrites, TypeCloseWrites,
     TypeMoveWrites, TypePortal, TypeSupervision DEF Continue
<1>6. ASSUME NEW r \in Device, PortalRequest(r) PROVE TypeOK'
  BY <1>6, TypePortal DEF PortalRequest, Request
<1>7. CASE UNCHANGED vars
  BY <1>7 DEF vars, TypeOK
<1> QED BY <1>1, <1>2, <1>3, <1>4, <1>5, <1>6, <1>7 DEF Next

(* Rows and requests are what the code's types say of them, in every state.  *)
THEOREM TypeCorrect == Spec => []TypeOK
BY TypeInit, TypeStep, PTL DEF Spec
---------------------------------------------------------------------------
(* No double booking.  The indexes speak of workers through the shifts and    *)
(* sessions a row refers to, so the strengthening says that references never  *)
(* dangle: rows refer to inserted rows, and what a request remembers from its  *)
(* reads, however old, is a row of the worker it acts for.                    *)

RowsRefer ==
  /\ \A s \in SessionId : sessions[s].shift # 0 => shifts[sessions[s].shift].status # "NONE"
  /\ \A s \in SessionId : sessions[s].shift = 0 => sessions[s].end = Null
  /\ \A s \in SessionId : trips[s].status # "NONE" => sessions[s].shift # 0

OnShift == {"endShift", "startBreak", "endBreak", "changePosition", "beginDriving", "autoClose"}

RefersTo(q, shiftRows, sessionRows) ==
  /\ q.cmd \in OnShift => /\ q.shift # 0
                          /\ shiftRows[q.shift].status # "NONE"
                          /\ shiftRows[q.shift].worker = q.worker
  /\ q.session # 0 => sessionRows[q.session].shift # 0
  /\ q.trip \in {0, q.session} /\ (q.phase # "write" => q.trip = 0)
  /\ q.cmd = "correct" => q.session # 0

RequestsRefer == \A r \in Request : RefersTo(req[r], shifts, sessions)

IInv == TypeOK /\ RowsRefer /\ RequestsRefer /\ NoDoubleBooking

(* Rows are never deleted, nor handed to another worker or shift.             *)
RowsKept ==
  /\ \A i \in ShiftId : shifts[i].status # "NONE" =>
       shifts'[i].status # "NONE" /\ shifts'[i].worker = shifts[i].worker
  /\ \A s \in SessionId : sessions[s].shift # 0 => sessions'[s].shift = sessions[s].shift

LEMMA SessionIdPositive == 0 \notin SessionId
BY DEF SessionId

LEMMA RefersKept ==
  ASSUME RowsKept, NEW q \in RequestState, RefersTo(q, shifts, sessions)
  PROVE  RefersTo(q, shifts', sessions')
<1>1. q.shift \in ShiftId \cup {0} /\ q.session \in SessionId \cup {0}
  BY DEF RequestState
<1> QED BY <1>1 DEF RefersTo, RowsKept

LEMMA RequestsReferKept ==
  ASSUME TypeOK, RowsKept, RequestsRefer, NEW r \in Request, NEW q,
         req' = [req EXCEPT ![r] = q], RefersTo(q, shifts', sessions')
  PROVE  RequestsRefer'
<1> SUFFICES ASSUME NEW o \in Request PROVE RefersTo(req'[o], shifts', sessions')
  BY DEF RequestsRefer
<1>1. CASE o = r
  BY <1>1 DEF TypeOK
<1>2. CASE o # r
  <2>1. req'[o] = req[o] /\ req[o] \in RequestState
    BY <1>2 DEF TypeOK
  <2>2. RefersTo(req[o], shifts, sessions)
    BY DEF RequestsRefer
  <2> QED BY <2>1, <2>2, RefersKept
<1> QED BY <1>1, <1>2

(* A step that commits nothing leaves every statement about the tables alone.  *)
LEMMA ReadKeeps ==
  ASSUME TypeOK, RowsRefer, RequestsRefer, NoDoubleBooking,
         NEW r \in Request, NEW q, Remember(r, q), RefersTo(q, shifts, sessions)
  PROVE  RowsRefer' /\ RequestsRefer' /\ NoDoubleBooking'
<1>1. UNCHANGED <<shifts, breaks, sessions, trips, held>>
  BY DEF Remember, tables
<1>2. RowsKept
  BY <1>1 DEF RowsKept
<1>3. req' = [req EXCEPT ![r] = q] /\ RefersTo(q, shifts', sessions')
  BY <1>1 DEF Remember
<1>4. RequestsRefer'
  BY <1>2, <1>3, RequestsReferKept
<1>5. RowsRefer'
  BY <1>1 DEF RowsRefer
<1>6. NoDoubleBooking'
  BY <1>1 DEF NoDoubleBooking, OneShift, OneBreak, OnePosition, OneTrip, OneVehicle,
              OpenShiftsOf, OpenOf, OpenSessionsOf, SessionWorker
<1> QED BY <1>4, <1>5, <1>6

LEMMA IdleRefers == RefersTo(Idle, shifts, sessions)
BY DEF RefersTo, Idle, OnShift

LEMMA ReadsRefer ==
  ASSUME IInv, NEW r \in Request
  PROVE  /\ EndShiftRead(r) => IInv'
         /\ StartBreakRead(r) => IInv'
         /\ EndBreakRead(r) => IInv'
         /\ PlanAssignment(r) => IInv'
         /\ PlanPositionChange(r) => IInv'
         /\ AutoCloseRead(r) => IInv'
<1> DEFINE q == req[r]
           s == FindFirst(OpenOn(sessions, q.shift))
           b == FindFirst(OpenOn(breaks, q.shift))
<1>1. q \in RequestState /\ RefersTo(q, shifts, sessions)
  BY DEF IInv, TypeOK, RequestsRefer
<1>2. s # 0 /\ q.shift # 0 => sessions[s].shift # 0
  BY FindFirstInIds DEF OpenOn
<1>3. q.cmd \in OnShift => q.shift # 0
  BY <1>1 DEF RefersTo
<1> HIDE DEF s, b, q
<1>4. ASSUME q.cmd \in OnShift, q.phase # "write", NEW c, NEW t \in {0, s}, NEW d
      PROVE  /\ RefersTo([q EXCEPT !.phase = "write"], shifts, sessions)
             /\ RefersTo([q EXCEPT !.phase = "write", !.brk = c], shifts, sessions)
             /\ RefersTo([q EXCEPT !.phase = "write", !.session = s, !.brk = c], shifts, sessions)
             /\ RefersTo([q EXCEPT !.phase = "write", !.session = s, !.trip = t, !.brk = c],
                         shifts, sessions)
             /\ RefersTo([q EXCEPT !.phase = "write", !.session = s, !.trip = t],
                         shifts, sessions)
             /\ RefersTo([q EXCEPT !.phase = "planned", !.plan = d], shifts, sessions)
  BY <1>1, <1>2, <1>3, <1>4 DEF RefersTo, RequestState, OnShift
<1>5. ASSUME EndShiftRead(r) PROVE IInv'
  <2>1. q.cmd \in OnShift /\ q.phase # "write" /\ TypeOK'
    BY <1>5, TypeReads DEF q, EndShiftRead, OnShift, IInv
  <2>2. Remember(r, [q EXCEPT !.phase = "write", !.session = s, !.trip = RunningTrip(s), !.brk = b])
    BY <1>5 DEF EndShiftRead, q, s, b
  <2>3. RunningTrip(s) \in {0, s}
    BY DEF RunningTrip
  <2> QED BY <1>4, <2>1, <2>2, <2>3, ReadKeeps DEF IInv
<1>6. ASSUME StartBreakRead(r) PROVE IInv'
  <2>1. q.cmd \in OnShift /\ q.phase # "write" /\ TypeOK'
    BY <1>6, TypeReads DEF q, StartBreakRead, OnShift, IInv
  <2>2. Remember(r, [q EXCEPT !.phase = "write"])
    BY <1>6 DEF StartBreakRead, q
  <2> QED BY <1>4, <2>1, <2>2, ReadKeeps DEF IInv
<1>7. ASSUME EndBreakRead(r) PROVE IInv'
  <2>1. q.cmd \in OnShift /\ q.phase # "write" /\ TypeOK'
    BY <1>7, TypeReads DEF q, EndBreakRead, OnShift, IInv
  <2>2. \E c : Remember(r, [q EXCEPT !.phase = "write", !.brk = c])
    BY <1>7 DEF EndBreakRead, q
  <2> QED BY <1>4, <2>1, <2>2, ReadKeeps DEF IInv
<1>8. ASSUME PlanAssignment(r) PROVE IInv'
  <2>1. q.cmd \in OnShift /\ q.phase # "write" /\ TypeOK'
    BY <1>8, TypeReads DEF q, PlanAssignment, OnShift, IInv
  <2>2. \E d : Remember(r, [q EXCEPT !.phase = "planned", !.plan = d])
    BY <1>8 DEF PlanAssignment, q
  <2> QED BY <1>4, <2>1, <2>2, ReadKeeps DEF IInv
<1>9. ASSUME PlanPositionChange(r) PROVE IInv'
  <2>0. \A e : (IF e THEN RunningTrip(s) ELSE 0) \in {0, s}
    BY DEF RunningTrip
  <2>1. q.cmd \in OnShift /\ q.phase # "write" /\ TypeOK'
    BY <1>9, TypeReads DEF q, PlanPositionChange, OnShift, IInv
  <2>2. \E t \in {0, s} : Remember(r, [q EXCEPT !.phase = "write", !.session = s, !.trip = t])
    BY <1>9, <2>0 DEF PlanPositionChange, q, s
  <2> QED BY <1>4, <2>1, <2>2, ReadKeeps DEF IInv
<1>10. ASSUME AutoCloseRead(r) PROVE IInv'
  <2>1. q.cmd \in OnShift /\ q.phase # "write" /\ TypeOK'
    BY <1>10, TypeReads DEF q, AutoCloseRead, OnShift, IInv
  <2>2. Remember(r, [q EXCEPT !.phase = "write", !.session = s, !.brk = b])
    BY <1>10 DEF AutoCloseRead, q, s, b
  <2> QED BY <1>4, <2>1, <2>2, ReadKeeps DEF IInv
<1> QED BY <1>5, <1>6, <1>7, <1>8, <1>9, <1>10

LEMMA StartsRefer ==
  ASSUME IInv, NEW r \in Request
  PROVE  /\ \A w \in Worker, at \in Time, p \in Position \cup {Nowhere} :
              StartShiftRead(r, w, at, p) => IInv'
         /\ \A cmd \in Command \ {"correct"}, w \in Worker, at \in Time,
              p \in Position \cup {Nowhere}, v \in Vehicle \cup {NoVehicle} :
              RequireOpenShift(r, cmd, w, at, p, v) => IInv'
         /\ \A i \in ShiftId : ListOverrunning(r, i) => IInv'
         /\ \A s \in SessionId, t \in Time, u \in Time \cup {Null} :
              CorrectRead(r, s, t, u) => IInv'
<1>1. ASSUME NEW w \in Worker, NEW at \in Time, NEW p \in Position \cup {Nowhere},
             StartShiftRead(r, w, at, p)
      PROVE  IInv'
  <2> DEFINE q == [Idle EXCEPT !.cmd = "startShift", !.phase = "write", !.worker = w,
                               !.at = at, !.position = p]
  <2>1. RefersTo(q, shifts, sessions)
    BY DEF RefersTo, Idle, OnShift
  <2>2. TypeOK' /\ Remember(r, q)
    BY <1>1, TypeStart DEF StartShiftRead, IInv
  <2> QED BY <2>1, <2>2, ReadKeeps DEF IInv
<1>2. ASSUME NEW cmd \in Command \ {"correct"}, NEW w \in Worker, NEW at \in Time,
             NEW p \in Position \cup {Nowhere}, NEW v \in Vehicle \cup {NoVehicle},
             RequireOpenShift(r, cmd, w, at, p, v)
      PROVE  IInv'
  <2>1. PICK i \in OpenShiftsOf(shifts, w) :
          Remember(r, [Idle EXCEPT !.cmd = cmd, !.phase = "shiftRead", !.worker = w,
                                   !.at = at, !.position = p, !.vehicle = v, !.shift = i])
    BY <1>2 DEF RequireOpenShift
  <2> DEFINE q == [Idle EXCEPT !.cmd = cmd, !.phase = "shiftRead", !.worker = w,
                               !.at = at, !.position = p, !.vehicle = v, !.shift = i]
  <2>2. i # 0 /\ shifts[i].status # "NONE" /\ shifts[i].worker = w
    BY DEF OpenShiftsOf, IsOpen, IInv, TypeOK, ShiftId
  <2>3. RefersTo(q, shifts, sessions)
    BY <2>2 DEF RefersTo, Idle
  <2>4. TypeOK'
    BY <1>2, TypeRequire DEF IInv
  <2> QED BY <2>1, <2>3, <2>4, ReadKeeps DEF IInv
<1>3. ASSUME NEW i \in ShiftId, ListOverrunning(r, i) PROVE IInv'
  <2> DEFINE q == [Idle EXCEPT !.cmd = "autoClose", !.phase = "shiftRead", !.shift = i,
                               !.worker = shifts[i].worker,
                               !.at = shifts[i].start + MaxShiftDuration]
  <2>1. RefersTo(q, shifts, sessions)
    BY <1>3 DEF RefersTo, Idle, ListOverrunning, IsOpen, ShiftId
  <2>2. TypeOK' /\ Remember(r, q)
    BY <1>3, TypeSupervision DEF ListOverrunning, IInv
  <2> QED BY <2>1, <2>2, ReadKeeps DEF IInv
<1>4. ASSUME NEW s \in SessionId, NEW t \in Time, NEW u \in Time \cup {Null},
             CorrectRead(r, s, t, u)
      PROVE  IInv'
  <2> DEFINE q == [Idle EXCEPT !.cmd = "correct", !.phase = "write", !.session = s,
                               !.at = t, !.until = u]
  <2>1. RefersTo(q, shifts, sessions)
    BY <1>4 DEF RefersTo, Idle, CorrectRead, OnShift, SessionId
  <2>2. TypeOK' /\ Remember(r, q)
    BY <1>4, TypeSupervision DEF CorrectRead, IInv
  <2> QED BY <2>1, <2>2, ReadKeeps DEF IInv
<1> QED BY <1>1, <1>2, <1>3, <1>4

(* What closing rows, and nothing else, does to the index promises.           *)
OnlyCloses ==
  /\ \A i \in ShiftId : IsOpen(shifts'[i]) =>
       IsOpen(shifts[i]) /\ shifts'[i].worker = shifts[i].worker
  /\ \A b \in BreakId : breaks'[b].shift # 0 /\ breaks'[b].end = Null =>
       breaks[b].end = Null /\ breaks'[b].shift = breaks[b].shift
  /\ \A s \in SessionId : sessions'[s].shift # 0 /\ sessions'[s].end = Null =>
       sessions[s].end = Null /\ sessions'[s].shift = sessions[s].shift
  /\ \A s \in SessionId : trips'[s].status = "ACTIVE" =>
       trips[s].status = "ACTIVE" /\ trips'[s].vehicle = trips[s].vehicle
  /\ \A v \in Vehicle : held'[v] = held[v] \/ held'[v] = Free

LEMMA OneShiftKept ==
  ASSUME TypeOK, TypeOK', OneShift,
         \A i \in ShiftId : IsOpen(shifts'[i]) =>
           IsOpen(shifts[i]) /\ shifts'[i].worker = shifts[i].worker
  PROVE  OneShift'
BY DEF OneShift, OpenShiftsOf, TypeOK

LEMMA OneBreakKept ==
  ASSUME TypeOK, TypeOK', OneBreak,
         \A b \in BreakId : breaks'[b].shift # 0 /\ breaks'[b].end = Null =>
           breaks[b].end = Null /\ breaks'[b].shift = breaks[b].shift
  PROVE  OneBreak'
BY DEF OneBreak, OpenOf, TypeOK

LEMMA OnePositionKept ==
  ASSUME TypeOK, TypeOK', RowsRefer, RowsKept, OnePosition,
         \A s \in SessionId : sessions'[s].shift # 0 /\ sessions'[s].end = Null =>
           sessions[s].end = Null /\ sessions'[s].shift = sessions[s].shift
  PROVE  OnePosition'
<1> SUFFICES ASSUME NEW w \in Worker,
                    NEW s \in SessionId, NEW t \in SessionId,
                    s \in OpenSessionsOf(shifts', sessions', w),
                    t \in OpenSessionsOf(shifts', sessions', w)
             PROVE  s = t
  BY DEF OnePosition, OpenSessionsOf, TypeOK
<1>1. \A u \in SessionId : u \in OpenSessionsOf(shifts', sessions', w) =>
                              u \in OpenSessionsOf(shifts, sessions, w)
  BY DEF OpenSessionsOf, RowsRefer, RowsKept, TypeOK, SessionRow
<1> QED BY <1>1 DEF OnePosition

LEMMA OneTripKept ==
  ASSUME TypeOK, TypeOK', RowsRefer, RowsKept, OneTrip,
         \A s \in SessionId : trips'[s].status = "ACTIVE" =>
           trips[s].status = "ACTIVE" /\ trips'[s].vehicle = trips[s].vehicle
  PROVE  OneTrip'
<1>1. \A s \in SessionId : trips[s].status = "ACTIVE" =>
        SessionWorker(shifts', sessions', s) = SessionWorker(shifts, sessions, s)
  BY DEF SessionWorker, RowsRefer, RowsKept, TypeOK, SessionRow
<1> QED BY <1>1 DEF OneTrip

LEMMA OneVehicleKept ==
  ASSUME OneVehicle, \A v \in Vehicle : held'[v] = held[v] \/ held'[v] = Free
  PROVE  OneVehicle'
BY DEF OneVehicle, Free

LEMMA ClosingKeeps ==
  ASSUME TypeOK, TypeOK', RowsRefer, RowsKept, NoDoubleBooking, OnlyCloses
  PROVE  NoDoubleBooking'
<1>1. OneShift'
  BY OneShiftKept DEF NoDoubleBooking, OnlyCloses
<1>2. OneBreak'
  BY OneBreakKept DEF NoDoubleBooking, OnlyCloses
<1>3. OnePosition'
  BY OnePositionKept DEF NoDoubleBooking, OnlyCloses
<1>4. OneTrip'
  BY OneTripKept DEF NoDoubleBooking, OnlyCloses
<1>5. OneVehicle'
  BY OneVehicleKept DEF NoDoubleBooking, OnlyCloses
<1> QED BY <1>1, <1>2, <1>3, <1>4, <1>5 DEF NoDoubleBooking

(* What the table writes do to a row, in first-order terms.                   *)
LEMMA ClosedRows ==
  ASSUME TypeOK, NEW at \in Time
  PROVE  /\ \A k \in SessionId \cup {0}, s \in SessionId :
              LET row == CloseSession(sessions, k, at)[s] IN
              /\ row.shift = sessions[s].shift
              /\ row.end = Null <=> (sessions[s].end = Null /\ s # k)
              /\ row.end # sessions[s].end => s = k
         /\ \A k \in BreakId \cup {0}, b \in BreakId :
              LET row == CloseBreak(breaks, k, at)[b] IN
              row.shift = breaks[b].shift /\ (row.end = Null => breaks[b].end = Null)
         /\ \A k \in ShiftId \cup {0}, i \in ShiftId :
              LET row == CloseShift(shifts, k, at)[i] IN
              /\ row.worker = shifts[i].worker
              /\ row.status \in {shifts[i].status, "COMPLETED"}
         /\ \A w, v, u : u \in Vehicle =>
              ReleaseAutomatic(held, w, v)[u] \in {held[u], Free}
         /\ \A k \in SessionId, s \in SessionId :
              LET row == CloseTrip(trips, k, at)[s] IN
              /\ s # k => row = trips[s]
              /\ s = k => row.status = "COMPLETED"
              /\ row.vehicle = trips[s].vehicle
<1>1. at # Null
  BY DEF Time, Null
<1>2. \A k \in SessionId \cup {0}, s \in SessionId :
        LET row == CloseSession(sessions, k, at)[s] IN
        /\ row.shift = sessions[s].shift
        /\ row.end = Null <=> (sessions[s].end = Null /\ s # k)
        /\ row.end # sessions[s].end => s = k
  BY <1>1 DEF CloseSession, TypeOK, SessionRow, SessionId
<1>3. \A k \in BreakId \cup {0}, b \in BreakId :
        LET row == CloseBreak(breaks, k, at)[b] IN
        row.shift = breaks[b].shift /\ (row.end = Null => breaks[b].end = Null)
  BY <1>1 DEF CloseBreak, TypeOK, IntervalRow
<1>4. \A k \in ShiftId \cup {0}, i \in ShiftId :
        LET row == CloseShift(shifts, k, at)[i] IN
        /\ row.worker = shifts[i].worker
        /\ row.status \in {shifts[i].status, "COMPLETED"}
  BY DEF CloseShift, TypeOK, ShiftRow
<1>5. \A w, v, u : u \in Vehicle => ReleaseAutomatic(held, w, v)[u] \in {held[u], Free}
  BY DEF ReleaseAutomatic, TypeOK
<1>6. \A k \in SessionId, s \in SessionId :
        LET row == CloseTrip(trips, k, at)[s] IN
        /\ s # k => row = trips[s]
        /\ s = k => row.status = "COMPLETED"
        /\ row.vehicle = trips[s].vehicle
  BY DEF CloseTrip, TypeOK, TripRow
<1> QED BY <1>2, <1>3, <1>4, <1>5, <1>6

LEMMA EndDrivingCloses ==
  ASSUME TypeOK, NEW q \in RequestState, EndDriving(q)
  PROVE  /\ \A s \in SessionId :
              /\ trips'[s].vehicle = trips[s].vehicle
              /\ trips'[s].status = "ACTIVE" => trips[s].status = "ACTIVE"
              /\ s # q.trip => trips'[s].status = trips[s].status
         /\ \A v \in Vehicle : held'[v] = held[v] \/ held'[v] = Free
<1>1. q.trip \in SessionId \cup {0} /\ q.at \in Time
  BY DEF RequestState
<1>2. CASE q.trip # 0
  <2>1. /\ trips' = CloseTrip(trips, q.trip, q.at)
        /\ held' = ReleaseAutomatic(held, q.worker, trips[q.trip].vehicle)
    BY <1>2 DEF EndDriving
  <2>2. \A v \in Vehicle : held'[v] = held[v] \/ held'[v] = Free
    BY <1>1, <2>1, ClosedRows
  <2>3. \A s \in SessionId :
          /\ trips'[s].vehicle = trips[s].vehicle
          /\ s # q.trip => trips'[s].status = trips[s].status
          /\ s = q.trip => trips'[s].status = "COMPLETED"
    BY <1>1, <1>2, <2>1, ClosedRows
  <2> QED BY <2>2, <2>3
<1>3. CASE q.trip = 0
  BY <1>3 DEF EndDriving
<1> QED BY <1>2, <1>3

LEMMA CloseWritesKeep ==
  ASSUME IInv, NEW r \in Request, EndShiftWrite(r) \/ AutoCloseWrite(r)
  PROVE  IInv'
<1> DEFINE q == req[r]
<1>1. TypeOK /\ RowsRefer /\ RequestsRefer /\ NoDoubleBooking
  BY DEF IInv
<1>2. TypeOK'
  BY <1>1, TypeCloseWrites
<1>3. /\ q \in RequestState /\ q.at \in Time /\ q.session \in SessionId \cup {0}
      /\ q.brk \in BreakId \cup {0} /\ q.shift \in ShiftId \cup {0}
  BY <1>1 DEF TypeOK, RequestState
<1>4. /\ breaks' = CloseBreak(breaks, q.brk, q.at)
      /\ sessions' = CloseSession(sessions, q.session, q.at)
      /\ shifts' = CloseShift(shifts, q.shift, q.at)
      /\ req' = [req EXCEPT ![r] = Idle]
      /\ EndDriving(q) \/ UNCHANGED <<trips, held>>
      /\ q.cmd \in OnShift
  BY DEF EndShiftWrite, AutoCloseWrite, Finish, Writing, OnShift
<1>5. (q.session # 0 => sessions[q.session].shift # 0) /\ q.trip \in {0, q.session}
  BY <1>1 DEF RequestsRefer, RefersTo
<1> HIDE DEF q
<1>6. \A i \in ShiftId : /\ shifts'[i].worker = shifts[i].worker
                         /\ shifts'[i].status \in {shifts[i].status, "COMPLETED"}
  BY <1>1, <1>3, <1>4, ClosedRows
<1>7. \A s \in SessionId : /\ sessions'[s].shift = sessions[s].shift
                           /\ sessions'[s].end = Null => sessions[s].end = Null
                           /\ sessions'[s].end # sessions[s].end => s = q.session
  BY <1>1, <1>3, <1>4, ClosedRows
<1>8. RowsKept
  BY <1>6, <1>7 DEF RowsKept
<1>9. \A s \in SessionId : /\ trips'[s].vehicle = trips[s].vehicle
                           /\ trips'[s].status = "ACTIVE" => trips[s].status = "ACTIVE"
                           /\ s # q.trip => trips'[s].status = trips[s].status
  BY <1>1, <1>3, <1>4, EndDrivingCloses
<1>10. OnlyCloses
  <2>1. \A b \in BreakId : breaks'[b].shift = breaks[b].shift
                            /\ (breaks'[b].end = Null => breaks[b].end = Null)
    BY <1>1, <1>3, <1>4, ClosedRows
  <2>2. \A v \in Vehicle : held'[v] = held[v] \/ held'[v] = Free
    BY <1>1, <1>3, <1>4, EndDrivingCloses
  <2> QED BY <1>6, <1>7, <1>9, <2>1, <2>2 DEF OnlyCloses, IsOpen
<1>11. NoDoubleBooking'
  BY <1>1, <1>2, <1>8, <1>10, ClosingKeeps
<1>12. RowsRefer'
  <2>1. \A s \in SessionId : sessions'[s].shift # 0 => shifts'[sessions'[s].shift].status # "NONE"
    BY <1>1, <1>6, <1>7 DEF RowsRefer, TypeOK, SessionRow
  <2>2. \A s \in SessionId : sessions'[s].shift = 0 => sessions'[s].end = Null
    BY <1>1, <1>5, <1>7 DEF RowsRefer, SessionId
  <2>3. \A s \in SessionId : trips'[s].status # "NONE" => sessions'[s].shift # 0
    BY <1>1, <1>5, <1>7, <1>9 DEF RowsRefer, SessionId
  <2> QED BY <2>1, <2>2, <2>3 DEF RowsRefer
<1>13. RequestsRefer'
  BY <1>1, <1>4, <1>8, RequestsReferKept DEF RefersTo, Idle, OnShift
<1> QED BY <1>2, <1>11, <1>12, <1>13 DEF IInv

LEMMA StartShiftKeeps ==
  ASSUME IInv, NEW r \in Request, StartShiftWrite(r)
  PROVE  IInv'
<1> DEFINE q == req[r]
<1>1. TypeOK /\ RowsRefer /\ RequestsRefer /\ NoDoubleBooking
  BY DEF IInv
<1>2. TypeOK'
  BY <1>1, TypeStartShiftWrite
<1>3. PICK i \in NewShiftIds(shifts) :
        /\ shifts' = [shifts EXCEPT ![i] = [worker |-> q.worker, status |-> "ACTIVE",
                                            start |-> q.at, end |-> Null]]
        /\ \/ UNCHANGED sessions
           \/ /\ SessionIndexAllows(shifts, sessions, q.worker, i, 0)
              /\ \E s \in NewRowIds(sessions) :
                   sessions' = OpenSession(sessions, s, i, q.position, q.at)
  BY DEF StartShiftWrite
<1>4. /\ ShiftIndexAllows(shifts, q.worker, 0)
      /\ req' = [req EXCEPT ![r] = Idle]
      /\ UNCHANGED <<breaks, trips, held, now>>
  BY DEF StartShiftWrite, Finish
<1> HIDE DEF q
<1>5. i \in ShiftId /\ shifts[i].status = "NONE"
  BY <1>1, NewIdsTyped
<1>6. /\ shifts'[i].worker = q.worker /\ shifts'[i].status = "ACTIVE"
      /\ \A j \in ShiftId \ {i} : shifts'[j] = shifts[j]
  BY <1>1, <1>3, <1>5 DEF TypeOK
<1>7. \A s \in SessionId : sessions[s].shift # i
  BY <1>1, <1>5 DEF RowsRefer, ShiftId
<1>8. OneShift'
  <2>1. \A j \in ShiftId : IsOpen(shifts[j]) => shifts[j].worker # q.worker
    BY <1>1, <1>4 DEF ShiftIndexAllows, OpenShiftsOf, TypeOK, ShiftId
  <2> QED BY <1>1, <1>2, <1>6, <2>1 DEF OneShift, NoDoubleBooking, OpenShiftsOf, TypeOK
<1>9. CASE UNCHANGED sessions
  <2>1. RowsKept
    BY <1>5, <1>6, <1>9 DEF RowsKept
  <2>2. OneBreak' /\ OneVehicle'
    BY <1>1, <1>4 DEF NoDoubleBooking, OneBreak, OneVehicle, OpenOf
  <2>3. OnePosition'
    BY <1>1, <1>2, <1>9, <2>1, OnePositionKept DEF NoDoubleBooking
  <2>4. OneTrip'
    BY <1>1, <1>2, <1>4, <2>1, OneTripKept DEF NoDoubleBooking
  <2>5. RowsRefer'
    BY <1>1, <1>4, <1>6, <1>9 DEF RowsRefer, TypeOK, SessionRow
  <2>6. RequestsRefer'
    BY <1>1, <1>4, <2>1, RequestsReferKept DEF RefersTo, Idle, OnShift
  <2> QED BY <1>2, <1>8, <2>2, <2>3, <2>4, <2>5, <2>6 DEF IInv, NoDoubleBooking
<1>10. ASSUME SessionIndexAllows(shifts, sessions, q.worker, i, 0),
              NEW s \in NewRowIds(sessions),
              sessions' = OpenSession(sessions, s, i, q.position, q.at)
       PROVE  IInv'
  <2>1. s \in SessionId /\ sessions[s].shift = 0
    BY <1>1, NewIdsTyped
  <2>2. /\ sessions'[s].shift = i /\ sessions'[s].end = Null
        /\ \A t \in SessionId \ {s} : sessions'[t] = sessions[t]
    BY <1>1, <1>10, <2>1 DEF OpenSession, TypeOK
  <2>3. RowsKept
    BY <1>5, <1>6, <2>1, <2>2 DEF RowsKept
  <2>4. OneBreak' /\ OneVehicle'
    BY <1>1, <1>4 DEF NoDoubleBooking, OneBreak, OneVehicle, OpenOf
  <2>5. OnePosition'
    <3>1. \A t \in SessionId, w \in Worker :
            t \in OpenSessionsOf(shifts', sessions', w) =>
              \/ t = s /\ w = q.worker
              \/ t # s /\ w # q.worker /\ t \in OpenSessionsOf(shifts, sessions, w)
      <4> SUFFICES ASSUME NEW t \in SessionId, NEW w \in Worker,
                          t \in OpenSessionsOf(shifts', sessions', w)
                   PROVE  \/ t = s /\ w = q.worker
                          \/ t # s /\ w # q.worker /\ t \in OpenSessionsOf(shifts, sessions, w)
        OBVIOUS
      <4>1. CASE t = s
        BY <1>6, <2>2, <4>1 DEF OpenSessionsOf
      <4>2. CASE t # s
        <5>1. sessions[t].shift # 0 /\ sessions[t].end = Null
          BY <2>2, <4>2 DEF OpenSessionsOf
        <5>2. shifts[sessions[t].shift].worker = w
          BY <1>1, <1>6, <1>7, <2>2, <4>2, <5>1 DEF OpenSessionsOf, TypeOK, SessionRow
        <5>3. t \in OpenSessionsOf(shifts, sessions, w)
          BY <1>1, <5>1, <5>2 DEF OpenSessionsOf, TypeOK
        <5>4. w # q.worker
          BY <1>10, <5>3 DEF SessionIndexAllows, SessionId
        <5> QED BY <4>2, <5>3, <5>4
      <4> QED BY <4>1, <4>2
    <3>2. \A w : OpenSessionsOf(shifts', sessions', w) \subseteq SessionId
      BY <1>2 DEF OpenSessionsOf, TypeOK
    <3> QED BY <1>1, <3>1, <3>2 DEF NoDoubleBooking, OnePosition
  <2>6. OneTrip'
    BY <1>1, <1>2, <1>4, <2>3, OneTripKept DEF NoDoubleBooking
  <2>7. RowsRefer'
    <3>1. \A t \in SessionId : sessions'[t].shift # 0 => shifts'[sessions'[t].shift].status # "NONE"
      BY <1>1, <1>6, <2>2 DEF RowsRefer, TypeOK, SessionRow
    <3>2. \A t \in SessionId : sessions'[t].shift = 0 => sessions'[t].end = Null
      BY <1>1, <2>2 DEF RowsRefer
    <3>3. \A t \in SessionId : trips'[t].status # "NONE" => sessions'[t].shift # 0
      BY <1>1, <1>4, <1>5, <2>2 DEF RowsRefer, ShiftId
    <3> QED BY <3>1, <3>2, <3>3 DEF RowsRefer
  <2>8. RequestsRefer'
    BY <1>1, <1>4, <2>3, RequestsReferKept DEF RefersTo, Idle, OnShift
  <2> QED BY <1>2, <1>8, <2>4, <2>5, <2>6, <2>7, <2>8 DEF IInv, NoDoubleBooking
<1> QED BY <1>3, <1>9, <1>10

LEMMA BreakWritesKeep ==
  ASSUME IInv, NEW r \in Request, StartBreakWrite(r) \/ EndBreakWrite(r)
  PROVE  IInv'
<1> DEFINE q == req[r]
<1>1. TypeOK /\ RowsRefer /\ RequestsRefer /\ NoDoubleBooking
  BY DEF IInv
<1>2. TypeOK'
  BY <1>1, TypeBreakWrites
<1>3. /\ q \in RequestState /\ q.at \in Time /\ q.brk \in BreakId \cup {0}
      /\ q.shift \in ShiftId \cup {0}
  BY <1>1 DEF TypeOK, RequestState
<1>4. PICK status \in {"ACTIVE", "ON_BREAK"} :
        shifts' = [shifts EXCEPT ![q.shift].status = status]
  BY DEF StartBreakWrite, EndBreakWrite
<1>5. /\ ShiftIndexAllows(shifts, q.worker, q.shift)
      /\ req' = [req EXCEPT ![r] = Idle]
      /\ UNCHANGED <<sessions, trips, held, now>>
      /\ q.cmd \in OnShift
  BY DEF StartBreakWrite, EndBreakWrite, Finish, Writing, OnShift
<1>6. /\ \/ \E b \in NewRowIds(breaks) :
              breaks' = [breaks EXCEPT ![b] = [shift |-> q.shift, start |-> q.at, end |-> Null]]
         \/ breaks' = CloseBreak(breaks, q.brk, q.at)
      /\ BreakIndexAllows(breaks, q.shift) \/ breaks' = CloseBreak(breaks, q.brk, q.at)
  BY DEF StartBreakWrite, EndBreakWrite
<1>7. q.shift \in ShiftId /\ shifts[q.shift].status # "NONE" /\ shifts[q.shift].worker = q.worker
  BY <1>1, <1>3, <1>5 DEF RequestsRefer, RefersTo
<1> HIDE DEF q
<1>8. /\ shifts'[q.shift].worker = q.worker /\ shifts'[q.shift].status = status
      /\ \A j \in ShiftId \ {q.shift} : shifts'[j] = shifts[j]
  BY <1>1, <1>4, <1>7 DEF TypeOK, ShiftRow
<1>9. RowsKept
  BY <1>5, <1>7, <1>8 DEF RowsKept
<1>10. OneShift'
  <2>1. \A j \in ShiftId : IsOpen(shifts[j]) /\ shifts[j].worker = q.worker => j = q.shift
    BY <1>1, <1>5 DEF ShiftIndexAllows, OpenShiftsOf, TypeOK
  <2> QED BY <1>1, <1>2, <1>8, <2>1 DEF OneShift, NoDoubleBooking, OpenShiftsOf, TypeOK
<1>11. OneBreak'
  <2>1. CASE breaks' = CloseBreak(breaks, q.brk, q.at)
    <3>1. \A b \in BreakId : /\ breaks'[b].shift = breaks[b].shift
                             /\ breaks'[b].end = Null => breaks[b].end = Null
      BY <1>1, <1>3, <2>1, ClosedRows
    <3> QED BY <1>1, <1>2, <3>1, OneBreakKept DEF NoDoubleBooking
  <2>2. ASSUME NEW b \in NewRowIds(breaks), BreakIndexAllows(breaks, q.shift),
               breaks' = [breaks EXCEPT ![b] = [shift |-> q.shift, start |-> q.at, end |-> Null]]
        PROVE  OneBreak'
    <3>1. \A c \in BreakId : breaks[c].end = Null => breaks[c].shift # q.shift
      BY <1>1, <2>2 DEF BreakIndexAllows, OpenOn, TypeOK
    <3>2. /\ b \in BreakId /\ breaks'[b].shift = q.shift
          /\ \A c \in BreakId \ {b} : breaks'[c] = breaks[c]
      BY <1>1, <2>2, NewIdsTyped DEF TypeOK
    <3> QED BY <1>1, <1>2, <3>1, <3>2 DEF OneBreak, NoDoubleBooking, OpenOf, TypeOK
  <2> QED BY <1>6, <2>1, <2>2
<1>12. OnePosition'
  BY <1>1, <1>2, <1>5, <1>9, OnePositionKept DEF NoDoubleBooking
<1>13. OneTrip'
  BY <1>1, <1>2, <1>5, <1>9, OneTripKept DEF NoDoubleBooking
<1>14. OneVehicle'
  BY <1>1, <1>5 DEF NoDoubleBooking, OneVehicle
<1>15. RowsRefer'
  BY <1>1, <1>5, <1>8 DEF RowsRefer, TypeOK, SessionRow
<1>16. RequestsRefer'
  BY <1>1, <1>5, <1>9, RequestsReferKept DEF RefersTo, Idle, OnShift
<1> QED BY <1>2, <1>10, <1>11, <1>12, <1>13, <1>14, <1>15, <1>16 DEF IInv, NoDoubleBooking

(* The rows after MoveTo: session q.session is closed, s is the one opened.     *)
LEMMA MovedRows ==
  ASSUME TypeOK, NEW q \in RequestState, NEW s \in NewRowIds(sessions), MoveTo(q, s),
         q.session # 0 => sessions[q.session].shift # 0
  PROVE  /\ s \in SessionId /\ s # q.session /\ sessions[s].shift = 0
         /\ sessions'[s].shift = q.shift /\ sessions'[s].end = Null
         /\ \A t \in SessionId \ {s} :
              /\ sessions'[t].shift = sessions[t].shift
              /\ sessions'[t].end = Null <=> (sessions[t].end = Null /\ t # q.session)
              /\ sessions'[t].end # sessions[t].end => t = q.session
<1>1. q.at \in Time /\ q.session \in SessionId \cup {0}
  BY DEF RequestState
<1>2. s \in SessionId /\ sessions[s].shift = 0
  BY NewIdsTyped
<1> DEFINE closed == CloseSession(sessions, q.session, q.at)
<1>3. closed \in [SessionId -> SessionRow]
  BY <1>1, WritesTyped
<1>4. \A t \in SessionId :
        /\ closed[t].shift = sessions[t].shift
        /\ closed[t].end = Null <=> (sessions[t].end = Null /\ t # q.session)
        /\ closed[t].end # sessions[t].end => t = q.session
  BY <1>1, ClosedRows
<1>5. sessions' = OpenSession(closed, s, q.shift, q.position, q.at)
  BY DEF MoveTo
<1> HIDE DEF closed
<1>6. /\ sessions'[s].shift = q.shift /\ sessions'[s].end = Null
      /\ \A t \in SessionId \ {s} : sessions'[t] = closed[t]
  BY <1>2, <1>3, <1>5 DEF OpenSession
<1>7. s # q.session
  BY <1>2, SessionIdPositive
<1> QED BY <1>2, <1>4, <1>6, <1>7

LEMMA MovesKeep ==
  ASSUME IInv, NEW r \in Request, ChangePositionWrite(r) \/ BeginDrivingWrite(r)
  PROVE  IInv'
<1> DEFINE q == req[r]
<1>1. TypeOK /\ RowsRefer /\ RequestsRefer /\ NoDoubleBooking
  BY DEF IInv
<1>2. TypeOK'
  BY <1>1, TypeMoveWrites
<1>3. /\ q \in RequestState /\ q.session \in SessionId \cup {0} /\ q.shift \in ShiftId \cup {0}
      /\ q.cmd \in OnShift
  BY <1>1 DEF TypeOK, RequestState, ChangePositionWrite, BeginDrivingWrite, Writing, OnShift
<1>4. /\ q.shift \in ShiftId /\ shifts[q.shift].status # "NONE"
      /\ shifts[q.shift].worker = q.worker
      /\ q.session # 0 => sessions[q.session].shift # 0
      /\ q.trip \in {0, q.session}
  BY <1>1, <1>3 DEF RequestsRefer, RefersTo
<1>5. PICK s \in NewRowIds(sessions) :
        /\ MoveTo(q, s)
        /\ \/ EndDriving(q)
           \/ /\ TripIndexAllows(shifts, sessions, trips, q.worker, q.vehicle)
              /\ trips' = [trips EXCEPT ![s] = [status |-> "ACTIVE", vehicle |-> q.vehicle,
                                                start |-> q.at, end |-> Null]]
              /\ \/ UNCHANGED held
                 \/ /\ AssignmentIndexAllows(held, q.worker, q.vehicle)
                    /\ held' = [held EXCEPT ![q.vehicle] =
                                  [driver |-> q.worker, isAutomatic |-> TRUE]]
  BY DEF ChangePositionWrite, BeginDrivingWrite
<1>6. UNCHANGED <<shifts, breaks, now>> /\ req' = [req EXCEPT ![r] = Idle]
  BY DEF ChangePositionWrite, BeginDrivingWrite, Finish
<1> HIDE DEF q
<1>7. /\ s \in SessionId /\ s # q.session /\ sessions[s].shift = 0
      /\ sessions'[s].shift = q.shift /\ sessions'[s].end = Null
      /\ \A t \in SessionId \ {s} :
           /\ sessions'[t].shift = sessions[t].shift
           /\ sessions'[t].end = Null <=> (sessions[t].end = Null /\ t # q.session)
  BY <1>1, <1>3, <1>4, <1>5, MovedRows
<1>8. RowsKept
  BY <1>6, <1>7 DEF RowsKept
<1>9. OneShift' /\ OneBreak'
  BY <1>1, <1>6 DEF NoDoubleBooking, OneShift, OneBreak, OpenShiftsOf, OpenOf
<1>10. OnePosition'
  <2>1. \A w \in Worker : \A t \in OpenSessionsOf(shifts', sessions', w) :
          /\ t \in SessionId
          /\ t = s => w = q.worker
          /\ t # s => w # q.worker /\ t \in OpenSessionsOf(shifts, sessions, w)
    <3> SUFFICES ASSUME NEW w \in Worker, NEW t \in OpenSessionsOf(shifts', sessions', w)
                 PROVE  /\ t \in SessionId
                        /\ t = s => w = q.worker
                        /\ t # s => w # q.worker /\ t \in OpenSessionsOf(shifts, sessions, w)
      OBVIOUS
    <3>1. t \in SessionId
      BY <1>2 DEF OpenSessionsOf, TypeOK
    <3>2. t = s => w = q.worker
      BY <1>4, <1>6, <1>7 DEF OpenSessionsOf
    <3>3. t # s => t \in OpenSessionsOf(shifts, sessions, w) /\ t # q.session
      BY <1>1, <1>6, <1>7, <3>1 DEF OpenSessionsOf, TypeOK
    <3>4. OpenSessionsOf(shifts, sessions, q.worker) \subseteq {q.session}
      BY <1>5 DEF MoveTo, SessionIndexAllows
    <3> QED BY <3>1, <3>2, <3>3, <3>4
  <2> QED BY <1>1, <2>1 DEF NoDoubleBooking, OnePosition
<1>11. RequestsRefer'
  BY <1>1, <1>6, <1>8, RequestsReferKept DEF RefersTo, Idle, OnShift
<1>12. \A t \in SessionId : sessions'[t].shift # 0 => shifts'[sessions'[t].shift].status # "NONE"
  BY <1>1, <1>4, <1>6, <1>7 DEF RowsRefer, TypeOK, SessionRow
<1>13. \A t \in SessionId : sessions'[t].shift = 0 => sessions'[t].end = Null
  BY <1>1, <1>4, <1>7, SessionIdPositive DEF RowsRefer
<1>14. CASE EndDriving(q)
  <2>1. \A t \in SessionId : /\ trips'[t].vehicle = trips[t].vehicle
                             /\ trips'[t].status = "ACTIVE" => trips[t].status = "ACTIVE"
                             /\ t # q.trip => trips'[t].status = trips[t].status
    BY <1>1, <1>3, <1>14, EndDrivingCloses
  <2>2. OneTrip'
    BY <1>1, <1>2, <1>8, <2>1, OneTripKept DEF NoDoubleBooking
  <2>3. OneVehicle'
    BY <1>1, <1>3, <1>14, EndDrivingCloses, OneVehicleKept DEF NoDoubleBooking
  <2>4. \A t \in SessionId : trips'[t].status # "NONE" => sessions'[t].shift # 0
    BY <1>1, <1>4, <1>7, <2>1, SessionIdPositive DEF RowsRefer, ShiftId
  <2> QED BY <1>2, <1>9, <1>10, <1>11, <1>12, <1>13, <2>2, <2>3, <2>4
          DEF IInv, NoDoubleBooking, RowsRefer
<1>15. ASSUME TripIndexAllows(shifts, sessions, trips, q.worker, q.vehicle),
              trips' = [trips EXCEPT ![s] = [status |-> "ACTIVE", vehicle |-> q.vehicle,
                                            start |-> q.at, end |-> Null]],
              \/ UNCHANGED held
              \/ /\ AssignmentIndexAllows(held, q.worker, q.vehicle)
                 /\ held' = [held EXCEPT ![q.vehicle] =
                               [driver |-> q.worker, isAutomatic |-> TRUE]]
       PROVE  IInv'
  <2>1. /\ trips'[s].vehicle = q.vehicle /\ trips'[s].status = "ACTIVE"
        /\ \A t \in SessionId \ {s} : trips'[t] = trips[t]
    BY <1>1, <1>7, <1>15 DEF TypeOK
  <2>2. \A t \in SessionId : trips[t].status = "ACTIVE" =>
          /\ trips[t].vehicle # q.vehicle
          /\ SessionWorker(shifts, sessions, t) # q.worker
    BY <1>1, <1>15 DEF TripIndexAllows, ActiveTripsOf, TypeOK
  <2>3. SessionWorker(shifts', sessions', s) = q.worker
    BY <1>4, <1>6, <1>7 DEF SessionWorker, ShiftId
  <2>4. \A t \in SessionId \ {s} :
          SessionWorker(shifts', sessions', t) = SessionWorker(shifts, sessions, t)
    BY <1>6, <1>7 DEF SessionWorker
  <2>5. OneTrip'
    BY <1>1, <2>1, <2>2, <2>3, <2>4 DEF NoDoubleBooking, OneTrip
  <2>6. OneVehicle'
    <3>1. CASE UNCHANGED held
      BY <1>1, <3>1 DEF NoDoubleBooking, OneVehicle
    <3>2. ASSUME AssignmentIndexAllows(held, q.worker, q.vehicle),
                 held' = [held EXCEPT ![q.vehicle] = [driver |-> q.worker, isAutomatic |-> TRUE]]
          PROVE  OneVehicle'
      <4>1. \A v \in Vehicle : /\ held[v].driver # q.worker
                               /\ v # q.vehicle => held'[v] = held[v]
                               /\ v = q.vehicle => held'[v].driver = q.worker
        BY <1>1, <3>2 DEF AssignmentIndexAllows, TypeOK
      <4> QED BY <1>1, <4>1 DEF NoDoubleBooking, OneVehicle
    <3> QED BY <1>15, <3>1, <3>2
  <2>7. \A t \in SessionId : trips'[t].status # "NONE" => sessions'[t].shift # 0
    BY <1>1, <1>4, <1>7, <2>1 DEF RowsRefer, ShiftId
  <2> QED BY <1>2, <1>9, <1>10, <1>11, <1>12, <1>13, <2>5, <2>6, <2>7
          DEF IInv, NoDoubleBooking, RowsRefer
<1> QED BY <1>5, <1>14, <1>15

LEMMA CorrectKeeps ==
  ASSUME IInv, NEW r \in Request, CorrectWrite(r)
  PROVE  IInv'
<1> DEFINE q == req[r]
           i == sessions[q.session].shift
<1>1. TypeOK /\ RowsRefer /\ RequestsRefer /\ NoDoubleBooking
  BY DEF IInv
<1>2. TypeOK'
  BY <1>1, TypeSupervision
<1>3. /\ q.session \in SessionId /\ i \in ShiftId
      /\ shifts[i].worker \in Worker \cup {Nobody}
  <2>1. q.session \in SessionId \cup {0}
    BY <1>1 DEF TypeOK, RequestState
  <2>2. q.session # 0 /\ i # 0
    BY <1>1 DEF RequestsRefer, RefersTo, CorrectWrite, Writing
  <2>3. i \in ShiftId \cup {0}
    BY <1>1, <2>1, <2>2 DEF TypeOK, SessionRow
  <2> QED BY <1>1, <2>1, <2>2, <2>3 DEF TypeOK, ShiftRow
<1>4. /\ sessions' = [sessions EXCEPT ![q.session].start = q.at, ![q.session].end = q.until]
      /\ q.until = Null =>
           SessionIndexAllows(shifts, sessions, shifts[i].worker, i, q.session)
      /\ req' = [req EXCEPT ![r] = Idle]
      /\ UNCHANGED <<shifts, breaks, trips, held, now>>
  BY DEF CorrectWrite, Finish
<1> HIDE DEF q
<1>5. /\ \A t \in SessionId : sessions'[t].shift = sessions[t].shift
      /\ \A t \in SessionId \ {q.session} : sessions'[t] = sessions[t]
      /\ sessions'[q.session].end = q.until
  BY <1>1, <1>3, <1>4 DEF TypeOK, SessionRow
<1>6. RowsKept
  BY <1>4, <1>5 DEF RowsKept
<1>7. OneShift' /\ OneBreak' /\ OneVehicle'
  BY <1>1, <1>4 DEF NoDoubleBooking, OneShift, OneBreak, OneVehicle, OpenShiftsOf, OpenOf
<1>8. OneTrip'
  BY <1>1, <1>2, <1>4, <1>6, OneTripKept DEF NoDoubleBooking
<1>9. OnePosition'
  <2>1. CASE q.until # Null
    <3>1. \A t \in SessionId : sessions'[t].shift # 0 /\ sessions'[t].end = Null =>
            sessions[t].end = Null /\ sessions'[t].shift = sessions[t].shift
      BY <1>5, <2>1
    <3> QED BY <1>1, <1>2, <1>6, <3>1, OnePositionKept DEF NoDoubleBooking
  <2>2. CASE q.until = Null
    <3>1. \A w \in Worker : \A t \in OpenSessionsOf(shifts', sessions', w) :
            /\ t \in SessionId
            /\ t = q.session => w = shifts[i].worker
            /\ t # q.session => w # shifts[i].worker /\ t \in OpenSessionsOf(shifts, sessions, w)
      <4> SUFFICES ASSUME NEW w \in Worker, NEW t \in OpenSessionsOf(shifts', sessions', w)
                   PROVE  /\ t \in SessionId
                          /\ t = q.session => w = shifts[i].worker
                          /\ t # q.session => /\ w # shifts[i].worker
                                              /\ t \in OpenSessionsOf(shifts, sessions, w)
        OBVIOUS
      <4>1. t \in SessionId
        BY <1>2 DEF OpenSessionsOf, TypeOK
      <4>2. t = q.session => w = shifts[i].worker
        BY <1>4, <1>5 DEF OpenSessionsOf
      <4>3. t # q.session => t \in OpenSessionsOf(shifts, sessions, w)
        BY <1>1, <1>4, <1>5, <4>1 DEF OpenSessionsOf, TypeOK
      <4>4. OpenSessionsOf(shifts, sessions, shifts[i].worker) \subseteq {q.session}
        BY <1>4, <2>2 DEF SessionIndexAllows
      <4> QED BY <4>1, <4>2, <4>3, <4>4
    <3> QED BY <1>1, <3>1 DEF NoDoubleBooking, OnePosition
  <2> QED BY <2>1, <2>2
<1>10. RowsRefer'
  <2>1. \A t \in SessionId : sessions'[t].shift # 0 => shifts'[sessions'[t].shift].status # "NONE"
    BY <1>1, <1>4, <1>5 DEF RowsRefer
  <2>2. \A t \in SessionId : sessions'[t].shift = 0 => sessions'[t].end = Null
    BY <1>1, <1>3, <1>5 DEF RowsRefer, ShiftId
  <2>3. \A t \in SessionId : trips'[t].status # "NONE" => sessions'[t].shift # 0
    BY <1>1, <1>4, <1>5 DEF RowsRefer
  <2> QED BY <2>1, <2>2, <2>3 DEF RowsRefer
<1>11. RequestsRefer'
  BY <1>1, <1>4, <1>6, RequestsReferKept DEF RefersTo, Idle, OnShift
<1> QED BY <1>2, <1>7, <1>8, <1>9, <1>10, <1>11 DEF IInv, NoDoubleBooking

LEMMA PortalKeeps ==
  ASSUME IInv, NEW r \in Request
  PROVE  /\ \A s \in SessionId, at \in Time : EndTripRead(r, s, at) => IInv'
         /\ EndTripWrite(r) \/ ReleaseVehicle(r) => IInv'
<1> DEFINE q == req[r]
<1>1. /\ TypeOK /\ RowsRefer /\ RequestsRefer /\ NoDoubleBooking
      /\ q \in RequestState /\ q.at \in Time /\ RefersTo(q, shifts, sessions)
  BY DEF IInv, TypeOK, RequestState, RequestsRefer
<1>2. ASSUME NEW s \in SessionId, NEW at \in Time, EndTripRead(r, s, at) PROVE IInv'
  <2> DEFINE n == [Idle EXCEPT !.cmd = "endTrip", !.phase = "write", !.at = at,
                               !.worker = SessionWorker(shifts, sessions, s),
                               !.vehicle = trips[s].vehicle, !.session = s, !.trip = s]
  <2>1. TypeOK' /\ Remember(r, n)
    BY <1>1, <1>2, TypePortal DEF EndTripRead
  <2>2. sessions[s].shift # 0
    BY <1>1, <1>2 DEF EndTripRead, RowsRefer
  <2>3. RefersTo(n, shifts, sessions)
    BY <2>2 DEF RefersTo, Idle, OnShift
  <2> QED BY <1>1, <2>1, <2>3, ReadKeeps DEF IInv
<1>3. ASSUME EndTripWrite(r) \/ ReleaseVehicle(r) PROVE IInv'
  <2> DEFINE n == [q EXCEPT !.phase = "release", !.trip = 0]
  <2>1. TypeOK'
    BY <1>1, <1>3, TypePortal
  <2>2. /\ UNCHANGED <<shifts, breaks, sessions>>
        /\ req' = [req EXCEPT ![r] = n] \/ req' = [req EXCEPT ![r] = Idle]
        /\ \/ trips' = CloseTrip(trips, q.trip, q.at) /\ q.cmd = "endTrip"
           \/ UNCHANGED trips
        /\ UNCHANGED held \/ held' = ReleaseAutomatic(held, q.worker, q.vehicle)
    BY <1>3 DEF EndTripWrite, ReleaseVehicle, Finish, Writing
  <2>3. q.trip \in SessionId \cup {0} /\ (q.trip # 0 => sessions[q.trip].shift # 0)
    BY <1>1 DEF RequestState, RefersTo
  <2>4. RefersTo(n, shifts, sessions)
    BY <1>1 DEF RefersTo, RequestState
  <2> HIDE DEF n, q
  <2>5. \A s \in SessionId :
          /\ s # q.trip => trips'[s] = trips[s]
          /\ trips'[s].vehicle = trips[s].vehicle
          /\ trips'[s].status = "ACTIVE" => trips[s].status = "ACTIVE"
    <3>1. CASE UNCHANGED trips
      BY <3>1
    <3>2. CASE trips' = CloseTrip(trips, q.trip, q.at) /\ q.trip # 0
      BY <1>1, <2>3, <3>2, ClosedRows
    <3>3. CASE trips' = CloseTrip(trips, q.trip, q.at) /\ q.trip = 0
      BY <1>1, <3>3, SessionIdPositive DEF CloseTrip, TypeOK
    <3> QED BY <2>2, <3>1, <3>2, <3>3
  <2>6. RowsKept /\ OnlyCloses
    BY <1>1, <2>2, <2>5, ClosedRows DEF RowsKept, OnlyCloses
  <2>7. NoDoubleBooking'
    BY <1>1, <2>1, <2>6, ClosingKeeps
  <2>8. RowsRefer'
    BY <1>1, <2>2, <2>3, <2>5, SessionIdPositive DEF RowsRefer
  <2>9. RequestsRefer'
    <3>1. RefersTo(n, shifts', sessions') /\ RefersTo(Idle, shifts', sessions')
      BY <2>2, <2>4, IdleRefers
    <3> QED BY <1>1, <2>2, <2>6, <3>1, RequestsReferKept
  <2> QED BY <2>1, <2>7, <2>8, <2>9 DEF IInv
<1> QED BY <1>2, <1>3

LEMMA InvInit == Init => IInv
<1> SUFFICES ASSUME Init PROVE IInv
  OBVIOUS
<1>1. TypeOK
  BY TypeInit
<1>2. /\ \A i \in ShiftId : shifts[i].status = "NONE"
      /\ \A b \in BreakId : breaks[b].shift = 0
      /\ \A s \in SessionId : sessions[s].shift = 0 /\ sessions[s].end = Null
      /\ \A s \in SessionId : trips[s].status = "NONE"
      /\ \A r \in Request : req[r] = Idle
  BY DEF Init, NoShift, NoBreak, NoSession, NoTrip
<1>3. RowsRefer
  BY <1>2 DEF RowsRefer
<1>4. RequestsRefer
  BY <1>2, IdleRefers DEF RequestsRefer
<1>5. OneShift /\ OneBreak /\ OnePosition /\ OneTrip
  BY <1>1, <1>2 DEF OneShift, OneBreak, OnePosition, OneTrip, OpenShiftsOf, IsOpen, OpenOf,
                    OpenSessionsOf, TypeOK
<1>6. OneVehicle
  BY DEF Init, OneVehicle, Free
<1> QED BY <1>1, <1>3, <1>4, <1>5, <1>6 DEF IInv, NoDoubleBooking

LEMMA InvStep == IInv /\ [Next]_vars => IInv'
<1> SUFFICES ASSUME IInv, [Next]_vars PROVE IInv'
  OBVIOUS
<1>1. ASSUME UNCHANGED <<tables, req>>, TypeOK' PROVE IInv'
  BY <1>1 DEF tables, IInv, RowsRefer, RequestsRefer, NoDoubleBooking, OneShift, OneBreak,
              OnePosition, OneTrip, OneVehicle, OpenShiftsOf, OpenOf, OpenSessionsOf,
              SessionWorker
<1>2. CASE Tick
  BY <1>1, <1>2, TypeStep DEF IInv, Tick
<1>3. ASSUME NEW r \in Device, WorkerRequest(r) PROVE IInv'
  <2>1. r \in Request
    BY DEF Request
  <2>2. PICK w \in Worker, at \in OccurredAt :
          \/ \E p \in Position \cup {Nowhere} : StartShiftRead(r, w, at, p)
          \/ \E cmd \in {"endShift", "startBreak", "endBreak"} :
               RequireOpenShift(r, cmd, w, at, Nowhere, NoVehicle)
          \/ \E p \in Position : RequireOpenShift(r, "changePosition", w, at, p, NoVehicle)
          \/ \E p \in Position, v \in Vehicle : RequireOpenShift(r, "beginDriving", w, at, p, v)
    BY <1>3 DEF WorkerRequest
  <2>3. at \in Time
    BY ReconciledInTime DEF IInv, TypeOK
  <2> QED BY <2>1, <2>2, <2>3, StartsRefer DEF Command
<1>4. ASSUME NEW r \in Office, Supervision(r) PROVE IInv'
  BY <1>4, StartsRefer DEF Supervision, Request
<1>5. ASSUME NEW r \in Request, Abort(r) PROVE IInv'
  BY <1>5, TypeStep, IdleRefers, ReadKeeps DEF Abort, IInv
<1>6. ASSUME NEW r \in Request, Continue(r) PROVE IInv'
  BY <1>6, ReadsRefer, StartShiftKeeps, BreakWritesKeep, CloseWritesKeep, MovesKeep,
     PortalKeeps, CorrectKeeps DEF Continue
<1>7. ASSUME NEW r \in Device, PortalRequest(r) PROVE IInv'
  BY <1>7, PortalKeeps DEF PortalRequest, Request
<1>8. CASE UNCHANGED vars
  BY <1>1, <1>8, TypeStep DEF vars, tables, IInv
<1> QED BY <1>2, <1>3, <1>4, <1>5, <1>6, <1>7, <1>8 DEF Next

LEMMA Inductive == Spec => []IInv
BY InvInit, InvStep, PTL DEF Spec

(* However the requests of devices, supervisors and the sweep interleave and   *)
(* however old what they have read is, no worker is booked twice and no        *)
(* vehicle is driven by two.                                                  *)
THEOREM NeverDoubleBooked == Spec => []NoDoubleBooking
<1>1. IInv => NoDoubleBooking
  BY DEF IInv
<1> QED BY <1>1, Inductive, PTL
---------------------------------------------------------------------------
(* The compare-and-set of positionSession.close.                             *)

LEMMA FreshSessionOpen ==
  ASSUME IInv, NEW s \in NewRowIds(sessions)
  PROVE  s \in SessionId /\ sessions[s].end = Null
BY NewIdsTyped DEF IInv, RowsRefer

LEMMA FrozenByClose ==
  ASSUME TypeOK, NEW q \in RequestState, MayCloseSession(sessions, q.session, q.at),
         NEW s \in SessionId, sessions[s].end # Null
  PROVE  CloseSession(sessions, q.session, q.at)[s] = sessions[s]
BY SessionIdPositive DEF MayCloseSession, CloseSession, RequestState, TypeOK

LEMMA FrozenStep ==
  ASSUME IInv, [Next]_vars, NEW s \in SessionId, sessions[s].end # Null
  PROVE  sessions'[s] = sessions[s] \/ \E r \in Request : Writing(r, "correct") /\ req[r].session = s
<1>1. TypeOK /\ \A t \in NewRowIds(sessions) : t \in SessionId /\ t # s
  BY FreshSessionOpen DEF IInv
<1>2. ASSUME NEW r \in Request, StartShiftWrite(r) PROVE sessions'[s] = sessions[s]
  BY <1>1, <1>2 DEF StartShiftWrite, OpenSession, TypeOK
<1>3. ASSUME NEW r \in Request, EndShiftWrite(r) \/ AutoCloseWrite(r)
      PROVE  sessions'[s] = sessions[s]
  <2>1. req[r] \in RequestState
    BY <1>1 DEF TypeOK
  <2> QED BY <1>1, <1>3, <2>1, FrozenByClose DEF EndShiftWrite, AutoCloseWrite
<1>4. ASSUME NEW r \in Request, ChangePositionWrite(r) \/ BeginDrivingWrite(r)
      PROVE  sessions'[s] = sessions[s]
  <2> DEFINE q == req[r]
             closed == CloseSession(sessions, q.session, q.at)
  <2>1. q \in RequestState /\ q.at \in Time /\ q.session \in SessionId \cup {0}
    BY <1>1 DEF TypeOK, RequestState
  <2>2. PICK t \in NewRowIds(sessions) : MoveTo(q, t)
    BY <1>4 DEF ChangePositionWrite, BeginDrivingWrite
  <2>3. closed \in [SessionId -> SessionRow]
    BY <1>1, <2>1, WritesTyped
  <2>4. closed[s] = sessions[s]
    BY <1>1, <2>1, <2>2, FrozenByClose DEF MoveTo
  <2>5. sessions' = OpenSession(closed, t, q.shift, q.position, q.at)
    BY <2>2 DEF MoveTo
  <2> HIDE DEF closed, q
  <2> QED BY <1>1, <2>3, <2>4, <2>5 DEF OpenSession
<1>5. ASSUME NEW r \in Request, CorrectWrite(r)
      PROVE  sessions'[s] = sessions[s] \/ (Writing(r, "correct") /\ req[r].session = s)
  BY <1>1, <1>5 DEF CorrectWrite, TypeOK
<1>6. ASSUME UNCHANGED sessions PROVE sessions'[s] = sessions[s]
  BY <1>6
<1>7. ASSUME NEW r \in Request, Continue(r)
      PROVE  \/ UNCHANGED sessions
             \/ StartShiftWrite(r) \/ EndShiftWrite(r) \/ AutoCloseWrite(r)
             \/ ChangePositionWrite(r) \/ BeginDrivingWrite(r) \/ CorrectWrite(r)
  BY <1>7 DEF Continue, EndShiftRead, StartBreakRead, StartBreakWrite, EndBreakRead,
              EndBreakWrite, PlanAssignment, PlanPositionChange, EndTripWrite, ReleaseVehicle,
              AutoCloseRead, Remember, tables
<1>8. ASSUME NEW r \in Request, Continue(r)
      PROVE  sessions'[s] = sessions[s] \/ (Writing(r, "correct") /\ req[r].session = s)
  BY <1>2, <1>3, <1>4, <1>5, <1>6, <1>7, <1>8
<1>9. CASE ~(\E r \in Request : Continue(r))
  <2>1. ASSUME NEW r, WorkerRequest(r) PROVE UNCHANGED sessions
    BY <2>1 DEF WorkerRequest, StartShiftRead, RequireOpenShift, Remember, tables
  <2>2. ASSUME NEW r, Supervision(r) PROVE UNCHANGED sessions
    BY <2>2 DEF Supervision, ListOverrunning, CorrectRead, Remember, tables
  <2>3. ASSUME NEW r, Abort(r) PROVE UNCHANGED sessions
    BY <2>3 DEF Abort, Remember, tables
  <2>4. ASSUME NEW r, PortalRequest(r) PROVE UNCHANGED sessions
    BY <2>4 DEF PortalRequest, EndTripRead, Remember, tables
  <2>5. ASSUME Tick \/ UNCHANGED vars PROVE UNCHANGED sessions
    BY <2>5 DEF Tick, tables, vars
  <2> QED BY <1>9, <2>1, <2>2, <2>3, <2>4, <2>5 DEF Next
<1> QED BY <1>8, <1>9

(* An ended session is never ended again or moved, but by a supervisor's       *)
(* correction, whatever the requests that read it while it was open go on to do. *)
THEOREM EndedSessionsFrozen == Spec => EndedSessionFrozen
<1>1. IInv /\ [Next]_vars =>
        [\A s \in SessionId :
           sessions[s].end # Null /\ sessions'[s] # sessions[s] =>
             \E r \in Request : Writing(r, "correct") /\ req[r].session = s]_vars
  BY FrozenStep
<1> QED BY <1>1, Inductive, PTL DEF Spec, EndedSessionFrozen
---------------------------------------------------------------------------
(* The handoff and its undoing, where neither the sweep nor corrections run.    *)
(* What a request planned for a trip stays right for as long as the session it  *)
(* read stays open: a trip running on it is one the request is going to end,    *)
(* and no trip begins on a session but with it.  beginDriving plans no end of a *)
(* trip, and relies on the index that keeps a driver to one open trip.           *)

Plans(q, sessionRows, tripRows) ==
  /\ q.cmd \notin {"autoClose", "correct"}
  /\ q.cmd = "beginDriving" /\ q.session # 0 => sessionRows[q.session].shift = q.shift
  /\ q.cmd \in {"endShift", "changePosition"} /\ q.session # 0 =>
       /\ q.trip # 0 => tripRows[q.session].status # "NONE"
       /\ sessionRows[q.session].end = Null /\ tripRows[q.session].status = "ACTIVE" =>
            q.trip # 0
  /\ q.cmd = "endTrip" => PortalTrips

PlansCurrent == \A r \in Request : Plans(req[r], sessions, trips)

(* Where drivers stay out of the driver portal, nothing but leaving the          *)
(* driving position ends a trip.                                             *)
TripsMatch ==
  \A s \in SessionId : trips[s].status # "NONE" =>
    /\ trips[s].status = "ACTIVE" => sessions[s].end = Null
    /\ ~PortalTrips /\ sessions[s].end = Null => trips[s].status = "ACTIVE"

TInv == IInv /\ TripsMatch /\ PlansCurrent

(* A session that is still open after a step has the trip it had before, which   *)
(* may have ended but has not begun.                                          *)
OpenKept ==
  \A s \in SessionId : sessions[s].shift # 0 =>
    /\ sessions'[s].shift = sessions[s].shift
    /\ trips[s].status # "NONE" => trips'[s].status # "NONE"
    /\ sessions'[s].end = Null =>
         /\ sessions[s].end = Null
         /\ trips'[s].status = "ACTIVE" => trips[s].status = "ACTIVE"

LEMMA PlansKept ==
  ASSUME IInv, OpenKept, PlansCurrent, NEW r \in Request, NEW q,
         req' = [req EXCEPT ![r] = q], Plans(q, sessions', trips')
  PROVE  PlansCurrent'
<1> SUFFICES ASSUME NEW o \in Request PROVE Plans(req'[o], sessions', trips')
  BY DEF PlansCurrent
<1>1. CASE o = r
  BY <1>1 DEF IInv, TypeOK
<1>2. CASE o # r
  <2>1. req'[o] = req[o] /\ req[o].session \in SessionId \cup {0}
    BY <1>2 DEF IInv, TypeOK, RequestState
  <2>2. Plans(req[o], sessions, trips)
    BY DEF PlansCurrent
  <2>3. req[o].session # 0 => sessions[req[o].session].shift # 0
    BY DEF IInv, RequestsRefer, RefersTo
  <2> QED BY <2>1, <2>2, <2>3 DEF Plans, OpenKept
<1> QED BY <1>1, <1>2

LEMMA IdlePlans == ASSUME NEW se, NEW tr PROVE Plans(Idle, se, tr)
BY DEF Plans, Idle

LEMMA ReadKeepsPlans ==
  ASSUME TInv, NEW r \in Request, NEW q, Remember(r, q), Plans(q, sessions, trips)
  PROVE  TripsMatch' /\ PlansCurrent'
<1>1. UNCHANGED <<sessions, trips>> /\ req' = [req EXCEPT ![r] = q]
  BY DEF Remember, tables
<1>2. OpenKept
  BY <1>1 DEF OpenKept
<1>3. PlansCurrent'
  BY <1>1, <1>2, PlansKept DEF TInv
<1>4. TripsMatch'
  BY <1>1 DEF TInv, TripsMatch
<1> QED BY <1>3, <1>4

LEMMA ReadsPlan ==
  ASSUME TInv, NEW r \in Request,
         \/ EndShiftRead(r) \/ StartBreakRead(r) \/ EndBreakRead(r)
         \/ PlanAssignment(r) \/ PlanPositionChange(r) \/ AutoCloseRead(r)
  PROVE  TripsMatch' /\ PlansCurrent'
<1> DEFINE q == req[r]
           s == FindFirst(OpenOn(sessions, q.shift))
           b == FindFirst(OpenOn(breaks, q.shift))
<1>1. q \in RequestState /\ Plans(q, sessions, trips) /\ RefersTo(q, shifts, sessions)
  BY DEF TInv, IInv, TypeOK, PlansCurrent, RequestsRefer
<1>2. s # 0 => sessions[s].shift = q.shift /\ sessions[s].end = Null
  BY FindFirstInIds DEF OpenOn
<1>3. s \in SessionId \cup {0}
  BY OpenRowTyped DEF TInv, IInv
<1> HIDE DEF s, b, q
<1>4. ASSUME EndShiftRead(r) PROVE TripsMatch' /\ PlansCurrent'
  <2> DEFINE n == [q EXCEPT !.phase = "write", !.session = s, !.trip = RunningTrip(s), !.brk = b]
  <2>1. Remember(r, n) /\ q.cmd = "endShift"
    BY <1>4 DEF EndShiftRead, q, s, b
  <2>2. n.cmd = "endShift" /\ n.session = s /\ n.trip = RunningTrip(s)
    BY <1>1, <2>1 DEF RequestState
  <2> HIDE DEF n
  <2>3. Plans(n, sessions, trips)
    BY <2>2 DEF Plans, RunningTrip
  <2> QED BY <2>1, <2>3, ReadKeepsPlans
<1>5. ASSUME StartBreakRead(r) PROVE TripsMatch' /\ PlansCurrent'
  <2> DEFINE n == [q EXCEPT !.phase = "write"]
  <2>1. Remember(r, n) /\ q.cmd = "startBreak"
    BY <1>5 DEF StartBreakRead, q
  <2>2. Plans(n, sessions, trips)
    BY <1>1, <2>1 DEF Plans, RequestState
  <2> QED BY <2>1, <2>2, ReadKeepsPlans
<1>6. ASSUME EndBreakRead(r) PROVE TripsMatch' /\ PlansCurrent'
  <2>1. PICK c \in BreakId : Remember(r, [q EXCEPT !.phase = "write", !.brk = c])
    BY <1>6 DEF EndBreakRead, OpenOn, TInv, IInv, TypeOK, q
  <2>2. q.cmd = "endBreak"
    BY <1>6 DEF EndBreakRead, q
  <2>3. Plans([q EXCEPT !.phase = "write", !.brk = c], sessions, trips)
    BY <1>1, <2>2 DEF Plans, RequestState
  <2> QED BY <2>1, <2>3, ReadKeepsPlans
<1>7. ASSUME PlanAssignment(r) PROVE TripsMatch' /\ PlansCurrent'
  <2>1. PICK d \in {"REUSE", "CREATE"} : Remember(r, [q EXCEPT !.phase = "planned", !.plan = d])
    BY <1>7 DEF PlanAssignment, q
  <2>2. q.cmd = "beginDriving"
    BY <1>7 DEF PlanAssignment, q
  <2>3. Plans([q EXCEPT !.phase = "planned", !.plan = d], sessions, trips)
    BY <1>1, <2>2 DEF Plans, RequestState
  <2> QED BY <2>1, <2>3, ReadKeepsPlans
<1>8. ASSUME PlanPositionChange(r) PROVE TripsMatch' /\ PlansCurrent'
  <2> DEFINE t == IF q.cmd = "changePosition" THEN RunningTrip(s) ELSE 0
             n == [q EXCEPT !.phase = "write", !.session = s, !.trip = t]
  <2>1. Remember(r, n) /\ q.cmd \in {"changePosition", "beginDriving"}
    BY <1>8 DEF PlanPositionChange, q, s
  <2>2. n.cmd = q.cmd /\ n.session = s /\ n.trip = t /\ n.shift = q.shift
    BY <1>1 DEF RequestState
  <2> HIDE DEF n
  <2>3. Plans(n, sessions, trips)
    BY <1>2, <2>1, <2>2 DEF Plans, RunningTrip
  <2> QED BY <2>1, <2>3, ReadKeepsPlans
<1>9. ASSUME AutoCloseRead(r) PROVE FALSE
  BY <1>1, <1>9 DEF AutoCloseRead, Plans, q
<1> QED BY <1>4, <1>5, <1>6, <1>7, <1>8, <1>9

LEMMA StartsPlan ==
  ASSUME TInv, NEW r \in Request
  PROVE  /\ \A w \in Worker, at \in Time, p \in Position \cup {Nowhere} :
              StartShiftRead(r, w, at, p) => TripsMatch' /\ PlansCurrent'
         /\ \A cmd \in Command \ {"correct", "autoClose", "endTrip"}, w \in Worker, at \in Time,
              p \in Position \cup {Nowhere}, v \in Vehicle \cup {NoVehicle} :
              RequireOpenShift(r, cmd, w, at, p, v) => TripsMatch' /\ PlansCurrent'
<1>1. ASSUME NEW w \in Worker, NEW at \in Time, NEW p \in Position \cup {Nowhere},
             StartShiftRead(r, w, at, p)
      PROVE  TripsMatch' /\ PlansCurrent'
  <2> DEFINE q == [Idle EXCEPT !.cmd = "startShift", !.phase = "write", !.worker = w,
                               !.at = at, !.position = p]
  <2>1. Plans(q, sessions, trips)
    BY DEF Plans, Idle
  <2>2. Remember(r, q)
    BY <1>1 DEF StartShiftRead
  <2> QED BY <2>1, <2>2, ReadKeepsPlans
<1>2. ASSUME NEW cmd \in Command \ {"correct", "autoClose", "endTrip"}, NEW w \in Worker, NEW at \in Time,
             NEW p \in Position \cup {Nowhere}, NEW v \in Vehicle \cup {NoVehicle},
             RequireOpenShift(r, cmd, w, at, p, v)
      PROVE  TripsMatch' /\ PlansCurrent'
  <2>1. PICK i \in OpenShiftsOf(shifts, w) :
          Remember(r, [Idle EXCEPT !.cmd = cmd, !.phase = "shiftRead", !.worker = w,
                                   !.at = at, !.position = p, !.vehicle = v, !.shift = i])
    BY <1>2 DEF RequireOpenShift
  <2> DEFINE q == [Idle EXCEPT !.cmd = cmd, !.phase = "shiftRead", !.worker = w,
                               !.at = at, !.position = p, !.vehicle = v, !.shift = i]
  <2>2. Plans(q, sessions, trips)
    BY DEF Plans, Idle
  <2> QED BY <2>1, <2>2, ReadKeepsPlans
<1> QED BY <1>1, <1>2

LEMMA StartShiftPlans ==
  ASSUME TInv, NEW r \in Request, StartShiftWrite(r)
  PROVE  TripsMatch' /\ PlansCurrent'
<1>1. TypeOK /\ RowsRefer
  BY DEF TInv, IInv
<1>2. UNCHANGED trips /\ req' = [req EXCEPT ![r] = Idle]
  BY DEF StartShiftWrite, Finish
<1>3. \A s \in SessionId : sessions[s].shift # 0 => sessions'[s] = sessions[s]
  BY <1>1, NewIdsTyped DEF StartShiftWrite, OpenSession, TypeOK
<1>4. OpenKept
  BY <1>2, <1>3 DEF OpenKept
<1>5. PlansCurrent'
  BY <1>2, <1>4, IdlePlans, PlansKept DEF TInv
<1>6. TripsMatch'
  BY <1>1, <1>2, <1>3 DEF TInv, TripsMatch, RowsRefer
<1> QED BY <1>5, <1>6

LEMMA BreakWritesPlan ==
  ASSUME TInv, NEW r \in Request, StartBreakWrite(r) \/ EndBreakWrite(r)
  PROVE  TripsMatch' /\ PlansCurrent'
<1>1. UNCHANGED <<sessions, trips>> /\ req' = [req EXCEPT ![r] = Idle]
  BY DEF StartBreakWrite, EndBreakWrite, Finish
<1>2. OpenKept
  BY <1>1 DEF OpenKept
<1>3. PlansCurrent'
  BY <1>1, <1>2, IdlePlans, PlansKept DEF TInv
<1>4. TripsMatch'
  BY <1>1 DEF TInv, TripsMatch
<1> QED BY <1>3, <1>4

(* The two commands that end a trip end it exactly when they end its session.   *)
LEMMA EndsTogether ==
  ASSUME TInv, NEW r \in Request, EndShiftWrite(r) \/ ChangePositionWrite(r)
  PROVE  LET q == req[r] IN
         /\ q.trip # 0 /\ ~PortalTrips => trips[q.trip].status = "ACTIVE"
         /\ \A s \in SessionId :
              /\ s # q.session => trips'[s].status = trips[s].status
              /\ s = q.session /\ trips[s].status # "NONE" => trips'[s].status = "COMPLETED"
              /\ trips[s].status = "NONE" => trips'[s].status = "NONE"
<1> DEFINE q == req[r]
<1>1. /\ q \in RequestState /\ q.session \in SessionId \cup {0} /\ q.trip \in {0, q.session}
      /\ q.at \in Time /\ TypeOK
  BY DEF TInv, IInv, TypeOK, RequestState, RequestsRefer, RefersTo
<1>2. EndDriving(q) /\ q.cmd \in {"endShift", "changePosition"}
  BY DEF EndShiftWrite, ChangePositionWrite, Writing
<1>3. q.session # 0 => sessions[q.session].end = Null
  BY DEF EndShiftWrite, ChangePositionWrite, MoveTo, MayCloseSession
<1>4. q.session # 0 => /\ q.trip # 0 => trips[q.session].status # "NONE"
                       /\ trips[q.session].status = "ACTIVE" => q.trip # 0
  BY <1>2, <1>3 DEF TInv, PlansCurrent, Plans
<1>5. q.session # 0 /\ trips[q.session].status # "NONE" /\ ~PortalTrips =>
        trips[q.session].status = "ACTIVE"
  BY <1>1, <1>3 DEF TInv, TripsMatch
<1>6. q.trip # 0 => /\ trips' = CloseTrip(trips, q.trip, q.at)
                   /\ q.trip \in SessionId
  BY <1>1, <1>2 DEF EndDriving
<1>7. q.trip = 0 => trips' = trips
  BY <1>2 DEF EndDriving
<1> HIDE DEF q
<1>8. q.trip # 0 => /\ trips'[q.trip].status = "COMPLETED"
                   /\ \A s \in SessionId \ {q.trip} : trips'[s] = trips[s]
  BY <1>1, <1>6, ClosedRows
<1>9. \A s \in SessionId :
        /\ s # q.session => trips'[s].status = trips[s].status
        /\ s = q.session /\ trips[s].status # "NONE" => trips'[s].status = "COMPLETED"
        /\ trips[s].status = "NONE" => trips'[s].status = "NONE"
  <2>1. \A s \in SessionId : trips[s].status \in {"NONE", "ACTIVE", "COMPLETED"}
    BY <1>1 DEF TypeOK, TripRow
  <2>2. CASE q.trip = 0
    BY <1>1, <1>4, <1>7, <2>1, <2>2, SessionIdPositive
  <2>3. CASE q.trip # 0
    <3>1. q.trip = q.session /\ q.session # 0 /\ trips[q.session].status # "NONE"
      BY <1>1, <1>4, <2>3
    <3> QED BY <1>8, <2>3, <3>1
  <2> QED BY <2>2, <2>3
<1>10. q.trip # 0 /\ ~PortalTrips => trips[q.trip].status = "ACTIVE"
  <2> SUFFICES ASSUME q.trip # 0, ~PortalTrips PROVE trips[q.trip].status = "ACTIVE"
    OBVIOUS
  <2>1. q.trip = q.session /\ q.session # 0 /\ trips[q.session].status # "NONE"
    BY <1>1, <1>4
  <2> QED BY <1>5, <2>1
<1> QED BY <1>9, <1>10 DEF q

LEMMA EndShiftPlans ==
  ASSUME TInv, NEW r \in Request, EndShiftWrite(r)
  PROVE  TripsMatch' /\ PlansCurrent'
<1> DEFINE q == req[r]
<1>1. TypeOK /\ q.at \in Time /\ q.session \in SessionId \cup {0}
  BY DEF TInv, IInv, TypeOK, RequestState
<1>2. /\ sessions' = CloseSession(sessions, q.session, q.at)
      /\ req' = [req EXCEPT ![r] = Idle]
  BY DEF EndShiftWrite, Finish
<1>3. \A s \in SessionId :
        /\ s # q.session => trips'[s].status = trips[s].status
        /\ s = q.session /\ trips[s].status # "NONE" => trips'[s].status = "COMPLETED"
        /\ trips[s].status = "NONE" => trips'[s].status = "NONE"
  BY EndsTogether
<1> HIDE DEF q
<1>4. \A s \in SessionId :
        /\ sessions'[s].shift = sessions[s].shift
        /\ sessions'[s].end = Null <=> (sessions[s].end = Null /\ s # q.session)
  BY <1>1, <1>2, ClosedRows
<1>5. OpenKept
  BY <1>3, <1>4 DEF OpenKept
<1>6. PlansCurrent'
  BY <1>2, <1>5, IdlePlans, PlansKept DEF TInv
<1>7. TripsMatch'
  BY <1>3, <1>4 DEF TInv, TripsMatch
<1> QED BY <1>6, <1>7

LEMMA MovesPlan ==
  ASSUME TInv, NEW r \in Request, ChangePositionWrite(r) \/ BeginDrivingWrite(r)
  PROVE  TripsMatch' /\ PlansCurrent'
<1> DEFINE q == req[r]
<1>1. /\ TypeOK /\ RowsRefer /\ q \in RequestState /\ q.session \in SessionId \cup {0}
      /\ (q.session # 0 => sessions[q.session].shift # 0)
  BY DEF TInv, IInv, TypeOK, RequestState, RequestsRefer, RefersTo
<1>2. req' = [req EXCEPT ![r] = Idle]
  BY DEF ChangePositionWrite, BeginDrivingWrite, Finish
<1>3. PICK s \in NewRowIds(sessions) :
        /\ MoveTo(q, s)
        /\ BeginDrivingWrite(r) =>
             /\ TripIndexAllows(shifts, sessions, trips, q.worker, q.vehicle)
             /\ trips' = [trips EXCEPT ![s] = [status |-> "ACTIVE", vehicle |-> q.vehicle,
                                               start |-> q.at, end |-> Null]]
  <2>1. CASE BeginDrivingWrite(r)
    BY <2>1 DEF BeginDrivingWrite
  <2>2. CASE ~BeginDrivingWrite(r)
    BY <2>2 DEF ChangePositionWrite
  <2> QED BY <2>1, <2>2
<1>4. /\ s \in SessionId /\ s # q.session /\ sessions[s].shift = 0
      /\ sessions'[s].shift = q.shift /\ sessions'[s].end = Null
      /\ \A t \in SessionId \ {s} :
           /\ sessions'[t].shift = sessions[t].shift
           /\ sessions'[t].end = Null <=> (sessions[t].end = Null /\ t # q.session)
  BY <1>1, <1>3, MovedRows
<1>5. trips[s].status = "NONE"
  BY <1>1, <1>4 DEF RowsRefer
<1>6. /\ \A t \in SessionId \ {s} :
           /\ t # q.session => trips'[t].status = trips[t].status
           /\ t = q.session /\ trips[t].status # "NONE" => trips'[t].status = "COMPLETED"
           /\ trips[t].status = "NONE" => trips'[t].status = "NONE"
      /\ trips'[s].status \in {"NONE", "ACTIVE"}
  <2>1. CASE ChangePositionWrite(r)
    BY <1>4, <1>5, <2>1, EndsTogether
  <2>2. CASE BeginDrivingWrite(r)
    <3>1. /\ trips'[s].status = "ACTIVE"
          /\ \A t \in SessionId \ {s} : trips'[t] = trips[t]
      BY <1>1, <1>3, <1>4, <2>2 DEF TypeOK
    <3>2. q.session # 0 => trips[q.session].status # "ACTIVE"
      <4> SUFFICES ASSUME q.session # 0 PROVE trips[q.session].status # "ACTIVE"
        OBVIOUS
      <4>1. sessions[q.session].shift = q.shift /\ q.shift # 0 /\ shifts[q.shift].worker = q.worker
        BY <2>2 DEF BeginDrivingWrite, Writing, OnShift, TInv, PlansCurrent, Plans, IInv,
                    RequestsRefer, RefersTo
      <4>2. SessionWorker(shifts, sessions, q.session) = q.worker
        BY <4>1 DEF SessionWorker
      <4> QED BY <1>1, <1>3, <2>2, <4>2 DEF TripIndexAllows, ActiveTripsOf, TypeOK
    <3>3. q.session # 0 => trips[q.session].status \in {"NONE", "COMPLETED"}
      BY <1>1, <3>2 DEF TypeOK, TripRow
    <3> QED BY <3>1, <3>3, SessionIdPositive
  <2> QED BY <2>1, <2>2
<1> HIDE DEF q
<1>7. OpenKept
  BY <1>4, <1>6 DEF OpenKept
<1>8. PlansCurrent'
  BY <1>2, <1>7, IdlePlans, PlansKept DEF TInv
<1>9. TripsMatch'
  BY <1>4, <1>6 DEF TInv, TripsMatch
<1> QED BY <1>8, <1>9

LEMMA PortalPlans ==
  ASSUME TInv, NEW r \in Request
  PROVE  /\ \A s \in SessionId, at \in Time :
              EndTripRead(r, s, at) => TripsMatch' /\ PlansCurrent'
         /\ EndTripWrite(r) \/ ReleaseVehicle(r) => TripsMatch' /\ PlansCurrent'
<1> DEFINE q == req[r]
           n == [q EXCEPT !.phase = "release", !.trip = 0]
<1>1. /\ TypeOK /\ q \in RequestState /\ q.at \in Time /\ q.trip \in SessionId \cup {0}
      /\ q.cmd = "endTrip" => PortalTrips
  BY DEF TInv, IInv, TypeOK, RequestState, PlansCurrent, Plans
<1>2. ASSUME NEW s \in SessionId, NEW at \in Time, EndTripRead(r, s, at)
      PROVE  TripsMatch' /\ PlansCurrent'
  <2> DEFINE m == [Idle EXCEPT !.cmd = "endTrip", !.phase = "write", !.at = at,
                               !.worker = SessionWorker(shifts, sessions, s),
                               !.vehicle = trips[s].vehicle, !.session = s, !.trip = s]
  <2>1. PortalTrips /\ Remember(r, m)
    BY <1>2 DEF EndTripRead
  <2>2. Plans(m, sessions, trips)
    BY <2>1 DEF Plans, Idle
  <2> QED BY <2>1, <2>2, ReadKeepsPlans
<1>3. ASSUME EndTripWrite(r) PROVE TripsMatch' /\ PlansCurrent'
  <2>1. /\ trips' = CloseTrip(trips, q.trip, q.at) /\ UNCHANGED sessions
        /\ req' = [req EXCEPT ![r] = n] /\ PortalTrips /\ q.cmd = "endTrip"
    BY <1>1, <1>3 DEF EndTripWrite, Writing
  <2>2. Plans(n, sessions', trips')
    BY <1>1, <2>1 DEF Plans, RequestState
  <2> HIDE DEF n, q
  <2>3. \A s \in SessionId : trips'[s] = trips[s] \/ trips'[s].status = "COMPLETED"
    <3>1. CASE q.trip = 0
      BY <1>1, <2>1, <3>1, SessionIdPositive DEF CloseTrip, TypeOK
    <3>2. CASE q.trip # 0
      BY <1>1, <2>1, <3>2, ClosedRows
    <3> QED BY <3>1, <3>2
  <2>4. OpenKept
    BY <2>1, <2>3 DEF OpenKept
  <2>5. PlansCurrent'
    BY <2>1, <2>2, <2>4, PlansKept DEF TInv
  <2>6. TripsMatch'
    BY <2>1, <2>3 DEF TInv, TripsMatch
  <2> QED BY <2>5, <2>6
<1>4. ASSUME ReleaseVehicle(r) PROVE TripsMatch' /\ PlansCurrent'
  <2>1. UNCHANGED <<sessions, trips>> /\ req' = [req EXCEPT ![r] = Idle]
    BY <1>4 DEF ReleaseVehicle, Finish
  <2>2. OpenKept
    BY <2>1 DEF OpenKept
  <2>3. PlansCurrent'
    BY <2>1, <2>2, IdlePlans, PlansKept DEF TInv
  <2>4. TripsMatch'
    BY <2>1 DEF TInv, TripsMatch
  <2> QED BY <2>3, <2>4
<1> QED BY <1>2, <1>3, <1>4

LEMMA PlanStep ==
  ASSUME ~Sweeping, ~Correcting, TInv, [Next]_vars
  PROVE  TInv'
<1>1. IInv'
  BY InvStep DEF TInv
<1>2. ASSUME UNCHANGED <<tables, req>> PROVE TripsMatch' /\ PlansCurrent'
  BY <1>2 DEF tables, TInv, TripsMatch, PlansCurrent
<1>3. CASE Tick
  BY <1>1, <1>2, <1>3 DEF Tick, TInv
<1>4. ASSUME NEW r \in Device, WorkerRequest(r) PROVE TripsMatch' /\ PlansCurrent'
  <2>1. r \in Request
    BY DEF Request
  <2>2. PICK w \in Worker, at \in OccurredAt :
          \/ \E p \in Position \cup {Nowhere} : StartShiftRead(r, w, at, p)
          \/ \E cmd \in {"endShift", "startBreak", "endBreak"} :
               RequireOpenShift(r, cmd, w, at, Nowhere, NoVehicle)
          \/ \E p \in Position : RequireOpenShift(r, "changePosition", w, at, p, NoVehicle)
          \/ \E p \in Position, v \in Vehicle : RequireOpenShift(r, "beginDriving", w, at, p, v)
    BY <1>4 DEF WorkerRequest
  <2>3. at \in Time
    BY ReconciledInTime DEF TInv, IInv, TypeOK
  <2> QED BY <2>1, <2>2, <2>3, StartsPlan DEF Command
<1>5. ASSUME NEW r \in Office, Supervision(r) PROVE FALSE
  BY <1>5 DEF Supervision, ListOverrunning, CorrectRead
<1>6. ASSUME NEW r \in Request, Abort(r) PROVE TripsMatch' /\ PlansCurrent'
  BY <1>6, IdlePlans, ReadKeepsPlans DEF Abort
<1>7. ASSUME NEW r \in Request, AutoCloseWrite(r) \/ CorrectWrite(r) PROVE FALSE
  BY <1>7 DEF AutoCloseWrite, CorrectWrite, Writing, TInv, PlansCurrent, Plans
<1>8. ASSUME NEW r \in Request, Continue(r) PROVE TripsMatch' /\ PlansCurrent'
  BY <1>7, <1>8, ReadsPlan, StartShiftPlans, BreakWritesPlan, EndShiftPlans, MovesPlan,
     PortalPlans DEF Continue
<1>9. ASSUME NEW r \in Device, PortalRequest(r) PROVE TripsMatch' /\ PlansCurrent'
  BY <1>9, PortalPlans DEF PortalRequest, Request
<1>10. CASE UNCHANGED vars
  BY <1>1, <1>2, <1>10 DEF vars, tables, TInv
<1> QED BY <1>1, <1>3, <1>4, <1>5, <1>6, <1>8, <1>9, <1>10 DEF Next, TInv

LEMMA PlanInit == Init => TInv
<1> SUFFICES ASSUME Init PROVE TInv
  OBVIOUS
<1>1. IInv
  BY InvInit
<1>2. TripsMatch
  BY DEF Init, TripsMatch, NoTrip
<1>3. PlansCurrent
  BY IdlePlans DEF Init, PlansCurrent
<1> QED BY <1>1, <1>2, <1>3 DEF TInv

(* A trip still runs only while the position session it was opened with is open:  *)
(* whoever leaves the driving position or ends his shift ends the trip with it.  *)
THEOREM TripsFollowSessions ==
  ASSUME ~Sweeping, ~Correcting
  PROVE  Spec => []TripRunsWithItsSession
<1>1. TInv /\ [Next]_vars => TInv'
  BY PlanStep
<1>2. TInv => TripRunsWithItsSession
  BY DEF TInv, TripsMatch, TripRunsWithItsSession
<1> QED BY <1>1, <1>2, PlanInit, PTL DEF Spec

LEMMA EndedTripStep ==
  ASSUME ~Sweeping, ~Correcting, ~PortalTrips, TInv, [Next]_vars,
         NEW s \in SessionId, trips[s].status = "COMPLETED"
  PROVE  trips'[s] = trips[s]
<1>1. TypeOK
  BY DEF TInv, IInv
<1>2. ASSUME NEW r \in Request, EndShiftWrite(r) \/ ChangePositionWrite(r)
      PROVE  trips'[s] = trips[s]
  <2>1. EndDriving(req[r]) /\ (req[r].trip # 0 => trips[req[r].trip].status = "ACTIVE")
    BY <1>2, EndsTogether DEF EndShiftWrite, ChangePositionWrite
  <2> DEFINE q == req[r]
  <2>2. /\ q.trip \in SessionId \cup {0} /\ q.at \in Time
        /\ q.trip # 0 => trips' = CloseTrip(trips, q.trip, q.at)
        /\ q.trip = 0 => trips' = trips
    BY <1>1, <2>1 DEF TypeOK, RequestState, EndDriving
  <2>3. q.trip # s
    BY <2>1, SessionIdPositive
  <2> HIDE DEF q
  <2> QED BY <1>1, <2>2, <2>3, ClosedRows
<1>3. ASSUME NEW r \in Request, BeginDrivingWrite(r) PROVE trips'[s] = trips[s]
  <2>1. \A t \in NewRowIds(sessions) : t \in SessionId /\ t # s
    BY <1>1, NewIdsTyped DEF TInv, IInv, RowsRefer
  <2> QED BY <1>1, <1>3, <2>1 DEF BeginDrivingWrite, TypeOK
<1>4. ASSUME NEW r \in Request, EndTripWrite(r) PROVE FALSE
  BY <1>4 DEF EndTripWrite, Writing, TInv, PlansCurrent, Plans
<1>5. ASSUME NEW r \in Request, Continue(r) PROVE trips'[s] = trips[s]
  <2>1. \/ UNCHANGED trips
        \/ EndShiftWrite(r) \/ ChangePositionWrite(r) \/ BeginDrivingWrite(r) \/ EndTripWrite(r)
    BY <1>5 DEF Continue, StartShiftWrite, EndShiftRead, StartBreakRead, StartBreakWrite,
                EndBreakRead, EndBreakWrite, PlanAssignment, PlanPositionChange,
                ReleaseVehicle, AutoCloseRead, AutoCloseWrite, CorrectWrite, Remember, tables
  <2> QED BY <1>2, <1>3, <1>4, <2>1
<1>6. CASE ~(\E r \in Request : Continue(r))
  <2>1. ASSUME NEW r, WorkerRequest(r) \/ PortalRequest(r) PROVE UNCHANGED trips
    BY <2>1 DEF WorkerRequest, PortalRequest, StartShiftRead, RequireOpenShift, EndTripRead,
                Remember, tables
  <2>2. ASSUME NEW r, Supervision(r) \/ Abort(r) PROVE UNCHANGED trips
    BY <2>2 DEF Supervision, ListOverrunning, CorrectRead, Abort, Remember, tables
  <2>3. ASSUME Tick \/ UNCHANGED vars PROVE UNCHANGED trips
    BY <2>3 DEF Tick, tables, vars
  <2> QED BY <1>6, <2>1, <2>2, <2>3 DEF Next
<1> QED BY <1>5, <1>6

(* Were it not for the driver portal, no trip would be ended twice, although     *)
(* closeTrip does not look at its status: the compare-and-set on the session,    *)
(* in the same transaction, decides for both.                                  *)
THEOREM TripsEndOnce ==
  ASSUME ~Sweeping, ~Correcting, ~PortalTrips
  PROVE  Spec => EndedTripFrozen
<1>1. TInv /\ [Next]_vars => TInv'
  BY PlanStep
<1>2. TInv /\ [Next]_vars =>
        [\A s \in SessionId : trips[s].status = "COMPLETED" => trips'[s] = trips[s]]_vars
  BY EndedTripStep
<1> QED BY <1>1, <1>2, PlanInit, PTL DEF Spec, EndedTripFrozen
---------------------------------------------------------------------------
(* One request per worker.  The commands promise more of a worker who has one   *)
(* request in flight at a time, whatever all others do: the worker page and the  *)
(* driver page disable their buttons until the answer is there (the sweep, when   *)
(* it closes a shift of his, counts as a request of his).  What such a request    *)
(* has read is still true when it writes, because every row it is about is its   *)
(* own worker's, and no other request writes those.                            *)

OneAtATime ==
  \A r, o \in Request : r # o /\ req[r].worker # Nobody => req[o].worker # req[r].worker

Disjoint(a, b) == ~ (EndsAfter(a.end, b.start) /\ EndsAfter(b.end, a.start))

(* An open shift that has sessions has one open: the latest of them.           *)
ShiftSettled(i) ==
  /\ shifts[i].status # "NONE" => shifts[i].worker # Nobody
  /\ shifts[i].status = "ON_BREAK" <=> OpenOn(breaks, i) # {}
  /\ ~ IsOpen(shifts[i]) => OpenOn(sessions, i) = {}
  /\ IsOpen(shifts[i]) /\ OpenOn(sessions, i) = {} => \A s \in SessionId : sessions[s].shift # i
  /\ \A s, t \in SessionId :
       s # t /\ sessions[s].shift = i /\ sessions[t].shift = i =>
         Disjoint(sessions[s], sessions[t])

(* What a request has read of the shift it is about is still so.                *)
ReadsCurrent(q) ==
  /\ q.cmd # "correct"
  /\ q.cmd \in OnShift \cup {"startShift"} => q.worker # Nobody
  /\ q.cmd \in OnShift =>
       /\ IsOpen(shifts[q.shift])
       /\ q.cmd # "autoClose" => StatusAllows(q.cmd, shifts[q.shift].status)
       /\ q.session # 0 => sessions[q.session].shift = q.shift
       /\ q.brk # 0 => breaks[q.brk].shift = q.shift
  /\ q.cmd \in {"endShift", "autoClose"} /\ q.phase = "write" =>
       OpenOn(sessions, q.shift) \subseteq {q.session}
  /\ q.cmd \in {"endShift", "autoClose", "endBreak"} /\ q.phase = "write" =>
       OpenOn(breaks, q.shift) \subseteq {q.brk}

SettledInv ==
  /\ \A i \in ShiftId : ShiftSettled(i)
  /\ \A r \in Request : ReadsCurrent(req[r])

(* What a request has read of its worker's vehicle and trip is still so.       *)
DriveCurrent(q) ==
  /\ q.cmd \in OnShift \cup {"startShift", "endTrip"} => q.worker # Nobody
  /\ q.cmd = "beginDriving" => /\ q.vehicle \in Vehicle
                               /\ q.plan = "REUSE" => held[q.vehicle].driver = q.worker
  /\ q.trip # 0 => q.trip \in ActiveTripsOf(shifts, sessions, trips, q.worker)
  /\ q.cmd = "endTrip" /\ q.phase = "write" => q.trip # 0
  /\ q.cmd = "endTrip" /\ q.phase = "release" =>
       ActiveTripsOf(shifts, sessions, trips, q.worker) = {}

ShiftsOwned == \A i \in ShiftId : shifts[i].status # "NONE" => shifts[i].worker # Nobody

DriveInv ==
  /\ ShiftsOwned
  /\ \A s \in SessionId : trips[s].status = "ACTIVE" => trips[s].vehicle \in Vehicle
  /\ DrivenVehicleHeld
  /\ \A r \in Request : DriveCurrent(req[r])

-----------------------------------------------------------------------------
LEMMA IdleReads == ReadsCurrent(Idle)
BY DEF ReadsCurrent, Idle, OnShift

(* A step about shift i: the rows of the others are as they were.               *)
OnlyShift(i) ==
  /\ \A j \in ShiftId \ {i} : shifts'[j] = shifts[j]
  /\ \A s \in SessionId : \/ sessions'[s] = sessions[s]
                          \/ sessions[s].shift \in {0, i} /\ sessions'[s].shift = i
  /\ \A b \in BreakId : \/ breaks'[b] = breaks[b]
                        \/ breaks[b].shift \in {0, i} /\ breaks'[b].shift = i

LEMMA OthersRows ==
  ASSUME TypeOK, TypeOK', NEW i \in ShiftId, OnlyShift(i), NEW j \in ShiftId \ {i}
  PROVE  /\ shifts'[j] = shifts[j]
         /\ OpenOn(sessions, j)' = OpenOn(sessions, j)
         /\ OpenOn(breaks, j)' = OpenOn(breaks, j)
         /\ \A s \in SessionId : sessions[s].shift = j \/ sessions'[s].shift = j =>
              sessions'[s] = sessions[s]
         /\ \A b \in BreakId : breaks[b].shift = j => breaks'[b] = breaks[b]
<1>1. DOMAIN sessions = SessionId /\ DOMAIN sessions' = SessionId
      /\ DOMAIN breaks = BreakId /\ DOMAIN breaks' = BreakId
  BY DEF TypeOK
<1>2. j # 0
  BY DEF ShiftId
<1>3. \A s \in SessionId : sessions[s].shift = j \/ sessions'[s].shift = j =>
        sessions'[s] = sessions[s]
  BY <1>2 DEF OnlyShift
<1>4. \A b \in BreakId : breaks[b].shift = j \/ breaks'[b].shift = j => breaks'[b] = breaks[b]
  BY <1>2 DEF OnlyShift
<1>5. OpenOn(sessions, j)' = OpenOn(sessions, j)
  BY <1>1, <1>3 DEF OpenOn
<1>6. OpenOn(breaks, j)' = OpenOn(breaks, j)
  BY <1>1, <1>4 DEF OpenOn
<1> QED BY <1>3, <1>4, <1>5, <1>6 DEF OnlyShift

LEMMA OthersSettled ==
  ASSUME TypeOK, TypeOK', NEW i \in ShiftId, OnlyShift(i), NEW j \in ShiftId \ {i},
         ShiftSettled(j)
  PROVE  ShiftSettled(j)'
BY OthersRows DEF ShiftSettled

LEMMA OthersReads ==
  ASSUME TypeOK, TypeOK', NEW i \in ShiftId, OnlyShift(i),
         NEW q \in RequestState, ReadsCurrent(q), q.cmd \in OnShift => q.shift \in ShiftId \ {i}
  PROVE  ReadsCurrent(q)'
<1>1. CASE q.cmd \notin OnShift
  BY <1>1 DEF ReadsCurrent, OnShift
<1>2. CASE q.cmd \in OnShift
  <2>1. /\ shifts'[q.shift] = shifts[q.shift]
        /\ OpenOn(sessions, q.shift)' = OpenOn(sessions, q.shift)
        /\ OpenOn(breaks, q.shift)' = OpenOn(breaks, q.shift)
    BY <1>2, OthersRows
  <2>2. q.session # 0 => sessions'[q.session].shift = q.shift
    <3>1. q.session \in SessionId \cup {0}
      BY DEF RequestState
    <3> QED BY <1>2, <3>1, OthersRows DEF ReadsCurrent
  <2>3. q.brk # 0 => breaks'[q.brk].shift = q.shift
    <3>1. q.brk \in BreakId \cup {0}
      BY DEF RequestState
    <3> QED BY <1>2, <3>1, OthersRows DEF ReadsCurrent
  <2> QED BY <1>2, <2>1, <2>2, <2>3 DEF ReadsCurrent
<1> QED BY <1>1, <1>2

LEMMA OthersApart ==
  ASSUME IInv, SettledInv, OneAtATime, NEW r \in Request, NEW o \in Request \ {r},
         req[r].cmd \in OnShift, req[o].cmd \in OnShift
  PROVE  req[o].shift # req[r].shift
<1>1. req[r].worker # Nobody
  BY DEF SettledInv, ReadsCurrent
<1>2. shifts[req[r].shift].worker = req[r].worker /\ shifts[req[o].shift].worker = req[o].worker
  BY DEF IInv, RequestsRefer, RefersTo
<1> QED BY <1>1, <1>2 DEF OneAtATime

(* A write that settles the shift it is about leaves everything settled.        *)
LEMMA WriteSettles ==
  ASSUME IInv, TypeOK', SettledInv, NEW r \in Request, NEW i \in ShiftId,
         OnlyShift(i), ShiftSettled(i)', req' = [req EXCEPT ![r] = Idle],
         \A o \in Request \ {r} : req[o].cmd \in OnShift => req[o].shift # i
  PROVE  SettledInv'
<1>1. TypeOK
  BY DEF IInv
<1>2. \A j \in ShiftId : ShiftSettled(j)'
  BY <1>1, OthersSettled DEF SettledInv
<1>3. ASSUME NEW o \in Request
      PROVE  ReadsCurrent(req[o])'
  <2>1. CASE o = r
    <3>1. req'[o] = Idle
      BY <1>1, <2>1 DEF TypeOK
    <3> QED BY <3>1 DEF ReadsCurrent, Idle, OnShift
  <2>2. CASE o # r
    <3>1. PICK q \in RequestState : q = req[o]
      BY <1>1 DEF TypeOK
    <3>2. q.cmd \in OnShift => q.shift \in ShiftId \ {i}
      BY <2>2, <3>1 DEF IInv, RequestsRefer, RefersTo, RequestState
    <3>3. ReadsCurrent(q)'
      BY <1>1, <3>1, <3>2, OthersReads DEF SettledInv
    <3>4. req'[o] = q
      BY <1>1, <2>2, <3>1 DEF TypeOK
    <3> QED BY <3>3, <3>4 DEF ReadsCurrent
  <2> QED BY <2>1, <2>2
<1> QED BY <1>2, <1>3 DEF SettledInv

LEMMA UnwrittenSettled ==
  ASSUME IInv, SettledInv, NEW r \in Request, NEW q, ReadsCurrent(q),
         req' = [req EXCEPT ![r] = q], UNCHANGED <<shifts, breaks, sessions>>
  PROVE  SettledInv'
<1>1. TypeOK
  BY DEF IInv
<1>2. \A j \in ShiftId : ShiftSettled(j)'
  BY DEF SettledInv, ShiftSettled, OpenOn
<1>3. ASSUME NEW o \in Request
      PROVE  ReadsCurrent(req[o])'
  <2>1. PICK v : v = req'[o] /\ ReadsCurrent(v)
    BY <1>1 DEF TypeOK, SettledInv
  <2>2. ReadsCurrent(v)'
    BY <2>1 DEF ReadsCurrent, OpenOn
  <2> QED BY <2>1, <2>2 DEF ReadsCurrent
<1> QED BY <1>2, <1>3 DEF SettledInv

(* The reads find what is open, and the status a command may begin in.          *)
LEMMA StartsRead ==
  ASSUME IInv, SettledInv, NEW r \in Request
  PROVE  /\ \A w \in Worker, at \in Time, p \in Position \cup {Nowhere} : StartShiftRead(r, w, at, p) => SettledInv'
         /\ \A cmd \in {"endShift", "startBreak", "endBreak", "changePosition", "beginDriving"},
              w \in Worker, at \in Time, p \in Position \cup {Nowhere},
              v \in Vehicle \cup {NoVehicle} : RequireOpenShift(r, cmd, w, at, p, v) => SettledInv'
         /\ \A i \in ShiftId : ListOverrunning(r, i) => SettledInv'
         /\ \A s \in SessionId, at \in Time : EndTripRead(r, s, at) => SettledInv'
<1>1. ASSUME NEW w \in Worker, NEW at, NEW p, StartShiftRead(r, w, at, p)
      PROVE  SettledInv'
  <2>1. PICK q : q = [Idle EXCEPT !.cmd = "startShift", !.phase = "write", !.worker = w,
                                  !.at = at, !.position = p]
    OBVIOUS
  <2>2. ReadsCurrent(q)
    BY <2>1, SentinelAssumption DEF ReadsCurrent, Idle, OnShift
  <2> QED BY <1>1, <2>1, <2>2, UnwrittenSettled DEF StartShiftRead, Remember, tables
<1>2. ASSUME NEW cmd \in {"endShift", "startBreak", "endBreak", "changePosition", "beginDriving"},
             NEW w \in Worker, NEW at, NEW p, NEW v, RequireOpenShift(r, cmd, w, at, p, v)
      PROVE  SettledInv'
  <2>1. PICK i \in OpenShiftsOf(shifts, w) :
          /\ StatusAllows(cmd, shifts[i].status)
          /\ Remember(r, [Idle EXCEPT !.cmd = cmd, !.phase = "shiftRead", !.worker = w,
                                      !.at = at, !.position = p, !.vehicle = v, !.shift = i])
    BY <1>2 DEF RequireOpenShift
  <2>2. PICK q : q = [Idle EXCEPT !.cmd = cmd, !.phase = "shiftRead", !.worker = w,
                                  !.at = at, !.position = p, !.vehicle = v, !.shift = i]
    OBVIOUS
  <2>3. /\ q.cmd = cmd /\ q.worker = w /\ q.shift = i /\ q.phase = "shiftRead"
        /\ q.session = 0 /\ q.brk = 0
    BY <2>2 DEF Idle
  <2>4. IsOpen(shifts[i]) /\ StatusAllows(cmd, shifts[i].status)
    BY <2>1 DEF OpenShiftsOf
  <2>5. ReadsCurrent(q)
    BY <2>3, <2>4, SentinelAssumption DEF ReadsCurrent
  <2> QED BY <2>1, <2>2, <2>5, UnwrittenSettled DEF Remember, tables
<1>3. ASSUME NEW i \in ShiftId, ListOverrunning(r, i)
      PROVE  SettledInv'
  <2>1. PICK q : q = [Idle EXCEPT !.cmd = "autoClose", !.phase = "shiftRead", !.shift = i,
                                  !.worker = shifts[i].worker,
                                  !.at = shifts[i].start + MaxShiftDuration]
    OBVIOUS
  <2>2. /\ q.cmd = "autoClose" /\ q.worker = shifts[i].worker /\ q.shift = i
        /\ q.phase = "shiftRead" /\ q.session = 0 /\ q.brk = 0
    BY <2>1 DEF Idle
  <2>3. IsOpen(shifts[i]) /\ shifts[i].worker # Nobody
    BY <1>3 DEF ListOverrunning, IsOpen, SettledInv, ShiftSettled
  <2>4. ReadsCurrent(q)
    BY <2>2, <2>3 DEF ReadsCurrent
  <2> QED BY <1>3, <2>1, <2>4, UnwrittenSettled DEF ListOverrunning, Remember, tables
<1>4. ASSUME NEW s, NEW at, EndTripRead(r, s, at)
      PROVE  SettledInv'
  <2>1. PICK q : q = [Idle EXCEPT !.cmd = "endTrip", !.phase = "write", !.at = at,
                                  !.worker = SessionWorker(shifts, sessions, s),
                                  !.vehicle = trips[s].vehicle, !.session = s, !.trip = s]
    OBVIOUS
  <2>2. q.cmd = "endTrip"
    BY <2>1 DEF Idle
  <2>3. ReadsCurrent(q)
    BY <2>2 DEF ReadsCurrent, OnShift
  <2> QED BY <1>4, <2>1, <2>3, UnwrittenSettled DEF EndTripRead, Remember, tables
<1> QED BY <1>1, <1>2, <1>3, <1>4

LEMMA FoundOpen ==
  ASSUME NEW table, NEW i, \A a, b \in OpenOn(table, i) : a = b
  PROVE  /\ OpenOn(table, i) \subseteq {FindFirst(OpenOn(table, i))}
         /\ FindFirst(OpenOn(table, i)) # 0 => table[FindFirst(OpenOn(table, i))].shift = i
<1>1. CASE OpenOn(table, i) = {}
  BY <1>1 DEF FindFirst
<1>2. CASE OpenOn(table, i) # {}
  <2>1. FindFirst(OpenOn(table, i)) \in OpenOn(table, i)
    BY <1>2, FindFirstInIds
  <2> QED BY <2>1 DEF OpenOn
<1> QED BY <1>1, <1>2

(* The indexes leave a shift one open row at most, so that what FindFirst finds   *)
(* is all there is.                                                           *)
LEMMA OneOpenRow ==
  ASSUME IInv, NEW i \in ShiftId
  PROVE  /\ \A a, b \in OpenOn(breaks, i) : a = b
         /\ shifts[i].worker \in Worker => \A a, b \in OpenOn(sessions, i) : a = b
<1>1. i # 0
  BY DEF ShiftId
<1>2. \A a, b \in OpenOn(breaks, i) : a = b
  BY <1>1 DEF IInv, NoDoubleBooking, OneBreak, OpenOf, OpenOn
<1>3. shifts[i].worker \in Worker => \A a, b \in OpenOn(sessions, i) : a = b
  BY <1>1 DEF IInv, NoDoubleBooking, OnePosition, OpenSessionsOf, OpenOn
<1> QED BY <1>2, <1>3

LEMMA ReadsFind ==
  ASSUME IInv, SettledInv, NEW r \in Request,
         \/ EndShiftRead(r) \/ StartBreakRead(r) \/ EndBreakRead(r)
         \/ PlanAssignment(r) \/ PlanPositionChange(r) \/ AutoCloseRead(r)
  PROVE  SettledInv'
<1> DEFINE q == req[r]
           s == FindFirst(OpenOn(sessions, q.shift))
           b == FindFirst(OpenOn(breaks, q.shift))
<1>1. q \in RequestState /\ RefersTo(q, shifts, sessions) /\ ReadsCurrent(q)
  BY DEF IInv, TypeOK, RequestsRefer, SettledInv
<1>2. q.cmd \in OnShift
  BY DEF EndShiftRead, StartBreakRead, EndBreakRead, PlanAssignment, PlanPositionChange,
         AutoCloseRead, OnShift
<1>3. q.shift \in ShiftId /\ q.worker # Nobody /\ shifts[q.shift].worker = q.worker
  BY <1>1, <1>2 DEF RefersTo, RequestState, ReadsCurrent
<1>4. shifts[q.shift].worker \in Worker
  BY <1>1, <1>3 DEF RequestState
<1>5. /\ OpenOn(sessions, q.shift) \subseteq {s} /\ (s # 0 => sessions[s].shift = q.shift)
      /\ OpenOn(breaks, q.shift) \subseteq {b} /\ (b # 0 => breaks[b].shift = q.shift)
  BY <1>3, <1>4, OneOpenRow, FoundOpen
<1>6. ASSUME NEW v, Remember(r, v), ReadsCurrent(v)
      PROVE  SettledInv'
  BY <1>6, UnwrittenSettled DEF Remember, tables
<1>7. ASSUME NEW v, v.cmd = q.cmd, v.worker = q.worker, v.shift = q.shift,
             v.session \in {q.session, s}, v.brk \in {q.brk, b},
             q.cmd \in {"endShift", "autoClose"} /\ v.phase = "write" => v.session = s /\ v.brk = b,
             q.cmd = "endBreak" /\ v.phase = "write" => OpenOn(breaks, q.shift) \subseteq {v.brk}
      PROVE  ReadsCurrent(v)
  <2>1. v.session # 0 => sessions[v.session].shift = q.shift
    BY <1>1, <1>2, <1>5, <1>7 DEF ReadsCurrent
  <2>2. v.brk # 0 => breaks[v.brk].shift = q.shift
    BY <1>1, <1>2, <1>5, <1>7 DEF ReadsCurrent
  <2>3. v.cmd \in {"endShift", "autoClose"} /\ v.phase = "write" =>
          OpenOn(sessions, q.shift) \subseteq {v.session}
    BY <1>5, <1>7
  <2>4. v.cmd \in {"endShift", "autoClose", "endBreak"} /\ v.phase = "write" =>
          OpenOn(breaks, q.shift) \subseteq {v.brk}
    BY <1>5, <1>7
  <2> HIDE DEF q, s, b
  <2> QED BY <1>1, <1>2, <1>7, <2>1, <2>2, <2>3, <2>4 DEF ReadsCurrent
<1>8. CASE EndShiftRead(r)
  <2>1. PICK v : v = [q EXCEPT !.phase = "write", !.session = s, !.trip = RunningTrip(s), !.brk = b]
    OBVIOUS
  <2>2. Remember(r, v) /\ q.cmd = "endShift"
    BY <1>8, <2>1 DEF EndShiftRead
  <2>3. v.cmd = q.cmd /\ v.worker = q.worker /\ v.shift = q.shift /\ v.session = s /\ v.brk = b
    <3> HIDE DEF q, s, b
    <3> QED BY <1>1, <2>1 DEF RequestState
  <2> HIDE DEF q, s, b
  <2> QED BY <1>6, <1>7, <2>2, <2>3
<1>9. CASE AutoCloseRead(r)
  <2>1. PICK v : v = [q EXCEPT !.phase = "write", !.session = s, !.brk = b]
    OBVIOUS
  <2>2. Remember(r, v) /\ q.cmd = "autoClose"
    BY <1>9, <2>1 DEF AutoCloseRead
  <2>3. v.cmd = q.cmd /\ v.worker = q.worker /\ v.shift = q.shift /\ v.session = s /\ v.brk = b
    <3> HIDE DEF q, s, b
    <3> QED BY <1>1, <2>1 DEF RequestState
  <2> HIDE DEF q, s, b
  <2> QED BY <1>6, <1>7, <2>2, <2>3
<1>10. CASE StartBreakRead(r)
  <2>1. PICK v : v = [q EXCEPT !.phase = "write"]
    OBVIOUS
  <2>2. Remember(r, v) /\ q.cmd = "startBreak"
    BY <1>10, <2>1 DEF StartBreakRead
  <2>3. /\ v.cmd = q.cmd /\ v.worker = q.worker /\ v.shift = q.shift
        /\ v.session = q.session /\ v.brk = q.brk
    <3> HIDE DEF q
    <3> QED BY <1>1, <2>1 DEF RequestState
  <2> HIDE DEF q, s, b
  <2> QED BY <1>6, <1>7, <2>2, <2>3
<1>11. CASE EndBreakRead(r)
  <2>1. PICK c \in OpenOn(breaks, q.shift) : Remember(r, [q EXCEPT !.phase = "write", !.brk = c])
    BY <1>11 DEF EndBreakRead
  <2>2. PICK v : v = [q EXCEPT !.phase = "write", !.brk = c]
    OBVIOUS
  <2>3. Remember(r, v) /\ q.cmd = "endBreak"
    BY <1>11, <2>1, <2>2 DEF EndBreakRead
  <2>4. c = b
    BY <1>5, <2>1
  <2>5. /\ v.cmd = q.cmd /\ v.worker = q.worker /\ v.shift = q.shift
        /\ v.session = q.session /\ v.brk = b
    <3> HIDE DEF q, b
    <3> QED BY <1>1, <2>2, <2>4 DEF RequestState
  <2> HIDE DEF q, s, b
  <2> QED BY <1>5, <1>6, <1>7, <2>3, <2>5
<1>12. CASE PlanAssignment(r)
  <2>1. PICK d : Remember(r, [q EXCEPT !.phase = "planned", !.plan = d])
    BY <1>12 DEF PlanAssignment
  <2>2. PICK v : v = [q EXCEPT !.phase = "planned", !.plan = d]
    OBVIOUS
  <2>3. Remember(r, v) /\ q.cmd = "beginDriving"
    BY <1>12, <2>1, <2>2 DEF PlanAssignment
  <2>4. /\ v.cmd = q.cmd /\ v.worker = q.worker /\ v.shift = q.shift
        /\ v.session = q.session /\ v.brk = q.brk
    <3> HIDE DEF q
    <3> QED BY <1>1, <2>2 DEF RequestState
  <2> HIDE DEF q, s, b
  <2> QED BY <1>6, <1>7, <2>3, <2>4
<1>13. CASE PlanPositionChange(r)
  <2>1. PICK t : Remember(r, [q EXCEPT !.phase = "write", !.session = s, !.trip = t])
    BY <1>13 DEF PlanPositionChange
  <2>2. PICK v : v = [q EXCEPT !.phase = "write", !.session = s, !.trip = t]
    OBVIOUS
  <2>3. Remember(r, v) /\ q.cmd \in {"changePosition", "beginDriving"}
    BY <1>13, <2>1, <2>2 DEF PlanPositionChange
  <2>4. /\ v.cmd = q.cmd /\ v.worker = q.worker /\ v.shift = q.shift
        /\ v.session = s /\ v.brk = q.brk
    <3> HIDE DEF q, s
    <3> QED BY <1>1, <2>2 DEF RequestState
  <2> HIDE DEF q, s, b
  <2> QED BY <1>6, <1>7, <2>3, <2>4
<1> QED BY <1>8, <1>9, <1>10, <1>11, <1>12, <1>13

-----------------------------------------------------------------------------
LEMMA StartShiftSettles ==
  ASSUME IInv, TypeOK', SettledInv, NEW r \in Request, StartShiftWrite(r)
  PROVE  SettledInv'
<1> DEFINE q == req[r]
<1>1. TypeOK /\ RowsRefer /\ q \in RequestState /\ q.cmd = "startShift" /\ q.worker # Nobody
  BY DEF IInv, TypeOK, SettledInv, ReadsCurrent, StartShiftWrite, Writing
<1>2. PICK i \in NewShiftIds(shifts) :
        /\ shifts' = [shifts EXCEPT ![i] = [worker |-> q.worker, status |-> "ACTIVE",
                                            start |-> q.at, end |-> Null]]
        /\ \/ UNCHANGED sessions
           \/ \E s \in NewRowIds(sessions) : sessions' = OpenSession(sessions, s, i, q.position, q.at)
  BY DEF StartShiftWrite
<1>3. i \in ShiftId /\ shifts[i].status = "NONE"
  BY <1>1, <1>2, NewIdsTyped
<1>4. UNCHANGED breaks /\ req' = [req EXCEPT ![r] = Idle]
  BY DEF StartShiftWrite, Finish
<1> HIDE DEF q
<1>5. /\ shifts'[i].worker = q.worker /\ shifts'[i].status = "ACTIVE"
      /\ \A j \in ShiftId \ {i} : shifts'[j] = shifts[j]
  BY <1>1, <1>2, <1>3 DEF TypeOK
<1>6. i # 0 /\ \A s \in SessionId : sessions[s].shift # i
  BY <1>1, <1>3 DEF RowsRefer, ShiftId
<1>7. OpenOn(breaks, i) = {}
  BY <1>1, <1>3 DEF SettledInv, ShiftSettled, OpenOn, IsOpen
<1>8. OpenOn(breaks, i)' = {}
  BY <1>4, <1>7 DEF OpenOn
<1>9. OnlyShift(i) /\ ShiftSettled(i)'
  <2>1. CASE UNCHANGED sessions
    <3>1. OnlyShift(i)
      BY <1>4, <1>5, <2>1 DEF OnlyShift
    <3>2. \A s \in SessionId : sessions'[s].shift # i
      BY <1>6, <2>1
    <3>3. ShiftSettled(i)'
      BY <1>1, <1>5, <1>8, <3>2 DEF ShiftSettled, IsOpen
    <3> QED BY <3>1, <3>3
  <2>2. ASSUME NEW s \in NewRowIds(sessions),
               sessions' = OpenSession(sessions, s, i, q.position, q.at)
        PROVE  OnlyShift(i) /\ ShiftSettled(i)'
    <3>1. s \in SessionId /\ sessions[s].shift = 0
      BY <1>1, NewIdsTyped
    <3>2. /\ sessions'[s].shift = i /\ sessions'[s].end = Null
          /\ \A t \in SessionId \ {s} : sessions'[t] = sessions[t]
      BY <1>1, <2>2, <3>1 DEF OpenSession, TypeOK
    <3>3. OnlyShift(i)
      BY <1>4, <1>5, <3>1, <3>2 DEF OnlyShift
    <3>4. \A t \in SessionId : sessions'[t].shift = i => t = s
      BY <1>6, <3>2
    <3>5. s \in OpenOn(sessions, i)'
      BY <3>1, <3>2 DEF OpenOn, TypeOK
    <3>6. ShiftSettled(i)'
      BY <1>1, <1>5, <1>8, <3>4, <3>5 DEF ShiftSettled, IsOpen
    <3> QED BY <3>3, <3>6
  <2> QED BY <1>2, <2>1, <2>2
<1>10. \A o \in Request \ {r} : req[o].cmd \in OnShift => req[o].shift # i
  BY <1>3 DEF IInv, RequestsRefer, RefersTo
<1> QED BY <1>3, <1>4, <1>9, <1>10, WriteSettles

(* The session closed at an instant that is not before its start.              *)
LEMMA ClosedSessionRows ==
  ASSUME TypeOK, NEW k \in SessionId \cup {0}, NEW at \in Time, MayCloseSession(sessions, k, at)
  PROVE  \A s \in SessionId :
           LET row == CloseSession(sessions, k, at)[s] IN
           /\ s # k => row = sessions[s]
           /\ s = k => /\ row.shift = sessions[s].shift /\ row.start = sessions[s].start
                       /\ row.end = at /\ row.end # Null
                       /\ sessions[s].end = Null /\ sessions[s].start <= at
<1>1. at # Null
  BY DEF Time, Null
<1> QED BY <1>1, SessionIdPositive
        DEF CloseSession, MayCloseSession, TypeOK, SessionRow, Time

(* Closing an open session keeps it apart from those that ended before it began. *)
LEMMA ClosingKeepsDisjoint ==
  ASSUME NEW a, NEW b, NEW c, Disjoint(a, b), a.end = Null, c.start = a.start
  PROVE  Disjoint(c, b) /\ Disjoint(b, c)
BY DEF Disjoint, EndsAfter

(* Closing the one break that is open leaves none.                             *)
LEMMA BreakClosed ==
  ASSUME TypeOK, TypeOK', NEW i \in ShiftId, NEW k \in BreakId \cup {0}, NEW at \in Time,
         breaks' = CloseBreak(breaks, k, at), OpenOn(breaks, i) \subseteq {k},
         k # 0 => breaks[k].shift = i
  PROVE  /\ OpenOn(breaks, i)' = {}
         /\ \A b \in BreakId : \/ breaks'[b] = breaks[b]
                               \/ breaks[b].shift \in {0, i} /\ breaks'[b].shift = i
<1>1. at # Null /\ i # 0 /\ 0 \notin BreakId
  BY DEF Time, Null, ShiftId, BreakId
<1>2. \A b \in BreakId :
        /\ b # k => breaks'[b] = breaks[b]
        /\ b = k => breaks'[b].end # Null /\ breaks'[b].shift = breaks[b].shift
  BY <1>1 DEF CloseBreak, TypeOK, IntervalRow
<1>3. OpenOn(breaks, i)' = {}
  BY <1>2 DEF OpenOn, TypeOK
<1> QED BY <1>1, <1>2, <1>3

LEMMA BreakWritesSettle ==
  ASSUME IInv, TypeOK', SettledInv, OneAtATime, NEW r \in Request,
         StartBreakWrite(r) \/ EndBreakWrite(r)
  PROVE  SettledInv'
<1> DEFINE q == req[r]
<1>0. PICK i : i = q.shift
  OBVIOUS
<1> USE <1>0
<1>1. /\ TypeOK /\ q \in RequestState /\ RefersTo(q, shifts, sessions) /\ ReadsCurrent(q)
      /\ q.cmd \in OnShift /\ q.phase = "write"
  BY DEF IInv, TypeOK, RequestsRefer, SettledInv, StartBreakWrite, EndBreakWrite, Writing, OnShift
<1>2. i \in ShiftId /\ IsOpen(shifts[i]) /\ q.worker # Nobody /\ shifts[i].worker = q.worker
  BY <1>1 DEF RefersTo, RequestState, ReadsCurrent
<1>3. ShiftSettled(i)
  BY <1>2 DEF SettledInv
<1>4. UNCHANGED sessions /\ req' = [req EXCEPT ![r] = Idle]
  BY DEF StartBreakWrite, EndBreakWrite, Finish
<1>5. \A o \in Request \ {r} : req[o].cmd \in OnShift => req[o].shift # i
  BY <1>1, OthersApart
<1>6. OpenOn(sessions, i)' = OpenOn(sessions, i)
  BY <1>4 DEF OpenOn
<1>7. CASE StartBreakWrite(r)
  <2>1. PICK b \in NewRowIds(breaks) :
          breaks' = [breaks EXCEPT ![b] = [shift |-> i, start |-> q.at, end |-> Null]]
    BY <1>7 DEF StartBreakWrite
  <2>2. b \in BreakId /\ breaks[b].shift = 0
    BY <1>1, NewIdsTyped
  <2>3. /\ breaks'[b].shift = i /\ breaks'[b].end = Null
        /\ \A c \in BreakId \ {b} : breaks'[c] = breaks[c]
    BY <1>1, <2>1, <2>2 DEF TypeOK
  <2>4. /\ shifts'[i].worker = shifts[i].worker /\ shifts'[i].status = "ON_BREAK"
        /\ \A j \in ShiftId \ {i} : shifts'[j] = shifts[j]
    BY <1>1, <1>2, <1>7 DEF StartBreakWrite, TypeOK, ShiftRow
  <2> HIDE DEF q
  <2>5. OnlyShift(i)
    BY <1>4, <2>2, <2>3, <2>4 DEF OnlyShift
  <2>6. b \in OpenOn(breaks, i)'
    BY <2>2, <2>3 DEF OpenOn, TypeOK
  <2>7. ShiftSettled(i)'
    BY <1>2, <1>3, <1>4, <1>6, <2>4, <2>6 DEF ShiftSettled, IsOpen
  <2> QED BY <1>2, <1>4, <1>5, <2>5, <2>7, WriteSettles
<1>8. CASE EndBreakWrite(r)
  <2>1. q.brk \in BreakId \cup {0} /\ q.at \in Time /\ q.cmd = "endBreak"
    BY <1>1, <1>8 DEF RequestState, EndBreakWrite, Writing
  <2>2. breaks' = CloseBreak(breaks, q.brk, q.at)
    BY <1>8 DEF EndBreakWrite
  <2>3. /\ shifts'[i].worker = shifts[i].worker /\ shifts'[i].status = "ACTIVE"
        /\ \A j \in ShiftId \ {i} : shifts'[j] = shifts[j]
    BY <1>1, <1>2, <1>8 DEF EndBreakWrite, TypeOK, ShiftRow
  <2>4. /\ OpenOn(breaks, i) \subseteq {q.brk}
        /\ q.brk # 0 => breaks[q.brk].shift = i
    BY <1>1, <2>1 DEF ReadsCurrent
  <2> HIDE DEF q
  <2>5. /\ OpenOn(breaks, i)' = {}
        /\ \A b \in BreakId : \/ breaks'[b] = breaks[b]
                              \/ breaks[b].shift \in {0, i} /\ breaks'[b].shift = i
    BY <1>1, <1>2, <2>1, <2>2, <2>4, BreakClosed
  <2>6. OnlyShift(i)
    BY <1>4, <2>3, <2>5 DEF OnlyShift
  <2>7. ShiftSettled(i)'
    BY <1>2, <1>3, <1>4, <1>6, <2>3, <2>5 DEF ShiftSettled, IsOpen
  <2> QED BY <1>2, <1>4, <1>5, <2>6, <2>7, WriteSettles
<1> QED BY <1>7, <1>8

LEMMA CloseWritesSettle ==
  ASSUME IInv, TypeOK', SettledInv, OneAtATime, NEW r \in Request,
         EndShiftWrite(r) \/ AutoCloseWrite(r)
  PROVE  SettledInv'
<1> DEFINE q == req[r]
<1>0. PICK i : i = q.shift
  OBVIOUS
<1> USE <1>0
<1>1. /\ TypeOK /\ q \in RequestState /\ RefersTo(q, shifts, sessions) /\ ReadsCurrent(q)
      /\ q.cmd \in OnShift /\ q.cmd \in {"endShift", "autoClose"} /\ q.phase = "write"
  BY DEF IInv, TypeOK, RequestsRefer, SettledInv, EndShiftWrite, AutoCloseWrite, Writing, OnShift
<1>2. i \in ShiftId /\ IsOpen(shifts[i]) /\ q.worker # Nobody /\ shifts[i].worker = q.worker
  BY <1>1 DEF RefersTo, RequestState, ReadsCurrent
<1>3. ShiftSettled(i)
  BY <1>2 DEF SettledInv
<1>4. /\ MayCloseSession(sessions, q.session, q.at)
      /\ breaks' = CloseBreak(breaks, q.brk, q.at)
      /\ sessions' = CloseSession(sessions, q.session, q.at)
      /\ shifts' = CloseShift(shifts, i, q.at)
      /\ req' = [req EXCEPT ![r] = Idle]
  BY DEF EndShiftWrite, AutoCloseWrite, Finish
<1>5. /\ q.brk \in BreakId \cup {0} /\ q.session \in SessionId \cup {0} /\ q.at \in Time
  BY <1>1 DEF RequestState
<1>6. /\ OpenOn(sessions, i) \subseteq {q.session} /\ OpenOn(breaks, i) \subseteq {q.brk}
      /\ q.session # 0 => sessions[q.session].shift = i
      /\ q.brk # 0 => breaks[q.brk].shift = i
  BY <1>1 DEF ReadsCurrent
<1>7. \A o \in Request \ {r} : req[o].cmd \in OnShift => req[o].shift # i
  BY <1>1, OthersApart
<1> HIDE DEF q
<1>8. /\ shifts'[i].worker = shifts[i].worker /\ shifts'[i].status = "COMPLETED"
      /\ \A j \in ShiftId \ {i} : shifts'[j] = shifts[j]
  BY <1>1, <1>2, <1>4 DEF CloseShift, TypeOK, ShiftRow
<1>9. /\ OpenOn(breaks, i)' = {}
      /\ \A b \in BreakId : \/ breaks'[b] = breaks[b]
                            \/ breaks[b].shift \in {0, i} /\ breaks'[b].shift = i
  BY <1>1, <1>2, <1>4, <1>5, <1>6, BreakClosed
<1>10. \A s \in SessionId :
         /\ s # q.session => sessions'[s] = sessions[s]
         /\ s = q.session => /\ sessions'[s].shift = i /\ sessions'[s].start = sessions[s].start
                             /\ sessions'[s].end # Null /\ sessions[s].end = Null
                             /\ sessions[s].shift = i
  BY <1>1, <1>4, <1>5, <1>6, ClosedSessionRows, SessionIdPositive
<1>11. OnlyShift(i)
  BY <1>8, <1>9, <1>10 DEF OnlyShift
<1>12. OpenOn(sessions, i)' = {}
  BY <1>1, <1>6, <1>10 DEF OpenOn, TypeOK
<1>13. ASSUME NEW s \in SessionId, NEW t \in SessionId, s # t,
              sessions'[s].shift = i, sessions'[t].shift = i
       PROVE  Disjoint(sessions'[s], sessions'[t])
  <2>1. /\ sessions[s].shift = i /\ sessions[t].shift = i
        /\ Disjoint(sessions[s], sessions[t]) /\ Disjoint(sessions[t], sessions[s])
    BY <1>3, <1>10, <1>13 DEF ShiftSettled
  <2>2. CASE s # q.session /\ t # q.session
    BY <1>10, <2>1, <2>2
  <2>3. CASE s = q.session
    BY <1>10, <1>13, <2>1, <2>3, ClosingKeepsDisjoint
  <2>4. CASE t = q.session
    BY <1>10, <1>13, <2>1, <2>4, ClosingKeepsDisjoint
  <2> QED BY <2>2, <2>3, <2>4
<1>14. ShiftSettled(i)'
  BY <1>2, <1>3, <1>8, <1>9, <1>12, <1>13 DEF ShiftSettled, IsOpen
<1> QED BY <1>2, <1>4, <1>7, <1>11, <1>14, WriteSettles

(* A move closes the open session and begins the next at the same instant.      *)
LEMMA MovesSettle ==
  ASSUME IInv, TypeOK', SettledInv, OneAtATime, NEW r \in Request,
         ChangePositionWrite(r) \/ BeginDrivingWrite(r)
  PROVE  SettledInv'
<1> DEFINE q == req[r]
<1>0. PICK i : i = q.shift
  OBVIOUS
<1> USE <1>0
<1>1. /\ TypeOK /\ q \in RequestState /\ RefersTo(q, shifts, sessions) /\ ReadsCurrent(q)
      /\ q.cmd \in OnShift
  BY DEF IInv, TypeOK, RequestsRefer, SettledInv, ChangePositionWrite, BeginDrivingWrite,
         Writing, OnShift
<1>2. i \in ShiftId /\ IsOpen(shifts[i]) /\ q.worker # Nobody /\ shifts[i].worker = q.worker
  BY <1>1 DEF RefersTo, RequestState, ReadsCurrent
<1>3. ShiftSettled(i)
  BY <1>2 DEF SettledInv
<1>4. PICK s \in NewRowIds(sessions) : MoveTo(q, s)
  BY DEF ChangePositionWrite, BeginDrivingWrite
<1>5. UNCHANGED <<shifts, breaks>> /\ req' = [req EXCEPT ![r] = Idle]
  BY DEF ChangePositionWrite, BeginDrivingWrite, Finish
<1>6. q.session \in SessionId \cup {0} /\ q.at \in Time
  BY <1>1 DEF RequestState
<1>7. /\ MayCloseSession(sessions, q.session, q.at)
      /\ OpenOn(sessions, i) \subseteq {q.session}
      /\ sessions' = OpenSession(CloseSession(sessions, q.session, q.at), s, i, q.position, q.at)
  BY <1>4 DEF MoveTo, SessionIndexAllows
<1>8. q.session # 0 => sessions[q.session].shift = i
  BY <1>1 DEF ReadsCurrent
<1>9. \A o \in Request \ {r} : req[o].cmd \in OnShift => req[o].shift # i
  BY <1>1, OthersApart
<1>10. s \in SessionId /\ sessions[s].shift = 0
  BY <1>1, NewIdsTyped
<1>11. CloseSession(sessions, q.session, q.at) \in [SessionId -> SessionRow]
  BY <1>1, <1>6, WritesTyped
<1> HIDE DEF q
<1>12. s # q.session /\ i # 0
  BY <1>2, <1>8, <1>10, SessionIdPositive DEF ShiftId
<1>13. /\ sessions'[s].shift = i /\ sessions'[s].start = q.at /\ sessions'[s].end = Null
       /\ \A t \in SessionId \ {s} :
            sessions'[t] = CloseSession(sessions, q.session, q.at)[t]
  BY <1>7, <1>10, <1>11 DEF OpenSession
<1>14. \A t \in SessionId \ {s} :
         /\ t # q.session => sessions'[t] = sessions[t]
         /\ t = q.session => /\ sessions'[t].shift = i /\ sessions'[t].start = sessions[t].start
                             /\ sessions'[t].end = q.at /\ sessions[t].end = Null
                             /\ sessions[t].start <= q.at
                             /\ sessions[t].shift = i
  BY <1>1, <1>6, <1>7, <1>8, <1>13, ClosedSessionRows, SessionIdPositive
<1>15. OnlyShift(i)
  BY <1>5, <1>10, <1>13, <1>14 DEF OnlyShift
<1>16. s \in OpenOn(sessions, i)' /\ OpenOn(breaks, i)' = OpenOn(breaks, i)
  BY <1>5, <1>10, <1>13 DEF OpenOn, TypeOK
<1>17. ASSUME NEW t \in SessionId \ {s}, sessions'[t].shift = i
       PROVE  sessions'[t].end # Null /\ sessions'[t].end <= q.at
  <2>1. CASE t = q.session
    BY <1>6, <1>14, <1>17, <2>1 DEF Time, Null
  <2>2. CASE t # q.session
    <3>1. sessions'[t] = sessions[t] /\ sessions[t].shift = i /\ sessions[t].end # Null
      BY <1>1, <1>7, <1>14, <1>17, <2>2 DEF OpenOn, TypeOK
    <3>2. q.session # 0
      BY <1>1, <1>2, <1>3, <1>7, <3>1, SessionIdPositive DEF ShiftSettled, OpenOn, TypeOK
    <3>3. q.session \in SessionId \ {s}
      BY <1>6, <1>12, <3>2
    <3>4. Disjoint(sessions[q.session], sessions[t])
      BY <1>3, <1>14, <2>2, <3>1, <3>3 DEF ShiftSettled
    <3>5. ~ (sessions[t].end > sessions[q.session].start)
      BY <1>14, <3>3, <3>4 DEF Disjoint, EndsAfter
    <3>6. /\ sessions[t].end \in Int /\ sessions[q.session].start \in Int /\ q.at \in Int
          /\ sessions[q.session].start <= q.at
      BY <1>1, <1>6, <1>14, <3>1, <3>3 DEF TypeOK, SessionRow, Time, Null
    <3> QED BY <3>1, <3>5, <3>6
  <2> QED BY <2>1, <2>2
<1>18. ASSUME NEW t \in SessionId, NEW u \in SessionId, t # u,
              sessions'[t].shift = i, sessions'[u].shift = i
       PROVE  Disjoint(sessions'[t], sessions'[u])
  <2>1. CASE t # s /\ u # s
    <3>1. /\ sessions[t].shift = i /\ sessions[u].shift = i
          /\ Disjoint(sessions[t], sessions[u]) /\ Disjoint(sessions[u], sessions[t])
      BY <1>3, <1>14, <1>18, <2>1 DEF ShiftSettled
    <3>2. CASE t # q.session /\ u # q.session
      BY <1>14, <2>1, <3>1, <3>2
    <3>3. CASE t = q.session
      BY <1>14, <1>18, <2>1, <3>1, <3>3, ClosingKeepsDisjoint
    <3>4. CASE u = q.session
      BY <1>14, <1>18, <2>1, <3>1, <3>4, ClosingKeepsDisjoint
    <3> QED BY <3>2, <3>3, <3>4
  <2>2. ASSUME NEW v \in SessionId \ {s}, sessions'[v].shift = i
        PROVE  Disjoint(sessions'[v], sessions'[s]) /\ Disjoint(sessions'[s], sessions'[v])
    <3>1. sessions'[v].end # Null /\ sessions'[v].end <= sessions'[s].start
      BY <1>13, <1>17, <2>2
    <3>2. sessions'[v].end \in Int /\ sessions'[s].start \in Int
      BY <1>10, <2>2 DEF TypeOK, SessionRow, Time, Null
    <3>3. ~ EndsAfter(sessions'[v].end, sessions'[s].start)
      BY <3>1, <3>2 DEF EndsAfter
    <3> QED BY <3>3 DEF Disjoint
  <2> QED BY <1>18, <2>1, <2>2
<1>19. ShiftSettled(i)'
  BY <1>2, <1>3, <1>5, <1>16, <1>18 DEF ShiftSettled, IsOpen
<1> QED BY <1>2, <1>5, <1>9, <1>15, <1>19, WriteSettles

LEMMA SettledStep == IInv /\ SettledInv /\ OneAtATime /\ ~Correcting /\ [Next]_vars => SettledInv'
<1> SUFFICES ASSUME IInv, SettledInv, OneAtATime, ~Correcting, [Next]_vars PROVE SettledInv'
  OBVIOUS
<1>1. TypeOK'
  BY TypeStep DEF IInv
<1>2. ASSUME UNCHANGED <<tables, req>> PROVE SettledInv'
  BY <1>2 DEF tables, SettledInv, ShiftSettled, ReadsCurrent, OpenOn
<1>3. ASSUME NEW r \in Device, WorkerRequest(r) PROVE SettledInv'
  <2>1. r \in Request
    BY DEF Request
  <2>2. PICK w \in Worker, at \in OccurredAt :
          \/ \E p \in Position \cup {Nowhere} : StartShiftRead(r, w, at, p)
          \/ \E cmd \in {"endShift", "startBreak", "endBreak"} :
               RequireOpenShift(r, cmd, w, at, Nowhere, NoVehicle)
          \/ \E p \in Position : RequireOpenShift(r, "changePosition", w, at, p, NoVehicle)
          \/ \E p \in Position, v \in Vehicle : RequireOpenShift(r, "beginDriving", w, at, p, v)
    BY <1>3 DEF WorkerRequest
  <2>3. at \in Time
    BY ReconciledInTime DEF IInv, TypeOK
  <2> QED BY <2>1, <2>2, <2>3, StartsRead
<1>4. ASSUME NEW r \in Office, Supervision(r) PROVE SettledInv'
  BY <1>4, StartsRead DEF Supervision, CorrectRead, Request
<1>5. ASSUME NEW r \in Request, Abort(r) PROVE SettledInv'
  BY <1>5, IdleReads, UnwrittenSettled DEF Abort, Remember, tables
<1>6. ASSUME NEW r \in Request, EndTripWrite(r) \/ ReleaseVehicle(r) PROVE SettledInv'
  <2>1. PICK q : q = [req[r] EXCEPT !.phase = "release", !.trip = 0]
    OBVIOUS
  <2>2. req[r] \in RequestState /\ req[r].cmd = "endTrip"
    BY <1>6 DEF IInv, TypeOK, EndTripWrite, ReleaseVehicle, Writing
  <2>3. q.cmd = "endTrip"
    BY <2>1, <2>2 DEF RequestState
  <2>4. ReadsCurrent(q)
    BY <2>3 DEF ReadsCurrent, OnShift
  <2> QED BY <1>6, <2>1, <2>4, IdleReads, UnwrittenSettled
          DEF EndTripWrite, ReleaseVehicle, Finish
<1>7. ASSUME NEW r \in Request, CorrectWrite(r) PROVE FALSE
  BY <1>7 DEF CorrectWrite, Writing, SettledInv, ReadsCurrent
<1>8. ASSUME NEW r \in Request, Continue(r) PROVE SettledInv'
  BY <1>1, <1>6, <1>7, <1>8, ReadsFind, StartShiftSettles, BreakWritesSettle,
     CloseWritesSettle, MovesSettle DEF Continue
<1>9. ASSUME NEW r \in Device, PortalRequest(r) PROVE SettledInv'
  BY <1>9, StartsRead DEF PortalRequest, Request
<1>10. CASE Tick \/ UNCHANGED vars
  BY <1>2, <1>10 DEF Tick, vars, tables
<1> QED BY <1>3, <1>4, <1>5, <1>8, <1>9, <1>10 DEF Next

LEMMA SettledInit == Init => SettledInv
<1> SUFFICES ASSUME Init PROVE SettledInv
  OBVIOUS
<1>1. /\ \A i \in ShiftId : shifts[i].status = "NONE"
      /\ \A b \in BreakId : breaks[b].shift = 0
      /\ \A s \in SessionId : sessions[s].shift = 0
      /\ DOMAIN breaks = BreakId /\ DOMAIN sessions = SessionId
      /\ \A r \in Request : req[r] = Idle
  BY DEF Init, NoShift, NoBreak, NoSession
<1>2. ASSUME NEW i \in ShiftId PROVE ShiftSettled(i)
  <2>1. OpenOn(breaks, i) = {} /\ OpenOn(sessions, i) = {}
    BY <1>1 DEF OpenOn, ShiftId
  <2> QED BY <1>1, <2>1 DEF ShiftSettled, IsOpen, ShiftId
<1> QED BY <1>1, <1>2, IdleReads DEF SettledInv

LEMMA AlwaysSettled ==
  ASSUME ~Correcting
  PROVE  Spec /\ []OneAtATime => []SettledInv
<1>1. IInv /\ SettledInv /\ OneAtATime /\ [Next]_vars => SettledInv'
  BY SettledStep
<1> QED BY <1>1, SettledInit, Inductive, PTL DEF Spec

(* The status of a worker's shift agrees with his break rows as long as he has     *)
(* one request in flight at a time.                                            *)
THEOREM StatusTellsTheBreak ==
  ASSUME ~Correcting
  PROVE  Spec /\ []OneAtATime => []OnBreakIffOpenBreak
<1>1. SettledInv => OnBreakIffOpenBreak
  BY DEF SettledInv, ShiftSettled, OnBreakIffOpenBreak
<1> QED BY <1>1, AlwaysSettled, PTL

(* Whatever a worker did before, ending his shift, or the sweep's ending it, leaves  *)
(* nothing of it open.                                                        *)
THEOREM CompletedShiftsSettled ==
  ASSUME ~Correcting
  PROVE  Spec /\ []OneAtATime => []CompletedIsSettled
<1>1. SettledInv => CompletedIsSettled
  BY DEF SettledInv, ShiftSettled, CompletedIsSettled, IsOpen
<1> QED BY <1>1, AlwaysSettled, PTL

(* No stretch of a shift is spent at two positions, whatever instants offline       *)
(* actions carry: a move begins where the session it closes ends, and that one is  *)
(* the latest of the shift.                                                    *)
THEOREM SessionsNeverOverlap ==
  ASSUME ~Correcting
  PROVE  Spec /\ []OneAtATime => []SessionsDisjoint
<1>1. IInv /\ SettledInv => SessionsDisjoint
  BY DEF SettledInv, ShiftSettled, SessionsDisjoint, Disjoint, IInv, TypeOK, SessionRow
<1> QED BY <1>1, AlwaysSettled, Inductive, PTL

(* Ending the shift ends the drive: no trip runs on a completed shift.             *)
THEOREM NoTripOutlivesTheShift ==
  ASSUME ~Sweeping, ~Correcting
  PROVE  Spec /\ []OneAtATime => []NoTripAfterShift
<1>1. IInv /\ SettledInv /\ TripRunsWithItsSession => NoTripAfterShift
  <2> SUFFICES ASSUME IInv, SettledInv, TripRunsWithItsSession,
                      NEW s \in SessionId, trips[s].status = "ACTIVE"
               PROVE  shifts[sessions[s].shift].status # "COMPLETED"
    BY DEF NoTripAfterShift
  <2>1. sessions[s].end = Null /\ sessions[s].shift \in ShiftId
    BY DEF TripRunsWithItsSession, IInv, RowsRefer, TypeOK, SessionRow
  <2>2. s \in OpenOn(sessions, sessions[s].shift)
    BY <2>1 DEF OpenOn, IInv, TypeOK
  <2> QED BY <2>1, <2>2 DEF SettledInv, ShiftSettled, IsOpen
<1> QED BY <1>1, AlwaysSettled, Inductive, TripsFollowSessions, PTL
-----------------------------------------------------------------------------
(* A vehicle under a running trip.  Trips and assignments name workers, so a     *)
(* step that touches those of one worker leaves the others' as they were.        *)

OthersDrive(w) ==
  /\ \A s \in SessionId :
       \/ /\ trips'[s] = trips[s]
          /\ trips[s].status = "ACTIVE" =>
               SessionWorker(shifts, sessions, s)' = SessionWorker(shifts, sessions, s)
       \/ /\ trips[s].status = "ACTIVE" => SessionWorker(shifts, sessions, s) = w
          /\ trips'[s].status = "ACTIVE" => SessionWorker(shifts, sessions, s)' = w
  /\ \A v \in Vehicle : held'[v] = held[v] \/ held[v].driver \in {Nobody, w}

LEMMA DriverIsWorker ==
  ASSUME IInv, ShiftsOwned, NEW s \in SessionId, trips[s].status = "ACTIVE"
  PROVE  /\ sessions[s].shift \in ShiftId
         /\ SessionWorker(shifts, sessions, s) \in Worker
<1>1. /\ sessions[s].shift \in ShiftId /\ sessions[s].shift # 0
      /\ shifts[sessions[s].shift].status # "NONE"
  BY DEF IInv, TypeOK, RowsRefer, SessionRow
<1> QED BY <1>1 DEF SessionWorker, ShiftsOwned, IInv, TypeOK, ShiftRow

LEMMA SameDrivers ==
  ASSUME IInv, ShiftsOwned, RowsKept, NEW s \in SessionId, trips[s].status = "ACTIVE"
  PROVE  SessionWorker(shifts, sessions, s)' = SessionWorker(shifts, sessions, s)
<1>1. /\ sessions[s].shift \in ShiftId /\ sessions[s].shift # 0
      /\ shifts[sessions[s].shift].status # "NONE"
  BY DEF IInv, TypeOK, RowsRefer, SessionRow
<1> QED BY <1>1 DEF SessionWorker, RowsKept

LEMMA OthersDriveCurrent ==
  ASSUME TypeOK, TypeOK', NEW w, OthersDrive(w),
         NEW q \in RequestState, DriveCurrent(q), q.worker # w
  PROVE  DriveCurrent(q)'
<1>1. DOMAIN trips = SessionId /\ DOMAIN trips' = SessionId
  BY DEF TypeOK
<1>2. ActiveTripsOf(shifts, sessions, trips, q.worker)'
        = ActiveTripsOf(shifts, sessions, trips, q.worker)
  BY <1>1 DEF OthersDrive, ActiveTripsOf
<1>3. q.cmd = "beginDriving" /\ q.plan = "REUSE" => held'[q.vehicle].driver = q.worker
  BY DEF OthersDrive, DriveCurrent, OnShift
<1> QED BY <1>2, <1>3 DEF DriveCurrent

(* A write about the trip and the vehicle of one worker, by his one request.    *)
LEMMA DriveWrite ==
  ASSUME IInv, IInv', DriveInv, OneAtATime, NEW r \in Request, NEW w \in Worker,
         req[r].worker = w, OthersDrive(w), ShiftsOwned',
         \A s \in SessionId :
           trips'[s].status = "ACTIVE" /\ SessionWorker(shifts, sessions, s)' = w =>
             trips'[s].vehicle \in Vehicle /\ held'[trips'[s].vehicle].driver = w,
         NEW v, req' = [req EXCEPT ![r] = v], DriveCurrent(v)'
  PROVE  DriveInv'
<1>1. TypeOK /\ TypeOK' /\ w # Nobody
  BY SentinelAssumption DEF IInv
<1>2. ASSUME NEW s \in SessionId, trips'[s].status = "ACTIVE"
      PROVE  /\ trips'[s].vehicle \in Vehicle
             /\ held'[trips'[s].vehicle].driver = SessionWorker(shifts, sessions, s)'
  <2>1. CASE SessionWorker(shifts, sessions, s)' = w
    BY <1>2, <2>1
  <2>2. CASE SessionWorker(shifts, sessions, s)' # w
    <3>1. /\ trips'[s] = trips[s]
          /\ SessionWorker(shifts, sessions, s)' = SessionWorker(shifts, sessions, s)
      BY <1>2, <2>2 DEF OthersDrive
    <3>2. /\ trips[s].vehicle \in Vehicle
          /\ held[trips[s].vehicle].driver = SessionWorker(shifts, sessions, s)
          /\ SessionWorker(shifts, sessions, s) \in Worker
      BY <1>2, <3>1, DriverIsWorker DEF DriveInv, DrivenVehicleHeld
    <3>3. held'[trips[s].vehicle] = held[trips[s].vehicle]
      BY <2>2, <3>1, <3>2, SentinelAssumption DEF OthersDrive
    <3> QED BY <3>1, <3>2, <3>3
  <2> QED BY <2>1, <2>2
<1>3. ASSUME NEW o \in Request PROVE DriveCurrent(req[o])'
  <2>1. CASE o = r
    <3>1. req'[o] = v
      BY <1>1, <2>1 DEF TypeOK
    <3> QED BY <3>1 DEF DriveCurrent
  <2>2. CASE o # r
    <3>1. PICK q \in RequestState : q = req[o]
      BY <1>1 DEF TypeOK
    <3>2. req'[o] = q /\ q.worker # w
      BY <1>1, <2>2, <3>1 DEF TypeOK, OneAtATime
    <3>3. DriveCurrent(q)
      BY <3>1 DEF DriveInv
    <3>4. DriveCurrent(q)'
      BY <1>1, <3>2, <3>3, OthersDriveCurrent
    <3> QED BY <3>2, <3>4 DEF DriveCurrent
  <2> QED BY <2>1, <2>2
<1> QED BY <1>2, <1>3 DEF DriveInv, DrivenVehicleHeld

(* A step that leaves the trips and the assignments alone.                     *)
LEMMA DriveUntouched ==
  ASSUME IInv, TypeOK', DriveInv, NEW r \in Request, RowsKept, ShiftsOwned',
         UNCHANGED <<trips, held>>,
         NEW v, req' = [req EXCEPT ![r] = v], DriveCurrent(v)
  PROVE  DriveInv'
<1>1. TypeOK /\ DOMAIN trips = SessionId
  BY DEF IInv, TypeOK
<1>2. \A s \in SessionId : trips[s].status = "ACTIVE" =>
        SessionWorker(shifts, sessions, s)' = SessionWorker(shifts, sessions, s)
  BY SameDrivers DEF DriveInv
<1>3. \A w : ActiveTripsOf(shifts, sessions, trips, w)'
               = ActiveTripsOf(shifts, sessions, trips, w)
  BY <1>1, <1>2 DEF ActiveTripsOf
<1>5. ASSUME NEW q, DriveCurrent(q) PROVE DriveCurrent(q)'
  BY <1>3, <1>5 DEF DriveCurrent
<1>6. ASSUME NEW o \in Request PROVE DriveCurrent(req[o])'
  <2>1. PICK q : q = req'[o] /\ DriveCurrent(q)
    BY <1>1 DEF TypeOK, DriveInv
  <2>2. DriveCurrent(q)'
    BY <1>5, <2>1
  <2> QED BY <2>1, <2>2 DEF DriveCurrent
<1>7. DrivenVehicleHeld'
  BY <1>2 DEF DrivenVehicleHeld, DriveInv
<1> QED BY <1>6, <1>7 DEF DriveInv

LEMMA DriveRemember ==
  ASSUME IInv, TypeOK', DriveInv, NEW r \in Request, NEW v, Remember(r, v), DriveCurrent(v)
  PROVE  DriveInv'
<1>1. UNCHANGED <<shifts, sessions, trips, held>> /\ req' = [req EXCEPT ![r] = v]
  BY DEF Remember, tables
<1>2. RowsKept /\ ShiftsOwned'
  BY <1>1 DEF RowsKept, DriveInv, ShiftsOwned
<1> QED BY <1>1, <1>2, DriveUntouched

LEMMA IdleDrives == DriveCurrent(Idle)
BY DEF DriveCurrent, Idle, OnShift

LEMMA DriveStarts ==
  ASSUME IInv, TypeOK', DriveInv, NEW r \in Request
  PROVE  /\ \A w \in Worker, at \in Time, p \in Position \cup {Nowhere} :
              StartShiftRead(r, w, at, p) => DriveInv'
         /\ \A cmd \in {"endShift", "startBreak", "endBreak", "changePosition", "beginDriving"},
              w \in Worker, at \in Time, p \in Position \cup {Nowhere},
              v \in Vehicle \cup {NoVehicle} :
              (cmd = "beginDriving" => v \in Vehicle) /\ RequireOpenShift(r, cmd, w, at, p, v)
                => DriveInv'
         /\ \A i \in ShiftId : ListOverrunning(r, i) => DriveInv'
         /\ \A s \in SessionId, at \in Time : EndTripRead(r, s, at) => DriveInv'
         /\ \A s \in SessionId, t \in Time, u \in Time \cup {Null} :
              CorrectRead(r, s, t, u) => DriveInv'
<1>1. ASSUME NEW w \in Worker, NEW at, NEW p, StartShiftRead(r, w, at, p)
      PROVE  DriveInv'
  <2>1. PICK q : q = [Idle EXCEPT !.cmd = "startShift", !.phase = "write", !.worker = w,
                                  !.at = at, !.position = p]
    OBVIOUS
  <2>2. DriveCurrent(q)
    BY <2>1, SentinelAssumption DEF DriveCurrent, Idle
  <2> QED BY <1>1, <2>1, <2>2, DriveRemember DEF StartShiftRead
<1>2. ASSUME NEW cmd \in {"endShift", "startBreak", "endBreak", "changePosition", "beginDriving"},
             NEW w \in Worker, NEW at, NEW p, NEW v, cmd = "beginDriving" => v \in Vehicle,
             RequireOpenShift(r, cmd, w, at, p, v)
      PROVE  DriveInv'
  <2>1. PICK i \in OpenShiftsOf(shifts, w) :
          Remember(r, [Idle EXCEPT !.cmd = cmd, !.phase = "shiftRead", !.worker = w,
                                   !.at = at, !.position = p, !.vehicle = v, !.shift = i])
    BY <1>2 DEF RequireOpenShift
  <2>2. PICK q : q = [Idle EXCEPT !.cmd = cmd, !.phase = "shiftRead", !.worker = w,
                                  !.at = at, !.position = p, !.vehicle = v, !.shift = i]
    OBVIOUS
  <2>3. /\ q.cmd = cmd /\ q.worker = w /\ q.vehicle = v /\ q.phase = "shiftRead"
        /\ q.trip = 0 /\ q.plan = "NONE"
    BY <2>2 DEF Idle
  <2>4. DriveCurrent(q)
    BY <1>2, <2>3, SentinelAssumption DEF DriveCurrent
  <2> QED BY <2>1, <2>2, <2>4, DriveRemember
<1>3. ASSUME NEW i \in ShiftId, ListOverrunning(r, i)
      PROVE  DriveInv'
  <2>1. PICK q : q = [Idle EXCEPT !.cmd = "autoClose", !.phase = "shiftRead", !.shift = i,
                                  !.worker = shifts[i].worker,
                                  !.at = shifts[i].start + MaxShiftDuration]
    OBVIOUS
  <2>2. q.cmd = "autoClose" /\ q.worker = shifts[i].worker /\ q.trip = 0
    BY <2>1 DEF Idle
  <2>3. shifts[i].worker # Nobody
    BY <1>3 DEF ListOverrunning, IsOpen, DriveInv, ShiftsOwned
  <2>4. DriveCurrent(q)
    BY <2>2, <2>3 DEF DriveCurrent
  <2> QED BY <1>3, <2>1, <2>4, DriveRemember DEF ListOverrunning
<1>4. ASSUME NEW s \in SessionId, NEW at, EndTripRead(r, s, at)
      PROVE  DriveInv'
  <2>1. PICK q : q = [Idle EXCEPT !.cmd = "endTrip", !.phase = "write", !.at = at,
                                  !.worker = SessionWorker(shifts, sessions, s),
                                  !.vehicle = trips[s].vehicle, !.session = s, !.trip = s]
    OBVIOUS
  <2>2. /\ q.cmd = "endTrip" /\ q.phase = "write" /\ q.trip = s
        /\ q.worker = SessionWorker(shifts, sessions, s)
    BY <2>1 DEF Idle
  <2>3. trips[s].status = "ACTIVE" /\ q.worker \in Worker
    BY <1>4, <2>2, DriverIsWorker DEF EndTripRead, DriveInv
  <2>4. s \in ActiveTripsOf(shifts, sessions, trips, q.worker)
    BY <2>2, <2>3 DEF ActiveTripsOf, IInv, TypeOK
  <2>5. DriveCurrent(q)
    BY <2>2, <2>3, <2>4, SentinelAssumption, SessionIdPositive DEF DriveCurrent
  <2> QED BY <1>4, <2>1, <2>5, DriveRemember DEF EndTripRead
<1>5. ASSUME NEW s, NEW t, NEW u, CorrectRead(r, s, t, u)
      PROVE  DriveInv'
  <2>1. PICK q : q = [Idle EXCEPT !.cmd = "correct", !.phase = "write", !.session = s,
                                  !.at = t, !.until = u]
    OBVIOUS
  <2>2. q.cmd = "correct" /\ q.trip = 0
    BY <2>1 DEF Idle
  <2>3. DriveCurrent(q)
    BY <2>2 DEF DriveCurrent, OnShift
  <2> QED BY <1>5, <2>1, <2>3, DriveRemember DEF CorrectRead
<1> QED BY <1>1, <1>2, <1>3, <1>4, <1>5

(* The trip a command finds on the session open on its shift is its worker's.   *)
LEMMA FoundTrip ==
  ASSUME IInv, NEW q \in RequestState, RefersTo(q, shifts, sessions), q.cmd \in OnShift,
         NEW s, s = FindFirst(OpenOn(sessions, q.shift)), RunningTrip(s) # 0
  PROVE  RunningTrip(s) \in ActiveTripsOf(shifts, sessions, trips, q.worker)
<1>1. RunningTrip(s) = s /\ s # 0 /\ trips[s].status = "ACTIVE"
  BY DEF RunningTrip
<1>2. s \in OpenOn(sessions, q.shift)
  BY <1>1, FindFirstInIds DEF FindFirst
<1>3. s \in SessionId /\ sessions[s].shift = q.shift /\ q.shift # 0
  BY <1>2 DEF OpenOn, RefersTo, IInv, TypeOK
<1>4. SessionWorker(shifts, sessions, s) = q.worker
  BY <1>3 DEF SessionWorker, RefersTo
<1> QED BY <1>1, <1>3, <1>4 DEF ActiveTripsOf, IInv, TypeOK

LEMMA DriveReads ==
  ASSUME IInv, TypeOK', DriveInv, NEW r \in Request,
         \/ EndShiftRead(r) \/ StartBreakRead(r) \/ EndBreakRead(r)
         \/ PlanAssignment(r) \/ PlanPositionChange(r) \/ AutoCloseRead(r)
  PROVE  DriveInv'
<1> DEFINE q == req[r]
           s == FindFirst(OpenOn(sessions, q.shift))
           b == FindFirst(OpenOn(breaks, q.shift))
<1>1. q \in RequestState /\ RefersTo(q, shifts, sessions) /\ DriveCurrent(q)
  BY DEF IInv, TypeOK, RequestsRefer, DriveInv
<1>2. q.cmd \in OnShift /\ q.cmd # "endTrip"
  BY DEF EndShiftRead, StartBreakRead, EndBreakRead, PlanAssignment, PlanPositionChange,
         AutoCloseRead, OnShift
<1>3. RunningTrip(s) # 0 =>
        RunningTrip(s) \in ActiveTripsOf(shifts, sessions, trips, q.worker)
  BY <1>1, <1>2, FoundTrip
<1>4. ASSUME NEW v, v.cmd = q.cmd, v.worker = q.worker, v.vehicle = q.vehicle,
             v.trip \in {0, q.trip, RunningTrip(s)},
             \/ v.plan = q.plan
             \/ q.cmd = "beginDriving" /\ v.plan = "REUSE" => held[q.vehicle].driver = q.worker
      PROVE  DriveCurrent(v)
  <2> HIDE DEF q, s, b
  <2> QED BY <1>1, <1>2, <1>3, <1>4 DEF DriveCurrent
<1>5. CASE EndShiftRead(r)
  <2>1. PICK v : v = [q EXCEPT !.phase = "write", !.session = s, !.trip = RunningTrip(s), !.brk = b]
    OBVIOUS
  <2>2. Remember(r, v)
    BY <1>5, <2>1 DEF EndShiftRead
  <2> HIDE DEF q, s, b
  <2>3. /\ v.cmd = q.cmd /\ v.worker = q.worker /\ v.vehicle = q.vehicle /\ v.plan = q.plan
        /\ v.trip = RunningTrip(s)
    BY <1>1, <2>1 DEF RequestState
  <2> QED BY <1>4, <2>2, <2>3, DriveRemember
<1>6. CASE StartBreakRead(r) \/ EndBreakRead(r) \/ AutoCloseRead(r)
  <2>1. PICK v : /\ Remember(r, v)
                 /\ \/ v = [q EXCEPT !.phase = "write"]
                    \/ \E c : v = [q EXCEPT !.phase = "write", !.brk = c]
                    \/ v = [q EXCEPT !.phase = "write", !.session = s, !.brk = b]
    BY <1>6 DEF StartBreakRead, EndBreakRead, AutoCloseRead
  <2> HIDE DEF q, s, b
  <2>3. /\ v.cmd = q.cmd /\ v.worker = q.worker /\ v.vehicle = q.vehicle /\ v.plan = q.plan
        /\ v.trip = q.trip
    BY <1>1, <2>1 DEF RequestState
  <2> QED BY <1>4, <2>1, <2>3, DriveRemember
<1>7. CASE PlanAssignment(r)
  <2>1. PICK v : v = [q EXCEPT !.phase = "planned",
                               !.plan = IF held[q.vehicle].driver = q.worker
                                        THEN "REUSE" ELSE "CREATE"]
    OBVIOUS
  <2>2. Remember(r, v)
    BY <1>7, <2>1 DEF PlanAssignment
  <2> HIDE DEF q, s, b
  <2>3. /\ v.cmd = q.cmd /\ v.worker = q.worker /\ v.vehicle = q.vehicle /\ v.trip = q.trip
        /\ v.plan = "REUSE" => held[q.vehicle].driver = q.worker
    BY <1>1, <2>1 DEF RequestState
  <2> QED BY <1>4, <2>2, <2>3, DriveRemember
<1>8. CASE PlanPositionChange(r)
  <2>1. PICK v : v = [q EXCEPT !.phase = "write", !.session = s,
                               !.trip = IF q.cmd = "changePosition" THEN RunningTrip(s) ELSE 0]
    OBVIOUS
  <2>2. Remember(r, v)
    BY <1>8, <2>1 DEF PlanPositionChange
  <2> HIDE DEF q, s, b
  <2>3. /\ v.cmd = q.cmd /\ v.worker = q.worker /\ v.vehicle = q.vehicle /\ v.plan = q.plan
        /\ v.trip \in {0, RunningTrip(s)}
    BY <1>1, <2>1 DEF RequestState
  <2> QED BY <1>4, <2>2, <2>3, DriveRemember
<1> QED BY <1>5, <1>6, <1>7, <1>8

LEMMA ReleasesOwn ==
  ASSUME TypeOK, NEW w, NEW v, NEW u \in Vehicle
  PROVE  \/ ReleaseAutomatic(held, w, v)[u] = held[u]
         \/ held[u].driver = w
BY DEF ReleaseAutomatic, TypeOK

(* The writes that end a trip end the only one its driver has.                 *)
LEMMA TripEndDrives ==
  ASSUME IInv, IInv', DriveInv, OneAtATime, NEW r \in Request, NEW q \in RequestState,
         q = req[r], q.trip # 0, RowsKept, ShiftsOwned',
         trips' = CloseTrip(trips, q.trip, q.at),
         \/ held' = held
         \/ \E vehicle : held' = ReleaseAutomatic(held, q.worker, vehicle),
         NEW v, req' = [req EXCEPT ![r] = v],
         v = Idle \/ (v.cmd = "endTrip" /\ v.phase = "release" /\ v.trip = 0 /\ v.worker = q.worker)
  PROVE  DriveInv'
<1>1. TypeOK /\ TypeOK' /\ DriveCurrent(q)
  BY DEF IInv, DriveInv
<1>2. q.trip \in ActiveTripsOf(shifts, sessions, trips, q.worker)
  BY <1>1 DEF DriveCurrent
<1>3. /\ q.trip \in SessionId /\ trips[q.trip].status = "ACTIVE"
      /\ SessionWorker(shifts, sessions, q.trip) = q.worker
  BY <1>1, <1>2 DEF ActiveTripsOf, TypeOK
<1>4. q.worker \in Worker /\ q.worker # Nobody
  BY <1>3, DriverIsWorker, SentinelAssumption DEF DriveInv
<1>5. q.at \in Time
  BY DEF RequestState
<1>6. \A s \in SessionId : /\ s # q.trip => trips'[s] = trips[s]
                           /\ s = q.trip => trips'[s].status = "COMPLETED"
  BY <1>1, <1>3, <1>5, ClosedRows
<1>7. \A s \in SessionId : trips[s].status = "ACTIVE" =>
        SessionWorker(shifts, sessions, s)' = SessionWorker(shifts, sessions, s)
  BY SameDrivers DEF DriveInv
<1>8. \A s \in SessionId : trips'[s].status = "ACTIVE" =>
        /\ trips[s].status = "ACTIVE"
        /\ SessionWorker(shifts, sessions, s)' # q.worker
  BY <1>3, <1>6, <1>7 DEF IInv, NoDoubleBooking, OneTrip
<1>9. OthersDrive(q.worker)
  <2>1. \A s \in SessionId :
          \/ /\ trips'[s] = trips[s]
             /\ trips[s].status = "ACTIVE" =>
                  SessionWorker(shifts, sessions, s)' = SessionWorker(shifts, sessions, s)
          \/ /\ trips[s].status = "ACTIVE" => SessionWorker(shifts, sessions, s) = q.worker
             /\ trips'[s].status = "ACTIVE" => SessionWorker(shifts, sessions, s)' = q.worker
    BY <1>3, <1>6, <1>7
  <2>2. \A u \in Vehicle : held'[u] = held[u] \/ held[u].driver \in {Nobody, q.worker}
    BY <1>1, ReleasesOwn
  <2> QED BY <2>1, <2>2 DEF OthersDrive
<1>10. DriveCurrent(v)'
  <2>1. CASE v = Idle
    BY <2>1 DEF DriveCurrent, Idle, OnShift
  <2>2. CASE v # Idle
    <3>1. ActiveTripsOf(shifts, sessions, trips, v.worker)' = {}
      BY <1>1, <1>8, <2>2 DEF ActiveTripsOf, TypeOK
    <3> QED BY <1>4, <2>2, <3>1 DEF DriveCurrent
  <2> QED BY <2>1, <2>2
<1>11. \A s \in SessionId :
         trips'[s].status = "ACTIVE" /\ SessionWorker(shifts, sessions, s)' = q.worker =>
           trips'[s].vehicle \in Vehicle /\ held'[trips'[s].vehicle].driver = q.worker
  BY <1>8
<1>12. req[r].worker = q.worker
  OBVIOUS
<1> QED BY <1>4, <1>9, <1>10, <1>11, <1>12, DriveWrite

LEMMA PortalDrives ==
  ASSUME IInv, IInv', DriveInv, OneAtATime, NEW r \in Request,
         EndTripWrite(r) \/ ReleaseVehicle(r)
  PROVE  DriveInv'
<1>1. PICK q \in RequestState : q = req[r]
  BY DEF IInv, TypeOK
<1>2. /\ TypeOK /\ TypeOK' /\ DriveCurrent(q) /\ UNCHANGED <<shifts, sessions>>
      /\ q.cmd = "endTrip"
  BY <1>1 DEF IInv, DriveInv, EndTripWrite, ReleaseVehicle, Writing
<1>3. RowsKept /\ ShiftsOwned'
  BY <1>2 DEF RowsKept, DriveInv, ShiftsOwned
<1>4. CASE EndTripWrite(r)
  <2>1. PICK v : v = [q EXCEPT !.phase = "release", !.trip = 0]
    OBVIOUS
  <2>2. /\ trips' = CloseTrip(trips, q.trip, q.at) /\ held' = held
        /\ req' = [req EXCEPT ![r] = v]
    BY <1>1, <1>4, <2>1 DEF EndTripWrite
  <2>3. v.cmd = "endTrip" /\ v.phase = "release" /\ v.trip = 0 /\ v.worker = q.worker
    BY <1>2, <2>1 DEF RequestState
  <2>4. q.trip # 0
    BY <1>1, <1>2, <1>4 DEF DriveCurrent, EndTripWrite, Writing
  <2> QED BY <1>1, <1>3, <2>2, <2>3, <2>4, TripEndDrives
<1>5. CASE ReleaseVehicle(r)
  <2>1. /\ q.phase = "release" /\ UNCHANGED trips
        /\ held' = ReleaseAutomatic(held, q.worker, q.vehicle)
        /\ req' = [req EXCEPT ![r] = Idle]
    BY <1>1, <1>5 DEF ReleaseVehicle, Finish
  <2>2. ActiveTripsOf(shifts, sessions, trips, q.worker) = {} /\ q.worker \in Worker
    BY <1>2, <2>1 DEF DriveCurrent, RequestState
  <2>3. \A s \in SessionId : SessionWorker(shifts, sessions, s)' = SessionWorker(shifts, sessions, s)
    BY <1>2 DEF SessionWorker
  <2>4. OthersDrive(q.worker)
    <3>1. \A u \in Vehicle : held'[u] = held[u] \/ held[u].driver \in {Nobody, q.worker}
      BY <1>2, <2>1, ReleasesOwn
    <3> QED BY <2>1, <2>3, <3>1 DEF OthersDrive
  <2>5. \A s \in SessionId :
          ~ (trips'[s].status = "ACTIVE" /\ SessionWorker(shifts, sessions, s)' = q.worker)
    BY <1>2, <2>1, <2>2, <2>3 DEF ActiveTripsOf, TypeOK
  <2>6. DriveCurrent(Idle)'
    BY DEF DriveCurrent, Idle, OnShift
  <2>7. req[r].worker = q.worker
    BY <1>1
  <2> QED BY <1>3, <2>1, <2>2, <2>4, <2>5, <2>6, <2>7, DriveWrite
<1> QED BY <1>4, <1>5

LEMMA CloseWritesDrive ==
  ASSUME IInv, IInv', DriveInv, OneAtATime, NEW r \in Request,
         EndShiftWrite(r) \/ AutoCloseWrite(r)
  PROVE  DriveInv'
<1>1. PICK q \in RequestState : q = req[r]
  BY DEF IInv, TypeOK
<1>2. /\ TypeOK /\ TypeOK' /\ DriveCurrent(q) /\ RefersTo(q, shifts, sessions)
      /\ q.cmd \in OnShift /\ q.worker # Nobody
  BY <1>1 DEF IInv, DriveInv, EndShiftWrite, AutoCloseWrite, Writing, OnShift, RequestsRefer,
              DriveCurrent
<1>3. /\ sessions' = CloseSession(sessions, q.session, q.at)
      /\ shifts' = CloseShift(shifts, q.shift, q.at)
      /\ req' = [req EXCEPT ![r] = Idle]
      /\ EndDriving(q) \/ UNCHANGED <<trips, held>>
  BY <1>1 DEF EndShiftWrite, AutoCloseWrite, Finish
<1>4. q.at \in Time /\ q.session \in SessionId \cup {0} /\ q.shift \in ShiftId
  BY <1>2 DEF RequestState, RefersTo
<1>5. \A i \in ShiftId : shifts'[i].worker = shifts[i].worker
                         /\ shifts'[i].status \in {shifts[i].status, "COMPLETED"}
  BY <1>2, <1>3, <1>4, ClosedRows
<1>6. \A s \in SessionId : sessions'[s].shift = sessions[s].shift
  BY <1>2, <1>3, <1>4, ClosedRows
<1>7. RowsKept
  BY <1>5, <1>6 DEF RowsKept
<1>8. ShiftsOwned'
  <2>1. shifts[q.shift].worker # Nobody
    BY <1>2 DEF RefersTo
  <2>2. \A i \in ShiftId \ {q.shift} : shifts'[i] = shifts[i]
    BY <1>2, <1>3, <1>4 DEF CloseShift, TypeOK
  <2> QED BY <1>5, <2>1, <2>2 DEF ShiftsOwned, DriveInv
<1>9. CASE UNCHANGED <<trips, held>>
  BY <1>2, <1>3, <1>7, <1>8, <1>9, IdleDrives, DriveUntouched
<1>10. CASE EndDriving(q) /\ q.trip # 0
  BY <1>1, <1>3, <1>7, <1>8, <1>10, TripEndDrives DEF EndDriving
<1> QED BY <1>3, <1>9, <1>10 DEF EndDriving

LEMMA MovesDrive ==
  ASSUME IInv, IInv', DriveInv, OneAtATime, NEW r \in Request,
         ChangePositionWrite(r) \/ BeginDrivingWrite(r)
  PROVE  DriveInv'
<1>1. PICK q \in RequestState : q = req[r]
  BY DEF IInv, TypeOK
<1>2. /\ TypeOK /\ TypeOK' /\ DriveCurrent(q) /\ RefersTo(q, shifts, sessions)
      /\ q.cmd \in OnShift /\ q.worker # Nobody
  BY <1>1 DEF IInv, DriveInv, ChangePositionWrite, BeginDrivingWrite, Writing, OnShift,
              RequestsRefer, DriveCurrent
<1>3. PICK s \in NewRowIds(sessions) :
        /\ MoveTo(q, s)
        /\ BeginDrivingWrite(r) =>
             /\ TripIndexAllows(shifts, sessions, trips, q.worker, q.vehicle)
             /\ trips' = [trips EXCEPT ![s] = [status |-> "ACTIVE", vehicle |-> q.vehicle,
                                               start |-> q.at, end |-> Null]]
  <2>1. CASE BeginDrivingWrite(r)
    BY <1>1, <2>1 DEF BeginDrivingWrite
  <2>2. CASE ~BeginDrivingWrite(r)
    BY <1>1, <2>2 DEF ChangePositionWrite
  <2> QED BY <2>1, <2>2
<1>4. UNCHANGED shifts /\ req' = [req EXCEPT ![r] = Idle]
  BY DEF ChangePositionWrite, BeginDrivingWrite, Finish
<1>5. /\ s \in SessionId /\ sessions[s].shift = 0 /\ sessions'[s].shift = q.shift
      /\ \A t \in SessionId \ {s} : sessions'[t].shift = sessions[t].shift
  BY <1>2, <1>3, MovedRows DEF RefersTo
<1>6. RowsKept /\ ShiftsOwned'
  BY <1>4, <1>5 DEF RowsKept, DriveInv, ShiftsOwned
<1>7. CASE ChangePositionWrite(r)
  <2>1. EndDriving(q)
    BY <1>1, <1>7 DEF ChangePositionWrite
  <2>2. CASE q.trip = 0
    <3>1. UNCHANGED <<trips, held>>
      BY <2>1, <2>2 DEF EndDriving
    <3> QED BY <1>2, <1>4, <1>6, <3>1, IdleDrives, DriveUntouched
  <2>3. CASE q.trip # 0
    BY <1>1, <1>4, <1>6, <2>1, <2>3, TripEndDrives DEF EndDriving
  <2> QED BY <2>2, <2>3
<1>8. CASE BeginDrivingWrite(r)
  <2>1. /\ q.cmd = "beginDriving" /\ q.vehicle \in Vehicle /\ q.worker \in Worker
        /\ q.plan = "REUSE" => held[q.vehicle].driver = q.worker
    BY <1>1, <1>2, <1>8 DEF BeginDrivingWrite, Writing, DriveCurrent, RequestState
  <2>2. /\ trips[s].status = "NONE"
        /\ trips'[s].status = "ACTIVE" /\ trips'[s].vehicle = q.vehicle
        /\ \A t \in SessionId \ {s} : trips'[t] = trips[t]
    BY <1>2, <1>3, <1>5, <1>8 DEF TypeOK, IInv, RowsRefer
  <2>3. SessionWorker(shifts, sessions, s)' = q.worker
    BY <1>2, <1>4, <1>5 DEF SessionWorker, RefersTo
  <2>4. \A t \in SessionId : trips[t].status = "ACTIVE" =>
          /\ SessionWorker(shifts, sessions, t) # q.worker
          /\ SessionWorker(shifts, sessions, t)' = SessionWorker(shifts, sessions, t)
    BY <1>2, <1>3, <1>6, <1>8, SameDrivers DEF DriveInv, TripIndexAllows, ActiveTripsOf, TypeOK
  <2>5. /\ held'[q.vehicle].driver = q.worker
        /\ \A u \in Vehicle : held'[u] = held[u] \/ held[u].driver = Nobody
    <3>1. CASE q.plan = "REUSE" /\ UNCHANGED held
      BY <2>1, <3>1
    <3>2. CASE /\ AssignmentIndexAllows(held, q.worker, q.vehicle)
               /\ held' = [held EXCEPT ![q.vehicle] = [driver |-> q.worker, isAutomatic |-> TRUE]]
      <4>1. held[q.vehicle].driver = Nobody
        BY <3>2 DEF AssignmentIndexAllows, Free
      <4>2. \A u \in Vehicle \ {q.vehicle} : held'[u] = held[u]
        BY <1>2, <2>1, <3>2 DEF TypeOK
      <4>3. held'[q.vehicle].driver = q.worker
        BY <1>2, <2>1, <3>2 DEF TypeOK
      <4> QED BY <4>1, <4>2, <4>3
    <3> QED BY <1>1, <1>8, <3>1, <3>2 DEF BeginDrivingWrite
  <2>6. OthersDrive(q.worker)
    <3>1. \A t \in SessionId :
            \/ /\ trips'[t] = trips[t]
               /\ trips[t].status = "ACTIVE" =>
                    SessionWorker(shifts, sessions, t)' = SessionWorker(shifts, sessions, t)
            \/ /\ trips[t].status = "ACTIVE" => SessionWorker(shifts, sessions, t) = q.worker
               /\ trips'[t].status = "ACTIVE" => SessionWorker(shifts, sessions, t)' = q.worker
      BY <2>2, <2>3, <2>4
    <3> QED BY <2>5, <3>1 DEF OthersDrive
  <2>7. \A t \in SessionId :
          trips'[t].status = "ACTIVE" /\ SessionWorker(shifts, sessions, t)' = q.worker =>
            trips'[t].vehicle \in Vehicle /\ held'[trips'[t].vehicle].driver = q.worker
    BY <2>1, <2>2, <2>4, <2>5
  <2>8. DriveCurrent(Idle)'
    BY DEF DriveCurrent, Idle, OnShift
  <2>9. req[r].worker = q.worker
    BY <1>1
  <2> QED BY <1>4, <1>6, <2>1, <2>6, <2>7, <2>8, <2>9, DriveWrite
<1> QED BY <1>7, <1>8

LEMMA RowWritesDrive ==
  ASSUME IInv, TypeOK', DriveInv, NEW r \in Request,
         StartShiftWrite(r) \/ StartBreakWrite(r) \/ EndBreakWrite(r) \/ CorrectWrite(r)
  PROVE  DriveInv'
<1>1. PICK q \in RequestState : q = req[r]
  BY DEF IInv, TypeOK
<1>2. TypeOK /\ DriveCurrent(q) /\ RefersTo(q, shifts, sessions)
  BY <1>1 DEF IInv, DriveInv, RequestsRefer
<1>3. UNCHANGED <<trips, held>> /\ req' = [req EXCEPT ![r] = Idle]
  BY DEF StartShiftWrite, StartBreakWrite, EndBreakWrite, CorrectWrite, Finish
<1>4. CASE StartShiftWrite(r)
  <2>1. PICK i \in NewShiftIds(shifts) :
          /\ shifts' = [shifts EXCEPT ![i] = [worker |-> q.worker, status |-> "ACTIVE",
                                              start |-> q.at, end |-> Null]]
          /\ \/ UNCHANGED sessions
             \/ \E s \in NewRowIds(sessions) : sessions' = OpenSession(sessions, s, i, q.position, q.at)
    BY <1>1, <1>4 DEF StartShiftWrite
  <2>2. i \in ShiftId /\ shifts[i].status = "NONE" /\ q.worker # Nobody
    BY <1>1, <1>2, <1>4, NewIdsTyped DEF StartShiftWrite, Writing, DriveCurrent
  <2>3. /\ shifts'[i].worker = q.worker
        /\ \A j \in ShiftId \ {i} : shifts'[j] = shifts[j]
    BY <1>2, <2>1, <2>2 DEF TypeOK
  <2>4. \A s \in SessionId : sessions[s].shift # 0 => sessions'[s].shift = sessions[s].shift
    BY <1>2, <2>1, NewIdsTyped DEF OpenSession, TypeOK
  <2>5. RowsKept /\ ShiftsOwned'
    BY <2>2, <2>3, <2>4 DEF RowsKept, ShiftsOwned, DriveInv
  <2> QED BY <1>3, <2>5, IdleDrives, DriveUntouched
<1>5. CASE StartBreakWrite(r) \/ EndBreakWrite(r)
  <2>1. PICK status \in {"ACTIVE", "ON_BREAK"} :
          UNCHANGED sessions /\ shifts' = [shifts EXCEPT ![q.shift].status = status]
    BY <1>1, <1>5 DEF StartBreakWrite, EndBreakWrite
  <2>2. /\ q.shift \in ShiftId /\ shifts[q.shift].worker # Nobody
        /\ shifts[q.shift].status # "NONE"
    BY <1>1, <1>2, <1>5 DEF StartBreakWrite, EndBreakWrite, Writing, RefersTo, RequestState,
                            DriveCurrent, OnShift
  <2>3. \A i \in ShiftId : /\ shifts'[i].worker = shifts[i].worker
                           /\ i # q.shift => shifts'[i] = shifts[i]
                           /\ i = q.shift => shifts'[i].status = status
    BY <1>2, <2>1, <2>2 DEF TypeOK, ShiftRow
  <2>4. RowsKept /\ ShiftsOwned'
    BY <2>1, <2>2, <2>3 DEF RowsKept, ShiftsOwned, DriveInv
  <2> QED BY <1>3, <2>4, IdleDrives, DriveUntouched
<1>6. CASE CorrectWrite(r)
  <2>1. UNCHANGED shifts
        /\ sessions' = [sessions EXCEPT ![q.session].start = q.at, ![q.session].end = q.until]
    BY <1>1, <1>6 DEF CorrectWrite
  <2>2. \A s \in SessionId : sessions'[s].shift = sessions[s].shift
    BY <1>2, <2>1 DEF TypeOK, SessionRow
  <2>3. RowsKept /\ ShiftsOwned'
    BY <2>1, <2>2 DEF RowsKept, ShiftsOwned, DriveInv
  <2> QED BY <1>3, <2>3, IdleDrives, DriveUntouched
<1> QED BY <1>4, <1>5, <1>6

LEMMA DriveStep == IInv /\ DriveInv /\ OneAtATime /\ [Next]_vars => DriveInv'
<1> SUFFICES ASSUME IInv, DriveInv, OneAtATime, [Next]_vars PROVE DriveInv'
  OBVIOUS
<1>1. IInv' /\ TypeOK'
  BY InvStep DEF IInv
<1>2. CASE Tick \/ UNCHANGED vars
  <2>1. UNCHANGED <<shifts, sessions, trips, held, req>>
    BY <1>2 DEF Tick, vars, tables
  <2> QED BY <2>1 DEF DriveInv, ShiftsOwned, DrivenVehicleHeld, DriveCurrent, SessionWorker,
                      ActiveTripsOf
<1>3. ASSUME NEW r \in Device, WorkerRequest(r) PROVE DriveInv'
  <2>1. r \in Request
    BY DEF Request
  <2>2. PICK w \in Worker, at \in OccurredAt :
          \/ \E p \in Position \cup {Nowhere} : StartShiftRead(r, w, at, p)
          \/ \E cmd \in {"endShift", "startBreak", "endBreak"} :
               RequireOpenShift(r, cmd, w, at, Nowhere, NoVehicle)
          \/ \E p \in Position : RequireOpenShift(r, "changePosition", w, at, p, NoVehicle)
          \/ \E p \in Position, v \in Vehicle : RequireOpenShift(r, "beginDriving", w, at, p, v)
    BY <1>3 DEF WorkerRequest
  <2>3. at \in Time
    BY ReconciledInTime DEF IInv, TypeOK
  <2> QED BY <1>1, <2>1, <2>2, <2>3, DriveStarts
<1>4. ASSUME NEW r \in Device, PortalRequest(r) PROVE DriveInv'
  BY <1>1, <1>4, DriveStarts DEF PortalRequest, Request
<1>5. ASSUME NEW r \in Office, Supervision(r) PROVE DriveInv'
  BY <1>1, <1>5, DriveStarts DEF Supervision, Request
<1>6. ASSUME NEW r \in Request, Abort(r) PROVE DriveInv'
  BY <1>1, <1>6, IdleDrives, DriveRemember DEF Abort
<1>7. ASSUME NEW r \in Request, Continue(r) PROVE DriveInv'
  BY <1>1, <1>7, DriveReads, PortalDrives, CloseWritesDrive, MovesDrive, RowWritesDrive
     DEF Continue
<1> QED BY <1>2, <1>3, <1>4, <1>5, <1>6, <1>7 DEF Next

LEMMA DriveInit == Init => DriveInv
<1> SUFFICES ASSUME Init PROVE DriveInv
  OBVIOUS
<1>1. /\ \A i \in ShiftId : shifts[i].status = "NONE"
      /\ \A s \in SessionId : trips[s].status = "NONE"
      /\ \A r \in Request : req[r] = Idle
  BY DEF Init, NoShift, NoTrip
<1> QED BY <1>1, IdleDrives DEF DriveInv, ShiftsOwned, DrivenVehicleHeld

(* Whatever the fleet office assigned before, and whoever else hands over or      *)
(* returns a vehicle meanwhile, a driver with one request in flight at a time     *)
(* drives a vehicle that is assigned to him.                                   *)
THEOREM DriversHoldTheirVehicle == Spec /\ []OneAtATime => []DrivenVehicleHeld
<1>1. IInv /\ DriveInv /\ OneAtATime /\ [Next]_vars => DriveInv'
  BY DriveStep
<1>2. DriveInv => DrivenVehicleHeld
  BY DEF DriveInv
<1> QED BY <1>1, <1>2, DriveInit, Inductive, PTL DEF Spec
=============================================================================
