------------------------------- MODULE Portal -------------------------------
(***************************************************************************)
(* The routes of the worker and the driver portal, which compose the shift,  *)
(* driving, trip, tracking and session services.  Each service call is a      *)
(* transaction of its own, so a request is a sequence of committed steps, and  *)
(* it may fail or its process may die between any two of them.                *)
(*                                                                         *)
(* Abstractions.  A worker serves one request at a time (the portals disable   *)
(* their buttons meanwhile) and is signed in on one device; several devices   *)
(* are the subject of ShiftCommands, Accounts and TrackingSessions.  A         *)
(* command's transaction is one step, as those modules justify.  The claim,     *)
(* the stored answer and the release of idempotent() are IdempotencyLedger.    *)
(* Breaks touch the shift alone and are left out.  Every worker has an active   *)
(* driver profile.  A position is the floor or driving.                       *)
(***************************************************************************)
EXTENDS Integers, FiniteSets

CONSTANTS
  Worker,
  DoorDriver,     \* those also signed in at the driver door
  Vehicle,        \* vehicles in status ACTIVE
  Nobody, NoVehicle,
  MaxShifts, MaxTrips, MaxSessions,  \* rows ever inserted
  MaxReading,     \* odometer readings
  MaxRequests,    \* requests ever served
  MaxFaults       \* requests lost to an error or a crash

ASSUME PortalAssumption ==
  /\ DoorDriver \subseteq Worker
  /\ Nobody \notin Worker /\ NoVehicle \notin Vehicle
  /\ MaxShifts \in Nat /\ MaxTrips \in Nat /\ MaxSessions \in Nat
  /\ MaxReading \in Nat /\ MaxRequests \in Nat /\ MaxFaults \in Nat

ShiftId == 1..MaxShifts
TripId == 1..MaxTrips
SessionId == 1..MaxSessions
Reading == 0..MaxReading

VARIABLES
  day,       \* each worker's open shift, where he stands, the trip opened with that position
  trips,     \* driver_trips
  held,      \* open vehicle_assignments
  odometer,  \* vehicles.odometerCurrent
  tsession,  \* tracking_sessions
  elevated,  \* workers whose session carries the driving context
  run,       \* the request each worker is having served
  served, faults   \* counters

tables == <<day, trips, held, odometer, tsession, elevated>>
vars == <<tables, run, served, faults>>

Day == [shift: ShiftId \cup {0}, at: {"off", "floor", "driving"}, trip: TripId \cup {0}]
OffDuty == [shift |-> 0, at |-> "off", trip |-> 0]

Trip == [status: {"NONE", "ACTIVE", "COMPLETED"}, driver: Worker \cup {Nobody},
         vehicle: Vehicle \cup {NoVehicle}]
NoTrip == [status |-> "NONE", driver |-> Nobody, vehicle |-> NoVehicle]

Assignment == [driver: Worker \cup {Nobody}, isAutomatic: BOOLEAN]
Free == [driver |-> Nobody, isAutomatic |-> FALSE]

TrackingSession ==
  [context: {"NONE", "WORK", "DRIVER_TRIP"}, owner: Worker \cup {Nobody},
   shift: ShiftId \cup {0}, trip: TripId \cup {0}, open: BOOLEAN]
NotOpened == [context |-> "NONE", owner |-> Nobody, shift |-> 0, trip |-> 0, open |-> FALSE]

Command == {"none", "startShift", "endShift", "changePosition", "beginDriving",
            "startTrip", "endTrip"}
Step == {"idle", "command", "claimVehicle", "createTrip", "openWork", "findWork",
         "elevate", "strip", "attach", "openTrip", "readOdometer", "writeOdometer",
         "release", "detach", "closeSession"}
Run == [cmd: Command, step: Step, vehicle: Vehicle \cup {NoVehicle},
        shift: ShiftId \cup {0}, trip: TripId \cup {0}, session: SessionId \cup {0},
        ended: BOOLEAN,          \* result.endedDriving
        reading: Reading]        \* body.endOdometer, 0 when absent
Idle == [cmd |-> "none", step |-> "idle", vehicle |-> NoVehicle, shift |-> 0,
         trip |-> 0, session |-> 0, ended |-> FALSE, reading |-> 0]

TypeOK ==
  /\ day \in [Worker -> Day]
  /\ trips \in [TripId -> Trip]
  /\ held \in [Vehicle -> Assignment]
  /\ odometer \in [Vehicle -> Reading]
  /\ tsession \in [SessionId -> TrackingSession]
  /\ elevated \subseteq Worker
  /\ run \in [Worker -> Run]
  /\ served \in 0..MaxRequests /\ faults \in 0..MaxFaults

Init ==
  /\ day = [w \in Worker |-> OffDuty]
  /\ trips = [t \in TripId |-> NoTrip]
  /\ held \in [Vehicle -> {Free} \cup {[driver |-> w, isAutomatic |-> FALSE] : w \in Worker}]
  /\ \A u, v \in Vehicle : held[u].driver = held[v].driver /\ u # v => held[u] = Free
  /\ odometer = [v \in Vehicle |-> 0]
  /\ tsession = [k \in SessionId |-> NotOpened]
  /\ elevated = {}
  /\ run = [w \in Worker |-> Idle]
  /\ served = 0 /\ faults = 0
---------------------------------------------------------------------------
(* Reads.                                                                    *)

Unused(table, none) ==
  {i \in DOMAIN table : \A j \in DOMAIN table : table[j] = none <=> j >= i}

UsedShifts == {day[w].shift : w \in Worker} \cup {tsession[k].shift : k \in SessionId}

OpenWorkOf(w) ==
  {k \in SessionId : tsession[k].open /\ tsession[k].context = "WORK" /\ tsession[k].owner = w}
OpenTripSessionOf(w) ==
  {k \in SessionId :
     tsession[k].open /\ tsession[k].context = "DRIVER_TRIP" /\ tsession[k].owner = w}

OpenTripsOf(w) == {t \in TripId : trips[t].status = "ACTIVE" /\ trips[t].driver = w}
OnTheRoad(v) == \E t \in TripId : trips[t].status = "ACTIVE" /\ trips[t].vehicle = v

AssignedTo(w) == {v \in Vehicle : held[v].driver = w}

FindFirst(ids) == IF ids = {} THEN 0 ELSE CHOOSE i \in ids : TRUE

MutFindTripSession(w, t) == FindFirst(OpenWorkOf(w) \cup {k \in SessionId : tsession[k].trip = t})

\* sessions.findByTripId
FindTripSession(w, t) == FindFirst({k \in SessionId : tsession[k].trip = t})

MutFindWorkSession(w, shift) == FindFirst({k \in OpenWorkOf(w) : tsession[k].shift = shift})

\* closeSessionForShift looks by worker, so it also finds a session an earlier shift left.
FindWorkSession(w, shift) == FindFirst(OpenWorkOf(w))

\* Where the worker's device may report: resolveSession and the two /state routes.  The
\* working day comes first; a trip's own session needs a driver context.
ResolveSession(w) ==
  IF OpenWorkOf(w) # {} THEN FindFirst(OpenWorkOf(w))
  ELSE IF w \in elevated \cup DoorDriver THEN FindFirst(OpenTripSessionOf(w))
  ELSE 0
---------------------------------------------------------------------------
(* Moving a request along.                                                   *)

Go(w, q) == run' = [run EXCEPT ![w] = q] /\ UNCHANGED <<served, faults>>
Goto(w, step) == Go(w, [run[w] EXCEPT !.step = step])
Done(w) == Go(w, Idle)
At(w, cmd, step) == run[w].cmd = cmd /\ run[w].step = step

\* requireActorType WORKER admits every worker; requireDriverContext needs the elevation
\* or a session of the driver door.
MayAsk(w, cmd) == cmd \in {"startTrip", "endTrip"} => w \in elevated \cup DoorDriver

Ask(w, q) ==
  /\ run[w] = Idle
  /\ served < MaxRequests
  /\ MayAsk(w, q.cmd)
  /\ run' = [run EXCEPT ![w] = q]
  /\ served' = served + 1
  /\ UNCHANGED <<tables, faults>>

WorkerRequest(w) ==
  \/ \E cmd \in {"startShift", "endShift", "changePosition"} :
       Ask(w, [Idle EXCEPT !.cmd = cmd, !.step = "command"])
  \/ \E v \in Vehicle : Ask(w, [Idle EXCEPT !.cmd = "beginDriving", !.step = "command",
                                            !.vehicle = v])

DriverRequest(w) ==
  \/ \E v \in Vehicle \cup {NoVehicle} :
       Ask(w, [Idle EXCEPT !.cmd = "startTrip", !.step = "command", !.vehicle = v])
  \/ \E t \in TripId, reading \in Reading :
       Ask(w, [Idle EXCEPT !.cmd = "endTrip", !.step = "command", !.trip = t,
                           !.reading = reading])
---------------------------------------------------------------------------
(* What a step requires of the rows it reads and writes; a step that may not  *)
(* be taken answers with an error (Refuse).                                   *)

MayPlan(w, v) ==
  /\ held[v].driver \in {Nobody, w}
  /\ AssignedTo(w) \subseteq {v}

MayRun(w, v) == OpenTripsOf(w) = {} /\ ~OnTheRoad(v)

Allowed(w) ==
  LET q == run[w] IN
  CASE q.step = "command" /\ q.cmd = "startShift" -> day[w].shift = 0
    [] q.step = "command" /\ q.cmd \in {"endShift", "changePosition"} ->
         /\ day[w].shift # 0
         /\ q.cmd = "changePosition" => day[w].at # "floor"
    [] q.step = "command" /\ q.cmd = "beginDriving" ->
         /\ day[w].at = "floor"
         /\ MayPlan(w, q.vehicle) /\ MayRun(w, q.vehicle)
    [] q.step = "command" /\ q.cmd = "startTrip" ->
         AssignedTo(w) = {} => q.vehicle # NoVehicle /\ OpenTripsOf(w) = {}
    [] q.step = "command" /\ q.cmd = "endTrip" -> q.trip \in OpenTripsOf(w)
    [] q.step = "claimVehicle" -> MayPlan(w, q.vehicle)
    [] q.step = "createTrip" -> MayRun(w, q.vehicle)
    [] q.step = "openWork" -> OpenWorkOf(w) = {}
    [] q.step = "openTrip" -> OpenTripSessionOf(w) = {}
    [] OTHER -> TRUE

Proceed(w, cmd, step) == At(w, cmd, step) /\ Allowed(w)

Refuse(w) ==
  /\ run[w].step # "idle"
  /\ ~Allowed(w)
  /\ Done(w)
  /\ UNCHANGED tables
---------------------------------------------------------------------------
(* POST /worker/shift/start                                                  *)

StartShift(w) ==
  /\ Proceed(w, "startShift", "command")
  /\ \E i \in ShiftId :
       /\ \A j \in UsedShifts : j < i
       /\ \A j \in 1..(i - 1) : \E k \in UsedShifts : k >= j
       /\ day' = [day EXCEPT ![w] = [shift |-> i, at |-> "floor", trip |-> 0]]
       /\ Go(w, [run[w] EXCEPT !.step = "openWork", !.shift = i])
  /\ UNCHANGED <<trips, held, odometer, tsession, elevated>>

OpenWork(w) ==
  /\ Proceed(w, "startShift", "openWork")
  /\ \E k \in Unused(tsession, NotOpened) :
       tsession' = [tsession EXCEPT ![k] =
         [context |-> "WORK", owner |-> w, shift |-> run[w].shift, trip |-> 0, open |-> TRUE]]
  /\ Done(w)
  /\ UNCHANGED <<day, trips, held, odometer, elevated>>
---------------------------------------------------------------------------
(* Leaving the driving position, by a move or by the end of the shift: the     *)
(* trip opened with the position ends in the same transaction if it still runs, *)
(* and only then is the driving context stripped afterwards.                  *)

RunningTrip(w) ==
  IF day[w].trip # 0 /\ trips[day[w].trip].status = "ACTIVE" THEN day[w].trip ELSE 0

ReleaseAutomatic(w, v) ==
  IF held[v] = [driver |-> w, isAutomatic |-> TRUE] THEN [held EXCEPT ![v] = Free] ELSE held

EndDriving(w) ==
  LET t == RunningTrip(w) IN
  IF t = 0 THEN UNCHANGED <<trips, held>>
  ELSE /\ trips' = [trips EXCEPT ![t].status = "COMPLETED"]
       /\ held' = ReleaseAutomatic(w, trips[t].vehicle)

EndShift(w) ==
  /\ Proceed(w, "endShift", "command")
  /\ EndDriving(w)
  /\ day' = [day EXCEPT ![w] = OffDuty]
  /\ Go(w, [run[w] EXCEPT !.step = "findWork", !.shift = day[w].shift,
                          !.ended = RunningTrip(w) # 0])
  /\ UNCHANGED <<odometer, tsession, elevated>>

AfterClose(q) == IF q.ended THEN [q EXCEPT !.step = "strip"] ELSE Idle

FindWork(w) ==
  LET k == FindWorkSession(w, run[w].shift) IN
  /\ Proceed(w, "endShift", "findWork")
  /\ Go(w, IF k # 0 THEN [run[w] EXCEPT !.step = "closeSession", !.session = k]
           ELSE AfterClose(run[w]))
  /\ UNCHANGED tables

(* closeSession, by endShift or by endTrip                                    *)
CloseSession(w) ==
  /\ run[w].step = "closeSession"
  /\ tsession' = [tsession EXCEPT ![run[w].session].open = FALSE]
  /\ Go(w, AfterClose(run[w]))
  /\ UNCHANGED <<day, trips, held, odometer, elevated>>

Strip(w) ==
  /\ run[w].step = "strip"
  /\ elevated' = elevated \ {w}
  /\ Done(w)
  /\ UNCHANGED <<day, trips, held, odometer, tsession>>

ChangePosition(w) ==
  /\ Proceed(w, "changePosition", "command")
  /\ EndDriving(w)
  /\ day' = [day EXCEPT ![w].at = "floor", ![w].trip = 0]
  /\ IF RunningTrip(w) # 0 THEN Goto(w, "strip") ELSE Done(w)
  /\ UNCHANGED <<odometer, tsession, elevated>>
---------------------------------------------------------------------------
(* POST /worker/driving/begin                                                *)

NewTrip(w, v, t) ==
  trips' = [trips EXCEPT ![t] = [status |-> "ACTIVE", driver |-> w, vehicle |-> v]]

Claimed(w, v) == [held EXCEPT ![v] = IF @ = Free THEN [driver |-> w, isAutomatic |-> TRUE] ELSE @]

BeginDriving(w) ==
  /\ Proceed(w, "beginDriving", "command")
  /\ \E t \in Unused(trips, NoTrip) :
       /\ NewTrip(w, run[w].vehicle, t)
       /\ day' = [day EXCEPT ![w].at = "driving", ![w].trip = t]
       /\ Go(w, [run[w] EXCEPT !.step = "elevate", !.trip = t])
  /\ held' = Claimed(w, run[w].vehicle)
  /\ UNCHANGED <<odometer, tsession, elevated>>

Elevate(w) ==
  /\ Proceed(w, "beginDriving", "elevate")
  /\ elevated' = elevated \cup {w}
  /\ Goto(w, "attach")
  /\ UNCHANGED <<day, trips, held, odometer, tsession>>

MutAttachAlone(w) ==
  /\ run[w].step = "attach"
  /\ Goto(w, "openTrip")
  /\ UNCHANGED tables

(* attachTrip, by beginDriving or by startTrip: the trip rides on the working  *)
(* day's session when there is one.                                          *)
Attach(w) ==
  /\ run[w].step = "attach"
  /\ IF OpenWorkOf(w) # {} THEN Done(w) ELSE Goto(w, "openTrip")
  /\ UNCHANGED tables

OpenTrip(w) ==
  /\ run[w].step = "openTrip" /\ Allowed(w)
  /\ \E k \in Unused(tsession, NotOpened) :
       tsession' = [tsession EXCEPT ![k] =
         [context |-> "DRIVER_TRIP", owner |-> w, shift |-> 0, trip |-> run[w].trip,
          open |-> TRUE]]
  /\ Done(w)
  /\ UNCHANGED <<day, trips, held, odometer, elevated>>
---------------------------------------------------------------------------
(* POST /driver/trip/start                                                   *)

CurrentVehicle(w) ==
  /\ Proceed(w, "startTrip", "command")
  /\ IF AssignedTo(w) # {}
       THEN \E v \in AssignedTo(w) :
              Go(w, [run[w] EXCEPT !.step = "createTrip", !.vehicle = v])
       ELSE Goto(w, "claimVehicle")
  /\ UNCHANGED tables

ClaimForTrip(w) ==
  /\ Proceed(w, "startTrip", "claimVehicle")
  /\ held' = Claimed(w, run[w].vehicle)
  /\ Goto(w, "createTrip")
  /\ UNCHANGED <<day, trips, odometer, tsession, elevated>>

CreateTrip(w) ==
  /\ Proceed(w, "startTrip", "createTrip")
  /\ \E t \in Unused(trips, NoTrip) :
       /\ NewTrip(w, run[w].vehicle, t)
       /\ Go(w, [run[w] EXCEPT !.step = "attach", !.trip = t])
  /\ UNCHANGED <<day, held, odometer, tsession, elevated>>
---------------------------------------------------------------------------
(* POST /driver/trip/:tripId/end                                             *)

EndTrip(w) ==
  LET t == run[w].trip IN
  /\ Proceed(w, "endTrip", "command")
  /\ trips' = [trips EXCEPT ![t].status = "COMPLETED"]
  /\ Go(w, [run[w] EXCEPT !.vehicle = trips[t].vehicle,
                          !.step = IF run[w].reading = 0 THEN "release" ELSE "readOdometer"])
  /\ UNCHANGED <<day, held, odometer, tsession, elevated>>

MutAnyReading(reading, current) == TRUE
MovesForward(reading, current) == reading > current

ReadOdometer(w) ==
  /\ Proceed(w, "endTrip", "readOdometer")
  /\ Goto(w, IF MovesForward(run[w].reading, odometer[run[w].vehicle])
             THEN "writeOdometer" ELSE "release")
  /\ UNCHANGED tables

WriteOdometer(w) ==
  /\ Proceed(w, "endTrip", "writeOdometer")
  /\ odometer' = [odometer EXCEPT ![run[w].vehicle] = run[w].reading]
  /\ Goto(w, "release")
  /\ UNCHANGED <<day, trips, held, tsession, elevated>>

MutReleaseForgotten(w) ==
  /\ Proceed(w, "endTrip", "release")
  /\ Goto(w, "detach")
  /\ UNCHANGED tables

Release(w) ==
  /\ Proceed(w, "endTrip", "release")
  /\ held' = ReleaseAutomatic(w, run[w].vehicle)
  /\ Goto(w, "detach")
  /\ UNCHANGED <<day, trips, odometer, tsession, elevated>>

Detach(w) ==
  LET k == FindTripSession(w, run[w].trip) IN
  /\ Proceed(w, "endTrip", "detach")
  /\ IF k # 0 /\ tsession[k].open
       THEN Go(w, [run[w] EXCEPT !.step = "closeSession", !.session = k])
       ELSE Done(w)
  /\ UNCHANGED tables
---------------------------------------------------------------------------
(* A service throws for a reason of its own, or the process dies: what was     *)
(* committed stays.  The claim is released or left in flight; either way no     *)
(* later step of the request is taken.                                       *)
Fault(w) ==
  /\ run[w].step # "idle"
  /\ faults < MaxFaults
  /\ faults' = faults + 1
  /\ run' = [run EXCEPT ![w] = Idle]
  /\ UNCHANGED <<tables, served>>

Serve(w) ==
  \/ Refuse(w)
  \/ StartShift(w) \/ OpenWork(w)
  \/ EndShift(w) \/ FindWork(w) \/ CloseSession(w) \/ Strip(w)
  \/ ChangePosition(w)
  \/ BeginDriving(w) \/ Elevate(w) \/ Attach(w) \/ OpenTrip(w)
  \/ CurrentVehicle(w) \/ ClaimForTrip(w) \/ CreateTrip(w)
  \/ EndTrip(w) \/ ReadOdometer(w) \/ WriteOdometer(w) \/ Release(w) \/ Detach(w)

Next == \E w \in Worker : WorkerRequest(w) \/ DriverRequest(w) \/ Serve(w) \/ Fault(w)

Spec == Init /\ [][Next]_vars
---------------------------------------------------------------------------
(* Properties.                                                               *)

Quiet(w) == run[w] = Idle
DrivingNow(w, v) == \E t \in OpenTripsOf(w) : trips[t].vehicle = v

(* Nothing is collected outside working time, and everything within it: once    *)
(* the worker's request is answered, and as long as nothing failed, his        *)
(* working-day session is open exactly while a shift is, and is that shift's,  *)
(* and a trip's own session is open only while the trip runs.                  *)
TrackingMatchesWork ==
  faults = 0 => \A w \in Worker : Quiet(w) =>
    /\ day[w].shift # 0 <=> OpenWorkOf(w) # {}
    /\ \A k \in OpenWorkOf(w) : tsession[k].shift = day[w].shift
    /\ \A k \in OpenTripSessionOf(w) : tsession[k].trip \in OpenTripsOf(w)

(* Option C: the end of a trip never stops the tracking of the working day.     *)
OnlyClockOutEndsTheDay ==
  [][\A k \in SessionId :
       tsession[k].context = "WORK" /\ tsession[k].open /\ ~tsession'[k].open =>
         run[tsession[k].owner].cmd = "endShift"]_vars

(* Recovery: a working-day session that a failed request left open is closed by  *)
(* the worker's next clock-out, whichever shift it was opened for.             *)
ClockOutStopsTracking ==
  [][\A w \in Worker :
       run[w].cmd = "endShift" /\ run[w].step # "command" /\ run'[w] = Idle /\ faults' = faults
         => {k \in SessionId : /\ tsession'[k].open /\ tsession'[k].owner = w
                               /\ tsession'[k].context = "WORK"} = {}]_vars

(* A vehicle taken for a trip is only held while it is genuinely out, and       *)
(* whoever drives a vehicle holds it.                                         *)
HeldWhileOut ==
  faults = 0 => \A w \in Worker : Quiet(w) =>
    \A v \in Vehicle :
      /\ held[v] = [driver |-> w, isAutomatic |-> TRUE] => DrivingNow(w, v)
      /\ DrivingNow(w, v) => held[v].driver = w

(* The odometer only moves forward, although it is compared and written in two   *)
(* statements: until a vehicle is released nobody else can end a trip on it.    *)
OdometerForward == [][\A v \in Vehicle : odometer'[v] >= odometer[v]]_vars

(* A trip records from its start to its end: a driver whose trip runs has a     *)
(* session to report to.  Not so: a trip the driver door started goes on after a  *)
(* clock-out has closed the session it rides on.                               *)
TripIsRecorded ==
  faults = 0 => \A w \in Worker : Quiet(w) /\ OpenTripsOf(w) # {} => ResolveSession(w) # 0

(* The elevation lasts exactly as long as the driving position session.  Not so: a *)
(* trip ended at the driver door leaves it when the position is left.            *)
ElevatedWhileDriving ==
  faults = 0 => \A w \in Worker : Quiet(w) => (w \in elevated <=> day[w].at = "driving")
=============================================================================
