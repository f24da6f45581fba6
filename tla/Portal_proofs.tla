---------------------------- MODULE Portal_proofs ----------------------------
(***************************************************************************)
(* Theorems about Portal, for every set of workers and vehicles and every      *)
(* number of requests and faults, and about AdminDesk, for every page and every  *)
(* number of reads, writes and saves.                                         *)
(*                                                                         *)
(* A worker has one request served at a time, so what a half-done request      *)
(* relies on is only ever disturbed by others; the invariants below are what    *)
(* the others leave alone.  Fleet is about trips, vehicles and the odometer,     *)
(* Sessions about tracking, and both hold whatever fails; the last two parts     *)
(* hold as long as nothing has.                                              *)
(***************************************************************************)
EXTENDS Portal, AdminDesk, SequenceTheorems, TLAPS

---------------------------------------------------------------------------
(* The steps of each command, and what its request carries.                       *)

RunShape(q) ==
  /\ q.cmd = "none" => q = Idle
  /\ q.cmd = "startShift" => q.step \in {"command", "openWork"}
  /\ q.cmd = "endShift" => q.step \in {"command", "findWork", "closeSession", "strip"}
  /\ q.cmd = "changePosition" => q.step \in {"command", "strip"}
  /\ q.cmd = "beginDriving" =>
       q.step \in {"command", "elevate", "attach", "openTrip"} /\ q.vehicle \in Vehicle
  /\ q.cmd = "startTrip" =>
       q.step \in {"command", "claimVehicle", "createTrip", "attach", "openTrip"}
  /\ q.cmd = "endTrip" =>
       /\ q.step \in {"command", "readOdometer", "writeOdometer", "release", "detach",
                      "closeSession"}
       /\ q.ended = FALSE /\ q.trip \in TripId

Shapes == \A w \in Worker : RunShape(run[w])

Running(t, w) == trips[t].status = "ACTIVE" /\ trips[t].driver = w
---------------------------------------------------------------------------
(* Trips, the vehicles they run on and the requests about them.                   *)

FreeIsFree == \A v \in Vehicle : held[v].driver = Nobody => held[v] = Free

RunningIsHeld ==
  \A t \in TripId : trips[t].status = "ACTIVE" =>
    /\ trips[t].driver \in Worker /\ trips[t].vehicle \in Vehicle
    /\ held[trips[t].vehicle].driver = trips[t].driver

OneTripEach ==
  \A w \in Worker : \A t, u \in TripId : Running(t, w) /\ Running(u, w) => t = u

DayTripIsOwn == \A w \in Worker : day[w].trip # 0 => trips[day[w].trip].driver = w

(* What a request on its way knows of its vehicle: nobody else can take it.         *)
Holds(w) ==
  LET q == run[w] IN
  /\ At(w, "startTrip", "claimVehicle") =>
       q.vehicle \in Vehicle /\ \A t \in TripId : ~ Running(t, w)
  /\ At(w, "startTrip", "createTrip") => q.vehicle \in Vehicle /\ held[q.vehicle].driver = w
  /\ q.cmd = "endTrip" /\ q.step # "command" => \A t \in TripId : ~ Running(t, w)
  /\ q.cmd = "endTrip" /\ q.step \in {"readOdometer", "writeOdometer", "release"} =>
       q.vehicle \in Vehicle /\ held[q.vehicle].driver = w
  /\ At(w, "endTrip", "writeOdometer") => q.reading > odometer[q.vehicle]

Fleet ==
  /\ FreeIsFree /\ RunningIsHeld /\ OneTripEach /\ DayTripIsOwn
  /\ \A w \in Worker : Holds(w)
---------------------------------------------------------------------------
(* Tracking sessions and the requests that close them.                            *)

OpenWorkSession(k, w) ==
  tsession[k].open /\ tsession[k].context = "WORK" /\ tsession[k].owner = w

TripsHaveTheirOwn == \A k \in SessionId : tsession[k].trip # 0 => tsession[k].context = "DRIVER_TRIP"

OneDayEach ==
  \A w \in Worker : \A j, k \in SessionId : OpenWorkSession(j, w) /\ OpenWorkSession(k, w) => j = k

Closes(w) ==
  LET q == run[w] IN
  /\ At(w, "endShift", "closeSession") =>
       /\ tsession[q.session].context = "WORK" /\ tsession[q.session].owner = w
       /\ \A k \in SessionId : OpenWorkSession(k, w) => k = q.session
  /\ At(w, "endShift", "strip") => \A k \in SessionId : ~ OpenWorkSession(k, w)
  /\ At(w, "endTrip", "closeSession") => tsession[q.session].context = "DRIVER_TRIP"
  /\ q.step = "closeSession" => q.session \in SessionId

Sessions == TripsHaveTheirOwn /\ OneDayEach /\ \A w \in Worker : Closes(w)
---------------------------------------------------------------------------
(* As long as nothing failed: a vehicle held for a trip is out, or its request is    *)
(* about to take it out or to give it back.                                      *)
Answering(w, v) ==
  LET q == run[w] IN
  /\ q.vehicle = v
  /\ \/ At(w, "startTrip", "createTrip") /\ \A t \in TripId : ~ Running(t, w)
     \/ q.cmd = "endTrip" /\ q.step \in {"readOdometer", "writeOdometer", "release"}

HeldForAReason ==
  faults = 0 => \A w \in Worker, v \in Vehicle :
    held[v] = [driver |-> w, isAutomatic |-> TRUE] => DrivingNow(w, v) \/ Answering(w, v)
---------------------------------------------------------------------------
(* A trip's own session is named after a trip that was made, one for each.            *)
NamedAfterTrips ==
  /\ \A k \in SessionId : tsession[k].trip # 0 => trips[tsession[k].trip].status # "NONE"
  /\ \A j, k \in SessionId : tsession[j].trip # 0 /\ tsession[j].trip = tsession[k].trip => j = k
  /\ \A w \in Worker : run[w].step \in {"elevate", "attach", "openTrip"} =>
       /\ run[w].trip \in TripId /\ Running(run[w].trip, w)
       /\ \A k \in SessionId : tsession[k].trip # run[w].trip

OffMeansNoShift == \A w \in Worker : day[w].at = "off" <=> day[w].shift = 0

(* As long as nothing failed: the working day and its session, but for the step      *)
(* between them of a request being served; and the trips that have their own.          *)
DayAndSession(w) ==
  /\ day[w].shift # 0 => \E k \in SessionId : OpenWorkSession(k, w)
  /\ \A k \in SessionId : OpenWorkSession(k, w) =>
       day[w].shift # 0 /\ tsession[k].shift = day[w].shift

ClockingOut(w) == run[w].cmd = "endShift" /\ run[w].step # "command"

DayIsTracked(w) ==
  /\ At(w, "startShift", "openWork") =>
       /\ day[w].shift # 0 /\ run[w].shift = day[w].shift
       /\ \A k \in SessionId : ~ OpenWorkSession(k, w)
  /\ ClockingOut(w) => day[w].shift = 0
  /\ ~ At(w, "startShift", "openWork") /\ ~ ClockingOut(w) => DayAndSession(w)

Ending(w, k) ==
  LET q == run[w] IN
  /\ q.cmd = "endTrip"
  /\ \/ /\ q.step \in {"readOdometer", "writeOdometer", "release", "detach"}
        /\ tsession[k].trip = q.trip
     \/ q.step = "closeSession" /\ q.session = k

TripIsTracked(w) ==
  /\ run[w].cmd = "beginDriving" /\ run[w].step # "command" =>
       day[w].shift # 0 /\ run[w].step # "openTrip"
  /\ run[w].cmd = "startTrip" /\ run[w].step \in {"attach", "openTrip"} =>
       run[w].trip # day[w].trip
  /\ day[w].trip # 0 => \A k \in SessionId : tsession[k].trip # day[w].trip
  /\ \A k \in OpenTripSessionOf(w) :
       \/ tsession[k].trip \in TripId /\ Running(tsession[k].trip, w)
       \/ Ending(w, k)

Tracked ==
  /\ NamedAfterTrips /\ OffMeansNoShift
  /\ faults = 0 => \A w \in Worker : DayIsTracked(w) /\ TripIsTracked(w)

---------------------------------------------------------------------------
(* Types.                                                                    *)

LEMMA FirstOfSome ==
  ASSUME NEW S, S # {}
  PROVE  FindFirst(S) \in S
BY DEF FindFirst

LEMMA FirstOfSessions ==
  ASSUME NEW S \in SUBSET SessionId
  PROVE  /\ FindFirst(S) \in SessionId \cup {0}
         /\ FindFirst(S) = 0 <=> S = {}
         /\ FindFirst(S) # 0 => FindFirst(S) \in S
<1>1. 0 \notin S
  BY PortalAssumption DEF SessionId
<1>2. CASE S = {}
  BY <1>2 DEF FindFirst
<1>3. CASE S # {}
  <2>1. FindFirst(S) \in S
    BY <1>3, FirstOfSome
  <2> QED BY <1>1, <1>3, <2>1
<1> QED BY <1>2, <1>3

LEMMA GoTyped ==
  ASSUME TypeOK, NEW w \in Worker, NEW q \in Run, Go(w, q)
  PROVE  run' \in [Worker -> Run] /\ served' \in 0..MaxRequests /\ faults' \in 0..MaxFaults
<1>1. run \in [Worker -> Run] /\ served \in 0..MaxRequests /\ faults \in 0..MaxFaults
  BY DEF TypeOK
<1>2. run' = [run EXCEPT ![w] = q] /\ served' = served /\ faults' = faults
  BY DEF Go
<1> QED BY <1>1, <1>2

LEMMA IdleTyped == Idle \in Run
BY PortalAssumption DEF Idle, Run, Command, Step, Reading

LEMMA UnusedIsNone ==
  ASSUME NEW n \in Nat, NEW table, DOMAIN table = 1..n, NEW none, NEW i \in Unused(table, none)
  PROVE  i \in 1..n /\ table[i] = none
<1>1. /\ i \in 1..n
      /\ \A j \in 1..n : table[j] = none <=> j >= i
  BY DEF Unused
<1> QED BY <1>1
LEMMA GotoTyped ==
  ASSUME TypeOK, NEW w \in Worker, NEW step \in Step, Goto(w, step)
  PROVE  run' \in [Worker -> Run] /\ served' \in 0..MaxRequests /\ faults' \in 0..MaxFaults
<1>1. [run[w] EXCEPT !.step = step] \in Run
  BY DEF TypeOK, Run
<1> QED BY <1>1, GoTyped DEF Goto

LEMMA DoneTyped ==
  ASSUME TypeOK, NEW w \in Worker, Done(w)
  PROVE  run' \in [Worker -> Run] /\ served' \in 0..MaxRequests /\ faults' \in 0..MaxFaults
BY IdleTyped, GoTyped DEF Done

LEMMA RequestTyped ==
  ASSUME TypeOK, NEW w \in Worker, WorkerRequest(w) \/ DriverRequest(w) \/ Fault(w)
  PROVE  TypeOK'
<1> USE DEF TypeOK
<1>1. ASSUME NEW q \in Run, Ask(w, q)
      PROVE  TypeOK'
  BY <1>1, PortalAssumption DEF Ask, tables
<1>2. ASSUME NEW cmd \in Command
      PROVE  [Idle EXCEPT !.cmd = cmd, !.step = "command"] \in Run
  BY IdleTyped DEF Run, Step
<1>3. ASSUME NEW v \in Vehicle \cup {NoVehicle}, NEW cmd \in Command
      PROVE  [Idle EXCEPT !.cmd = cmd, !.step = "command", !.vehicle = v] \in Run
  BY IdleTyped DEF Run, Step
<1>4. ASSUME NEW t \in TripId, NEW reading \in Reading
      PROVE  [Idle EXCEPT !.cmd = "endTrip", !.step = "command", !.trip = t,
                          !.reading = reading] \in Run
  BY IdleTyped DEF Run, Step, Command
<1>5. CASE WorkerRequest(w)
  BY <1>1, <1>2, <1>3, <1>5 DEF WorkerRequest, Command
<1>6. CASE DriverRequest(w)
  BY <1>1, <1>3, <1>4, <1>6 DEF DriverRequest, Command
<1>7. CASE Fault(w)
  BY <1>7, IdleTyped, PortalAssumption DEF Fault, tables
<1> QED BY <1>5, <1>6, <1>7

LEMMA EndDrivingEnds ==
  ASSUME TypeOK, NEW w \in Worker, EndDriving(w)
  PROVE  \/ UNCHANGED <<trips, held>>
         \/ \E t \in TripId :
              /\ t = day[w].trip /\ trips[t].status = "ACTIVE"
              /\ trips' = [trips EXCEPT ![t].status = "COMPLETED"]
              /\ held' = ReleaseAutomatic(w, trips[t].vehicle)
<1>1. day[w].trip \in TripId \cup {0}
  BY DEF TypeOK, Day
<1>2. CASE RunningTrip(w) = 0
  BY <1>2 DEF EndDriving
<1>3. CASE RunningTrip(w) # 0
  <2>1. RunningTrip(w) = day[w].trip /\ day[w].trip # 0 /\ trips[day[w].trip].status = "ACTIVE"
    BY <1>3 DEF RunningTrip
  <2> QED BY <1>1, <1>3, <2>1 DEF EndDriving
<1> QED BY <1>2, <1>3

LEMMA ReleaseTyped ==
  ASSUME TypeOK, NEW w, NEW v
  PROVE  ReleaseAutomatic(w, v) \in [Vehicle -> Assignment]
<1>1. Free \in Assignment
  BY DEF Free, Assignment
<1> QED BY <1>1 DEF TypeOK, ReleaseAutomatic

LEMMA EndDrivingTyped ==
  ASSUME TypeOK, NEW w \in Worker, EndDriving(w)
  PROVE  trips' \in [TripId -> Trip] /\ held' \in [Vehicle -> Assignment]
<1>1. CASE UNCHANGED <<trips, held>>
  BY <1>1 DEF TypeOK
<1>2. ASSUME NEW t \in TripId, trips' = [trips EXCEPT ![t].status = "COMPLETED"],
             held' = ReleaseAutomatic(w, trips[t].vehicle)
      PROVE  trips' \in [TripId -> Trip] /\ held' \in [Vehicle -> Assignment]
  BY <1>2, ReleaseTyped DEF TypeOK, Trip
<1> QED BY <1>1, <1>2, EndDrivingEnds

LEMMA ClaimedTyped ==
  ASSUME TypeOK, NEW w \in Worker, NEW v
  PROVE  Claimed(w, v) \in [Vehicle -> Assignment]
<1>1. [driver |-> w, isAutomatic |-> TRUE] \in Assignment
  BY DEF Assignment
<1> QED BY <1>1 DEF TypeOK, Claimed

LEMMA ShiftStepTyped ==
  ASSUME TypeOK, NEW w \in Worker,
         \/ Refuse(w) \/ StartShift(w) \/ OpenWork(w) \/ EndShift(w) \/ FindWork(w)
         \/ CloseSession(w) \/ Strip(w) \/ ChangePosition(w)
  PROVE  TypeOK'
<1> USE DEF TypeOK
<1>1. CASE Refuse(w)
  BY <1>1, DoneTyped DEF Refuse, tables
<1>2. CASE StartShift(w)
  <2>1. PICK i \in ShiftId :
          /\ day' = [day EXCEPT ![w] = [shift |-> i, at |-> "floor", trip |-> 0]]
          /\ Go(w, [run[w] EXCEPT !.step = "openWork", !.shift = i])
    BY <1>2 DEF StartShift
  <2>2. [run[w] EXCEPT !.step = "openWork", !.shift = i] \in Run
    BY DEF Run, Step
  <2>3. [shift |-> i, at |-> "floor", trip |-> 0] \in Day
    BY DEF Day
  <2> QED BY <1>2, <2>1, <2>2, <2>3, GoTyped DEF StartShift
<1>3. CASE OpenWork(w)
  <2> DEFINE row == [context |-> "WORK", owner |-> w, shift |-> run[w].shift, trip |-> 0,
                     open |-> TRUE]
  <2>1. row \in TrackingSession
    BY DEF TrackingSession, Run
  <2>2. PICK k : tsession' = [tsession EXCEPT ![k] = row]
    BY <1>3 DEF OpenWork
  <2> HIDE DEF row
  <2> QED BY <1>3, <2>1, <2>2, DoneTyped DEF OpenWork
<1>4. OffDuty \in Day
  BY DEF OffDuty, Day
<1>5. CASE EndShift(w)
  <2>1. PICK ended \in BOOLEAN : ended = (RunningTrip(w) # 0)
    OBVIOUS
  <2>2. [run[w] EXCEPT !.step = "findWork", !.shift = day[w].shift, !.ended = ended] \in Run
    BY DEF Run, Step, Day
  <2> QED BY <1>4, <1>5, <2>1, <2>2, GoTyped, EndDrivingTyped DEF EndShift
<1>6. ASSUME NEW q \in Run
      PROVE  AfterClose(q) \in Run
  BY <1>6, IdleTyped DEF AfterClose, Run, Step
<1>7. CASE FindWork(w)
  <2> DEFINE k == FindWorkSession(w, run[w].shift)
  <2>1. k \in SessionId \cup {0}
    BY FirstOfSessions DEF FindWorkSession, OpenWorkOf
  <2> HIDE DEF k
  <2>2. [run[w] EXCEPT !.step = "closeSession", !.session = k] \in Run
    BY <2>1 DEF Run, Step
  <2>3. AfterClose(run[w]) \in Run
    BY <1>6
  <2>4. CASE Go(w, AfterClose(run[w]))
    BY <1>7, <2>3, <2>4, GoTyped DEF FindWork, tables
  <2>5. CASE Go(w, [run[w] EXCEPT !.step = "closeSession", !.session = k])
    BY <1>7, <2>2, <2>5, GoTyped DEF FindWork, tables
  <2> QED BY <1>7, <2>4, <2>5 DEF FindWork, k
<1>8. CASE CloseSession(w)
  <2>1. AfterClose(run[w]) \in Run
    BY <1>6
  <2> QED BY <1>8, <2>1, GoTyped DEF CloseSession, TrackingSession
<1>9. CASE Strip(w)
  BY <1>9, DoneTyped DEF Strip
<1>10. CASE ChangePosition(w)
  <2>1. day' \in [Worker -> Day]
    BY <1>10 DEF ChangePosition, Day
  <2>2. Goto(w, "strip") \/ Done(w)
    BY <1>10 DEF ChangePosition
  <2> QED BY <1>10, <2>1, <2>2, GotoTyped, DoneTyped, EndDrivingTyped DEF ChangePosition, Step
<1> QED BY <1>1, <1>2, <1>3, <1>5, <1>7, <1>8, <1>9, <1>10
LEMMA DrivingStepTyped ==
  ASSUME TypeOK, NEW w \in Worker,
         \/ BeginDriving(w) \/ Elevate(w) \/ Attach(w) \/ OpenTrip(w)
         \/ CurrentVehicle(w) \/ ClaimForTrip(w) \/ CreateTrip(w)
  PROVE  TypeOK'
<1> USE DEF TypeOK
<1>1. ASSUME NEW v, NEW t, NewTrip(w, v, t), v \in Vehicle \cup {NoVehicle}
      PROVE  trips' \in [TripId -> Trip]
  <2>1. [status |-> "ACTIVE", driver |-> w, vehicle |-> v] \in Trip
    BY <1>1 DEF Trip
  <2> QED BY <1>1, <2>1 DEF NewTrip
<1>2. run[w].vehicle \in Vehicle \cup {NoVehicle}
  BY DEF Run
<1>3. CASE BeginDriving(w)
  <2>1. PICK t \in Unused(trips, NoTrip) :
          /\ NewTrip(w, run[w].vehicle, t)
          /\ day' = [day EXCEPT ![w].at = "driving", ![w].trip = t]
          /\ Go(w, [run[w] EXCEPT !.step = "elevate", !.trip = t])
    BY <1>3 DEF BeginDriving
  <2>2. t \in TripId
    BY DEF Unused
  <2>3. [run[w] EXCEPT !.step = "elevate", !.trip = t] \in Run
    BY <2>2 DEF Run, Step
  <2>4. day' \in [Worker -> Day]
    BY <2>1, <2>2 DEF Day
  <2> QED BY <1>1, <1>2, <1>3, <2>1, <2>3, <2>4, GoTyped, ClaimedTyped DEF BeginDriving
<1>4. CASE Elevate(w)
  BY <1>4, GotoTyped DEF Elevate, Step
<1>5. CASE Attach(w)
  BY <1>5, GotoTyped, DoneTyped DEF Attach, Step, tables
<1>6. CASE OpenTrip(w)
  <2> DEFINE row == [context |-> "DRIVER_TRIP", owner |-> w, shift |-> 0, trip |-> run[w].trip,
                     open |-> TRUE]
  <2>1. row \in TrackingSession
    BY DEF TrackingSession, Run
  <2>2. PICK k : tsession' = [tsession EXCEPT ![k] = row]
    BY <1>6 DEF OpenTrip
  <2> HIDE DEF row
  <2> QED BY <1>6, <2>1, <2>2, DoneTyped DEF OpenTrip
<1>7. CASE CurrentVehicle(w)
  <2>1. ASSUME NEW v \in AssignedTo(w)
        PROVE  [run[w] EXCEPT !.step = "createTrip", !.vehicle = v] \in Run
    <3>1. v \in Vehicle
      BY DEF AssignedTo
    <3> QED BY <3>1 DEF Run, Step
  <2>2. \/ \E v \in AssignedTo(w) : Go(w, [run[w] EXCEPT !.step = "createTrip", !.vehicle = v])
        \/ Goto(w, "claimVehicle")
    BY <1>7 DEF CurrentVehicle
  <2>3. run' \in [Worker -> Run] /\ served' \in 0..MaxRequests /\ faults' \in 0..MaxFaults
    BY <2>1, <2>2, GoTyped, GotoTyped DEF Step
  <2> QED BY <1>7, <2>3 DEF CurrentVehicle, tables
<1>8. CASE ClaimForTrip(w)
  BY <1>8, GotoTyped, ClaimedTyped DEF ClaimForTrip, Step
<1>9. CASE CreateTrip(w)
  <2>1. PICK t \in Unused(trips, NoTrip) :
          /\ NewTrip(w, run[w].vehicle, t)
          /\ Go(w, [run[w] EXCEPT !.step = "attach", !.trip = t])
    BY <1>9 DEF CreateTrip
  <2>2. t \in TripId
    BY DEF Unused
  <2>3. [run[w] EXCEPT !.step = "attach", !.trip = t] \in Run
    BY <2>2 DEF Run, Step
  <2> QED BY <1>1, <1>2, <1>9, <2>1, <2>3, GoTyped DEF CreateTrip
<1> QED BY <1>3, <1>4, <1>5, <1>6, <1>7, <1>8, <1>9

LEMMA TripStepTyped ==
  ASSUME TypeOK, NEW w \in Worker,
         EndTrip(w) \/ ReadOdometer(w) \/ WriteOdometer(w) \/ Release(w) \/ Detach(w)
  PROVE  TypeOK'
<1> USE DEF TypeOK
<1>1. CASE EndTrip(w)
  <2>1. run[w].trip \in TripId
    BY <1>1 DEF EndTrip, Proceed, At, Allowed, OpenTripsOf
  <2> DEFINE q == [run[w] EXCEPT !.vehicle = trips[run[w].trip].vehicle,
                     !.step = IF run[w].reading = 0 THEN "release" ELSE "readOdometer"]
  <2>2. q \in Run
    <3>1. trips[run[w].trip].vehicle \in Vehicle \cup {NoVehicle}
      BY <2>1 DEF Trip
    <3>2. ASSUME NEW next \in Step
          PROVE  [run[w] EXCEPT !.vehicle = trips[run[w].trip].vehicle, !.step = next] \in Run
      BY <3>1 DEF Run
    <3>3. CASE run[w].reading = 0
      BY <3>2, <3>3 DEF Step
    <3>4. CASE run[w].reading # 0
      BY <3>2, <3>4 DEF Step
    <3> QED BY <3>3, <3>4
  <2>3. trips' \in [TripId -> Trip]
    BY <1>1 DEF EndTrip, Trip
  <2> QED BY <1>1, <2>2, <2>3, GoTyped DEF EndTrip
<1>2. CASE ReadOdometer(w)
  BY <1>2, GotoTyped DEF ReadOdometer, tables, Step
<1>3. CASE WriteOdometer(w)
  <2>1. odometer' \in [Vehicle -> Reading]
    BY <1>3 DEF WriteOdometer, Run
  <2> QED BY <1>3, <2>1, GotoTyped DEF WriteOdometer, Step
<1>4. CASE Release(w)
  BY <1>4, GotoTyped, ReleaseTyped DEF Release, Step
<1>5. CASE Detach(w)
  <2> DEFINE k == FindTripSession(w, run[w].trip)
  <2>1. k \in SessionId \cup {0}
    BY FirstOfSessions DEF FindTripSession
  <2> HIDE DEF k
  <2>2. [run[w] EXCEPT !.step = "closeSession", !.session = k] \in Run
    BY <2>1 DEF Run, Step
  <2>3. Done(w) \/ Go(w, [run[w] EXCEPT !.step = "closeSession", !.session = k])
    BY <1>5 DEF Detach, k
  <2>4. run' \in [Worker -> Run] /\ served' \in 0..MaxRequests /\ faults' \in 0..MaxFaults
    BY <2>2, <2>3, GoTyped, DoneTyped
  <2> QED BY <1>5, <2>4 DEF Detach, tables
<1> QED BY <1>1, <1>2, <1>3, <1>4, <1>5

LEMMA NextTyped ==
  ASSUME TypeOK, [Next]_vars
  PROVE  TypeOK'
<1>1. CASE UNCHANGED vars
  BY <1>1 DEF vars, tables, TypeOK
<1> QED BY <1>1, RequestTyped, ShiftStepTyped, DrivingStepTyped, TripStepTyped DEF Next, Serve

LEMMA InitTyped ==
  ASSUME Init
  PROVE  TypeOK
<1>1. OffDuty \in Day /\ NoTrip \in Trip /\ NotOpened \in TrackingSession
  BY DEF OffDuty, Day, NoTrip, Trip, NotOpened, TrackingSession
<1>2. held \in [Vehicle -> Assignment]
  <2>1. ASSUME NEW v \in Vehicle
        PROVE  held[v] \in Assignment
    <3>1. held[v] \in {Free} \cup {[driver |-> w, isAutomatic |-> FALSE] : w \in Worker}
      BY DEF Init
    <3>2. CASE held[v] = Free
      BY <3>2 DEF Free, Assignment
    <3>3. ASSUME NEW w \in Worker, held[v] = [driver |-> w, isAutomatic |-> FALSE]
          PROVE  held[v] \in Assignment
      BY <3>3 DEF Assignment
    <3> QED BY <3>1, <3>2, <3>3
  <2>2. held = [v \in Vehicle |-> held[v]]
    BY DEF Init
  <2> QED BY <2>1, <2>2
<1> QED BY <1>1, <1>2, IdleTyped, PortalAssumption DEF Init, TypeOK, Reading

(* Every table and every request of the portals keeps its type.                   *)
THEOREM TypeCorrect == Spec => []TypeOK
<1> QED BY InitTyped, NextTyped, PTL DEF Spec
---------------------------------------------------------------------------
(* A step is taken for one request and moves it as its command goes.              *)

Serves(w) == WorkerRequest(w) \/ DriverRequest(w) \/ Serve(w) \/ Fault(w)

LEMMA OnlyMine ==
  ASSUME TypeOK, NEW w \in Worker, Serves(w)
  PROVE  \A x \in Worker : x # w => run'[x] = run[x]
<1>1. run \in [Worker -> Run]
  BY DEF TypeOK
<1>2. \E q : run' = [run EXCEPT ![w] = q]
  <2>1. CASE WorkerRequest(w)
    BY <2>1 DEF WorkerRequest, Ask
  <2>2. CASE DriverRequest(w)
    BY <2>2 DEF DriverRequest, Ask
  <2>3. CASE Fault(w)
    BY <2>3 DEF Fault
  <2>4. CASE \/ Refuse(w) \/ StartShift(w) \/ OpenWork(w) \/ EndShift(w) \/ FindWork(w)
             \/ CloseSession(w) \/ Strip(w) \/ ChangePosition(w)
    BY <2>4 DEF Refuse, StartShift, OpenWork, EndShift, FindWork, CloseSession, Strip,
                ChangePosition, Done, Goto, Go
  <2>5. CASE \/ BeginDriving(w) \/ Elevate(w) \/ Attach(w) \/ OpenTrip(w)
             \/ CurrentVehicle(w) \/ ClaimForTrip(w) \/ CreateTrip(w)
    BY <2>5 DEF BeginDriving, Elevate, Attach, OpenTrip, CurrentVehicle, ClaimForTrip,
                CreateTrip, Done, Goto, Go
  <2>6. CASE EndTrip(w) \/ ReadOdometer(w) \/ WriteOdometer(w) \/ Release(w) \/ Detach(w)
    BY <2>6 DEF EndTrip, ReadOdometer, WriteOdometer, Release, Detach, Done, Goto, Go
  <2> QED BY <2>1, <2>2, <2>3, <2>4, <2>5, <2>6 DEF Serves, Serve
<1> QED BY <1>1, <1>2

(* What a step makes of its own request: the record it goes on with.               *)
LEMMA GoMine ==
  ASSUME TypeOK, NEW w \in Worker, NEW q, Go(w, q)
  PROVE  run'[w] = q /\ UNCHANGED <<served, faults>>
BY DEF TypeOK, Go

LEMMA GotoMine ==
  ASSUME TypeOK, NEW w \in Worker, NEW step, Goto(w, step)
  PROVE  /\ run'[w] = [run[w] EXCEPT !.step = step]
         /\ run'[w].step = step /\ run'[w].cmd = run[w].cmd /\ run'[w].vehicle = run[w].vehicle
         /\ run'[w].trip = run[w].trip /\ run'[w].shift = run[w].shift
         /\ run'[w].session = run[w].session /\ run'[w].ended = run[w].ended
         /\ run'[w].reading = run[w].reading
         /\ UNCHANGED <<served, faults>>
<1>1. run'[w] = [run[w] EXCEPT !.step = step] /\ UNCHANGED <<served, faults>>
  BY GoMine DEF Goto
<1>2. run[w] \in Run
  BY DEF TypeOK
<1> QED BY <1>1, <1>2 DEF Run

LEMMA DoneMine ==
  ASSUME TypeOK, NEW w \in Worker, Done(w)
  PROVE  run'[w] = Idle /\ UNCHANGED <<served, faults>>
BY GoMine DEF Done

LEMMA IdleShape == RunShape(Idle)
BY DEF RunShape, Idle

LEMMA AfterCloseShape ==
  ASSUME NEW q \in Run, RunShape(q), q.step = "closeSession" \/ q.step = "findWork"
  PROVE  /\ \/ AfterClose(q) = Idle
            \/ q.cmd = "endShift" /\ AfterClose(q) = [q EXCEPT !.step = "strip"]
         /\ RunShape(AfterClose(q))
<1>1. q.cmd \in {"endShift", "endTrip"}
  <2>1. Idle.step = "idle"
    BY DEF Idle
  <2>2. q.cmd \in Command
    BY DEF Run
  <2> QED BY <2>1, <2>2 DEF RunShape, Command
<1>2. CASE AfterClose(q) = Idle
  BY <1>2, IdleShape
<1>3. CASE AfterClose(q) # Idle
  <2>1. q.ended /\ AfterClose(q) = [q EXCEPT !.step = "strip"]
    BY <1>3 DEF AfterClose
  <2>2. [q EXCEPT !.step = "strip"].cmd = q.cmd /\ [q EXCEPT !.step = "strip"].step = "strip"
    BY DEF Run
  <2>3. q.cmd = "endShift"
    BY <1>1, <2>1 DEF RunShape
  <2> QED BY <2>1, <2>2, <2>3 DEF RunShape
<1> QED BY <1>2, <1>3

(* Where each step takes its request.                                            *)

LEMMA RequestGoes ==
  ASSUME TypeOK, NEW w \in Worker, WorkerRequest(w) \/ DriverRequest(w)
  PROVE  /\ run[w] = Idle /\ run'[w].step = "command" /\ RunShape(run'[w])
         /\ UNCHANGED <<tables, faults>>
<1>1. PICK q : Ask(w, q) /\ q.step = "command" /\ RunShape(q)
  <2>1. CASE WorkerRequest(w)
    <3>1. ASSUME NEW cmd \in {"startShift", "endShift", "changePosition"}
          PROVE  /\ [Idle EXCEPT !.cmd = cmd, !.step = "command"].step = "command"
                 /\ RunShape([Idle EXCEPT !.cmd = cmd, !.step = "command"])
      BY DEF RunShape, Idle
    <3>2. ASSUME NEW v \in Vehicle
          PROVE  LET q == [Idle EXCEPT !.cmd = "beginDriving", !.step = "command", !.vehicle = v]
                 IN  q.step = "command" /\ RunShape(q)
      BY DEF RunShape, Idle
    <3> QED BY <2>1, <3>1, <3>2 DEF WorkerRequest
  <2>2. CASE DriverRequest(w)
    <3>1. ASSUME NEW v \in Vehicle \cup {NoVehicle}
          PROVE  LET q == [Idle EXCEPT !.cmd = "startTrip", !.step = "command", !.vehicle = v]
                 IN  q.step = "command" /\ RunShape(q)
      BY DEF RunShape, Idle
    <3>2. ASSUME NEW t \in TripId, NEW reading \in Reading
          PROVE  LET q == [Idle EXCEPT !.cmd = "endTrip", !.step = "command", !.trip = t,
                                       !.reading = reading]
                 IN  q.step = "command" /\ RunShape(q)
      BY DEF RunShape, Idle
    <3> QED BY <2>2, <3>1, <3>2 DEF DriverRequest
  <2> QED BY <2>1, <2>2
<1> QED BY <1>1 DEF Ask, TypeOK

LEMMA EndsIdle ==
  ASSUME TypeOK, NEW w \in Worker,
         \/ Done(w) \/ Fault(w) \/ Refuse(w) \/ OpenWork(w) \/ Strip(w) \/ OpenTrip(w)
  PROVE  run'[w] = Idle
BY DoneMine DEF Fault, Refuse, OpenWork, Strip, OpenTrip, TypeOK

LEMMA StartShiftGoes ==
  ASSUME TypeOK, NEW w \in Worker, StartShift(w)
  PROVE  /\ At(w, "startShift", "command") /\ day[w].shift = 0
         /\ run'[w].cmd = "startShift" /\ run'[w].step = "openWork"
         /\ run'[w].shift \in ShiftId
         /\ day' = [day EXCEPT ![w] = [shift |-> run'[w].shift, at |-> "floor", trip |-> 0]]
<1>1. PICK i \in ShiftId :
        /\ day' = [day EXCEPT ![w] = [shift |-> i, at |-> "floor", trip |-> 0]]
        /\ Go(w, [run[w] EXCEPT !.step = "openWork", !.shift = i])
  BY DEF StartShift
<1>2. run[w] \in Run
  BY DEF TypeOK
<1>3. run'[w] = [run[w] EXCEPT !.step = "openWork", !.shift = i]
  BY <1>1, GoMine
<1>4. At(w, "startShift", "command") /\ day[w].shift = 0
  BY DEF StartShift, Proceed, At, Allowed
<1> QED BY <1>1, <1>2, <1>3, <1>4 DEF Run, At

LEMMA EndShiftGoes ==
  ASSUME TypeOK, NEW w \in Worker, EndShift(w)
  PROVE  /\ At(w, "endShift", "command")
         /\ run'[w].cmd = "endShift" /\ run'[w].step = "findWork"
<1>1. PICK ended : ended = (RunningTrip(w) # 0)
  OBVIOUS
<1>2. run'[w] = [run[w] EXCEPT !.step = "findWork", !.shift = day[w].shift, !.ended = ended]
  BY <1>1, GoMine DEF EndShift
<1>3. run[w] \in Run /\ At(w, "endShift", "command")
  BY DEF TypeOK, EndShift, Proceed
<1> QED BY <1>2, <1>3 DEF Run, At

LEMMA FindWorkGoes ==
  ASSUME TypeOK, Shapes, NEW w \in Worker, FindWork(w)
  PROVE  /\ At(w, "endShift", "findWork")
         /\ \/ /\ OpenWorkOf(w) = {}
               /\ run'[w] = Idle \/ (run'[w].cmd = "endShift" /\ run'[w].step = "strip")
            \/ /\ run'[w].cmd = "endShift" /\ run'[w].step = "closeSession"
               /\ run'[w].session \in OpenWorkOf(w)
<1> DEFINE k == FindWorkSession(w, run[w].shift)
<1>1. run[w] \in Run /\ RunShape(run[w]) /\ At(w, "endShift", "findWork")
  BY DEF TypeOK, Shapes, FindWork, Proceed
<1>2. (k = 0 <=> OpenWorkOf(w) = {}) /\ (k # 0 => k \in OpenWorkOf(w))
  BY FirstOfSessions DEF FindWorkSession, OpenWorkOf
<1>3. Go(w, IF k # 0 THEN [run[w] EXCEPT !.step = "closeSession", !.session = k]
            ELSE AfterClose(run[w]))
  BY DEF FindWork
<1> HIDE DEF k
<1>4. CASE k = 0
  <2>1. run'[w] = AfterClose(run[w])
    BY <1>3, <1>4, GoMine
  <2>2. \/ AfterClose(run[w]) = Idle
        \/ AfterClose(run[w]) = [run[w] EXCEPT !.step = "strip"]
    BY DEF AfterClose
  <2>3. [run[w] EXCEPT !.step = "strip"].cmd = "endShift"
        /\ [run[w] EXCEPT !.step = "strip"].step = "strip"
    BY <1>1 DEF At, Run
  <2> QED BY <1>1, <1>2, <1>4, <2>1, <2>2, <2>3
<1>5. CASE k # 0
  <2>1. run'[w] = [run[w] EXCEPT !.step = "closeSession", !.session = k]
    BY <1>3, <1>5, GoMine
  <2> QED BY <1>1, <1>2, <1>5, <2>1 DEF At, Run
<1> QED BY <1>4, <1>5

LEMMA CloseSessionGoes ==
  ASSUME TypeOK, Shapes, NEW w \in Worker, CloseSession(w)
  PROVE  /\ run[w].cmd \in {"endShift", "endTrip"}
         /\ \/ run'[w] = Idle
            \/ /\ run[w].cmd = "endShift"
               /\ run'[w].cmd = "endShift" /\ run'[w].step = "strip"
<1>1. run[w] \in Run /\ RunShape(run[w]) /\ run[w].step = "closeSession"
  BY DEF TypeOK, Shapes, CloseSession
<1>2. run'[w] = AfterClose(run[w])
  BY GoMine DEF CloseSession
<1>3. Idle.step = "idle"
  BY DEF Idle
<1>4. run[w].cmd \in {"endShift", "endTrip"}
  BY <1>1, <1>3 DEF RunShape, Run, Command
<1> QED BY <1>1, <1>2, <1>4, AfterCloseShape DEF Run

LEMMA ChangePositionGoes ==
  ASSUME TypeOK, NEW w \in Worker, ChangePosition(w)
  PROVE  /\ At(w, "changePosition", "command") /\ day[w].shift # 0
         /\ run'[w] = Idle \/ (run'[w].cmd = "changePosition" /\ run'[w].step = "strip")
<1>1. At(w, "changePosition", "command") /\ day[w].shift # 0 /\ (Goto(w, "strip") \/ Done(w))
  BY DEF ChangePosition, Proceed, At, Allowed
<1>2. CASE Goto(w, "strip")
  BY <1>1, <1>2, GotoMine DEF At
<1>3. CASE Done(w)
  BY <1>1, <1>3, DoneMine
<1> QED BY <1>1, <1>2, <1>3

LEMMA BeginDrivingGoes ==
  ASSUME TypeOK, Shapes, NEW w \in Worker, BeginDriving(w)
  PROVE  /\ At(w, "beginDriving", "command") /\ day[w].at = "floor"
         /\ MayPlan(w, run[w].vehicle) /\ MayRun(w, run[w].vehicle)
         /\ run[w].vehicle \in Vehicle /\ run'[w].vehicle = run[w].vehicle
         /\ run'[w].cmd = "beginDriving" /\ run'[w].step = "elevate"
         /\ run'[w].trip \in TripId /\ trips[run'[w].trip] = NoTrip
         /\ NewTrip(w, run[w].vehicle, run'[w].trip)
         /\ day' = [day EXCEPT ![w].at = "driving", ![w].trip = run'[w].trip]
<1>1. PICK t \in Unused(trips, NoTrip) :
        /\ NewTrip(w, run[w].vehicle, t)
        /\ day' = [day EXCEPT ![w].at = "driving", ![w].trip = t]
        /\ Go(w, [run[w] EXCEPT !.step = "elevate", !.trip = t])
  BY DEF BeginDriving
<1>2. t \in TripId /\ trips[t] = NoTrip
  BY UnusedIsNone, PortalAssumption DEF TypeOK, TripId
<1>3. run[w] \in Run /\ RunShape(run[w]) /\ At(w, "beginDriving", "command")
  BY DEF TypeOK, Shapes, BeginDriving, Proceed
<1>4. day[w].at = "floor" /\ MayPlan(w, run[w].vehicle) /\ MayRun(w, run[w].vehicle)
  BY DEF BeginDriving, Proceed, At, Allowed
<1>5. run'[w] = [run[w] EXCEPT !.step = "elevate", !.trip = t]
  BY <1>1, GoMine
<1>6. /\ run'[w].cmd = "beginDriving" /\ run'[w].step = "elevate" /\ run'[w].trip = t
      /\ run'[w].vehicle = run[w].vehicle
  BY <1>3, <1>5 DEF Run, At
<1>7. run[w].vehicle \in Vehicle
  BY <1>3 DEF RunShape, At
<1> QED BY <1>1, <1>2, <1>3, <1>4, <1>6, <1>7

LEMMA ElevateGoes ==
  ASSUME TypeOK, NEW w \in Worker, Elevate(w)
  PROVE  /\ At(w, "beginDriving", "elevate")
         /\ run'[w].cmd = "beginDriving" /\ run'[w].step = "attach"
         /\ run'[w].vehicle = run[w].vehicle /\ run'[w].trip = run[w].trip
BY GotoMine DEF Elevate, Proceed, At

LEMMA AttachGoes ==
  ASSUME TypeOK, Shapes, NEW w \in Worker, Attach(w)
  PROVE  /\ run[w].cmd \in {"beginDriving", "startTrip"} /\ run[w].step = "attach"
         /\ \/ OpenWorkOf(w) # {} /\ run'[w] = Idle
            \/ /\ OpenWorkOf(w) = {} /\ run'[w].cmd = run[w].cmd /\ run'[w].step = "openTrip"
               /\ run'[w].vehicle = run[w].vehicle /\ run'[w].trip = run[w].trip
<1>1. run[w] \in Run /\ RunShape(run[w]) /\ run[w].step = "attach"
  BY DEF TypeOK, Shapes, Attach
<1>2. Idle.step = "idle"
  BY DEF Idle
<1>3. run[w].cmd \in {"beginDriving", "startTrip"}
  BY <1>1, <1>2 DEF RunShape, Run, Command
<1>4. CASE OpenWorkOf(w) # {}
  BY <1>1, <1>3, <1>4, DoneMine DEF Attach
<1>5. CASE OpenWorkOf(w) = {}
  BY <1>1, <1>3, <1>5, GotoMine DEF Attach
<1> QED BY <1>4, <1>5

LEMMA CurrentVehicleGoes ==
  ASSUME TypeOK, NEW w \in Worker, CurrentVehicle(w)
  PROVE  /\ At(w, "startTrip", "command") /\ run'[w].cmd = "startTrip"
         /\ \/ run'[w].step = "createTrip" /\ run'[w].vehicle \in AssignedTo(w)
            \/ /\ run'[w].step = "claimVehicle" /\ run'[w].vehicle \in Vehicle
               /\ OpenTripsOf(w) = {} /\ AssignedTo(w) = {}
<1>1. run[w] \in Run /\ At(w, "startTrip", "command")
  BY DEF TypeOK, CurrentVehicle, Proceed
<1>2. AssignedTo(w) = {} => run[w].vehicle # NoVehicle /\ OpenTripsOf(w) = {}
  BY DEF CurrentVehicle, Proceed, At, Allowed
<1>3. CASE AssignedTo(w) # {}
  <2>1. PICK v \in AssignedTo(w) : Go(w, [run[w] EXCEPT !.step = "createTrip", !.vehicle = v])
    BY <1>3 DEF CurrentVehicle
  <2>2. run'[w] = [run[w] EXCEPT !.step = "createTrip", !.vehicle = v]
    BY <2>1, GoMine
  <2> QED BY <1>1, <2>2 DEF Run, At
<1>4. CASE AssignedTo(w) = {}
  <2>1. Goto(w, "claimVehicle")
    BY <1>4 DEF CurrentVehicle
  <2>2. run[w].vehicle \in Vehicle
    BY <1>1, <1>2, <1>4 DEF Run
  <2> QED BY <1>1, <1>2, <1>4, <2>1, <2>2, GotoMine DEF At
<1> QED BY <1>3, <1>4

LEMMA ClaimForTripGoes ==
  ASSUME TypeOK, NEW w \in Worker, ClaimForTrip(w)
  PROVE  /\ At(w, "startTrip", "claimVehicle") /\ MayPlan(w, run[w].vehicle)
         /\ run'[w].cmd = "startTrip" /\ run'[w].step = "createTrip"
         /\ run'[w].vehicle = run[w].vehicle
<1>1. At(w, "startTrip", "claimVehicle") /\ Goto(w, "createTrip")
  BY DEF ClaimForTrip, Proceed
<1>2. MayPlan(w, run[w].vehicle)
  BY DEF ClaimForTrip, Proceed, At, Allowed
<1> QED BY <1>1, <1>2, GotoMine DEF At

LEMMA CreateTripGoes ==
  ASSUME TypeOK, NEW w \in Worker, CreateTrip(w)
  PROVE  /\ At(w, "startTrip", "createTrip") /\ MayRun(w, run[w].vehicle)
         /\ run'[w].cmd = "startTrip" /\ run'[w].step = "attach"
         /\ run'[w].trip \in TripId /\ trips[run'[w].trip] = NoTrip
         /\ NewTrip(w, run[w].vehicle, run'[w].trip)
<1>1. PICK t \in Unused(trips, NoTrip) :
        /\ NewTrip(w, run[w].vehicle, t)
        /\ Go(w, [run[w] EXCEPT !.step = "attach", !.trip = t])
  BY DEF CreateTrip
<1>2. t \in TripId /\ trips[t] = NoTrip
  BY UnusedIsNone, PortalAssumption DEF TypeOK, TripId
<1>3. run[w] \in Run /\ At(w, "startTrip", "createTrip")
  BY DEF TypeOK, CreateTrip, Proceed
<1>4. MayRun(w, run[w].vehicle)
  BY DEF CreateTrip, Proceed, At, Allowed
<1>5. run'[w] = [run[w] EXCEPT !.step = "attach", !.trip = t]
  BY <1>1, GoMine
<1>6. run'[w].cmd = "startTrip" /\ run'[w].step = "attach" /\ run'[w].trip = t
  BY <1>3, <1>5 DEF Run, At
<1> QED BY <1>1, <1>2, <1>3, <1>4, <1>6

LEMMA EndTripGoes ==
  ASSUME TypeOK, Shapes, NEW w \in Worker, EndTrip(w)
  PROVE  /\ At(w, "endTrip", "command") /\ run[w].trip \in OpenTripsOf(w)
         /\ run'[w].cmd = "endTrip" /\ run'[w].step \in {"release", "readOdometer"}
         /\ run'[w].vehicle = trips[run[w].trip].vehicle
         /\ run'[w].trip = run[w].trip /\ run'[w].ended = FALSE
<1>1. run'[w] = [run[w] EXCEPT !.vehicle = trips[run[w].trip].vehicle,
                   !.step = IF run[w].reading = 0 THEN "release" ELSE "readOdometer"]
  BY GoMine DEF EndTrip
<1>2. run[w] \in Run /\ RunShape(run[w]) /\ At(w, "endTrip", "command")
  BY DEF TypeOK, Shapes, EndTrip, Proceed
<1>3. run[w].trip \in OpenTripsOf(w)
  BY DEF EndTrip, Proceed, At, Allowed
<1>4. /\ run'[w].cmd = run[w].cmd /\ run'[w].step \in {"release", "readOdometer"}
      /\ run'[w].vehicle = trips[run[w].trip].vehicle
      /\ run'[w].trip = run[w].trip /\ run'[w].ended = run[w].ended
  BY <1>1, <1>2 DEF Run
<1>5. run[w].ended = FALSE
  BY <1>2 DEF RunShape, At
<1> QED BY <1>2, <1>3, <1>4, <1>5 DEF At

LEMMA EndingGoes ==
  ASSUME TypeOK, Shapes, NEW w \in Worker, ReadOdometer(w) \/ WriteOdometer(w) \/ Release(w)
  PROVE  /\ run[w].cmd = "endTrip"
         /\ run[w].step \in {"readOdometer", "writeOdometer", "release"}
         /\ run'[w].cmd = "endTrip"
         /\ run'[w].step \in {"writeOdometer", "release", "detach"}
         /\ run'[w].step \in {"writeOdometer", "release"} => ~ Release(w)
         /\ run'[w].step = "writeOdometer" =>
              run[w].reading > odometer[run[w].vehicle] /\ UNCHANGED odometer
         /\ run'[w].vehicle = run[w].vehicle /\ run'[w].reading = run[w].reading
         /\ run'[w].trip = run[w].trip /\ run'[w].ended = FALSE
<1>1. RunShape(run[w]) /\ run[w].cmd = "endTrip"
  BY DEF Shapes, ReadOdometer, WriteOdometer, Release, Proceed, At
<1>2. run[w].ended = FALSE
  BY <1>1 DEF RunShape
<1> DEFINE Moved(step) ==
      /\ run'[w].cmd = "endTrip" /\ run'[w].step = step
      /\ run'[w].vehicle = run[w].vehicle /\ run'[w].reading = run[w].reading
      /\ run'[w].trip = run[w].trip /\ run'[w].ended = FALSE
<1>3. \A step : Goto(w, step) => Moved(step)
  BY <1>1, <1>2, GotoMine
<1>4. CASE ReadOdometer(w)
  <2>1. PICK step \in {"writeOdometer", "release"} :
          /\ Goto(w, step) /\ UNCHANGED odometer
          /\ step = "writeOdometer" => run[w].reading > odometer[run[w].vehicle]
    BY <1>4 DEF ReadOdometer, MovesForward, tables
  <2>2. run[w].step = "readOdometer" /\ ~ Release(w)
    BY <1>4 DEF ReadOdometer, Release, Proceed, At
  <2> QED BY <1>1, <1>3, <2>1, <2>2
<1>5. CASE WriteOdometer(w)
  <2>1. run[w].step = "writeOdometer" /\ ~ Release(w) /\ Goto(w, "release")
    BY <1>5 DEF WriteOdometer, Release, Proceed, At
  <2> QED BY <1>1, <1>3, <2>1
<1>6. CASE Release(w)
  <2>1. run[w].step = "release" /\ Goto(w, "detach")
    BY <1>6 DEF Release, Proceed, At
  <2> QED BY <1>1, <1>3, <2>1
<1> QED BY <1>4, <1>5, <1>6

LEMMA DetachGoes ==
  ASSUME TypeOK, Shapes, NEW w \in Worker, Detach(w)
  PROVE  /\ At(w, "endTrip", "detach") /\ run[w].trip \in TripId
         /\ \/ /\ run'[w] = Idle
               /\ \/ \A k \in SessionId : tsession[k].trip # run[w].trip
                  \/ \E k \in SessionId : tsession[k].trip = run[w].trip /\ ~ tsession[k].open
            \/ /\ run'[w].cmd = "endTrip" /\ run'[w].step = "closeSession" /\ run'[w].ended = FALSE
               /\ run'[w].trip = run[w].trip /\ run'[w].session \in SessionId
               /\ tsession[run'[w].session].trip = run[w].trip
<1> DEFINE S == {k \in SessionId : tsession[k].trip = run[w].trip}
<1>1. run[w] \in Run /\ RunShape(run[w]) /\ At(w, "endTrip", "detach")
  BY DEF TypeOK, Shapes, Detach, Proceed
<1>2. run[w].ended = FALSE /\ run[w].trip \in TripId
  BY <1>1 DEF RunShape, At
<1>3. PICK k : /\ k = 0 => S = {}
               /\ k # 0 => k \in S
               /\ IF k # 0 /\ tsession[k].open
                    THEN Go(w, [run[w] EXCEPT !.step = "closeSession", !.session = k])
                    ELSE Done(w)
  BY FirstOfSessions DEF Detach, FindTripSession
<1>4. CASE k # 0 /\ tsession[k].open
  <2>1. run'[w] = [run[w] EXCEPT !.step = "closeSession", !.session = k]
    BY <1>3, <1>4, GoMine
  <2>2. /\ run'[w].cmd = run[w].cmd /\ run'[w].step = "closeSession" /\ run'[w].session = k
        /\ run'[w].trip = run[w].trip /\ run'[w].ended = run[w].ended
    BY <1>1, <2>1 DEF Run
  <2> QED BY <1>1, <1>2, <1>3, <1>4, <2>2 DEF At
<1>5. CASE ~ (k # 0 /\ tsession[k].open)
  BY <1>1, <1>2, <1>3, <1>5, DoneMine
<1> QED BY <1>4, <1>5

LEMMA NextKeepsShapes ==
  ASSUME TypeOK, Shapes, NEW w \in Worker, Serves(w)
  PROVE  Shapes'
<1> DEFINE q == run'[w]
<1>1. SUFFICES RunShape(q)
  BY OnlyMine DEF Shapes
<1>2. RunShape(run[w]) /\ run'[w] = q
  BY DEF Shapes
<1> HIDE DEF q
<1>3. CASE WorkerRequest(w) \/ DriverRequest(w)
  BY <1>2, <1>3, RequestGoes
<1>4. CASE Fault(w) \/ Refuse(w) \/ OpenWork(w) \/ Strip(w) \/ OpenTrip(w) \/ q = Idle
  BY <1>2, <1>4, EndsIdle, IdleShape
<1>5. CASE \/ StartShift(w) \/ EndShift(w) \/ FindWork(w) \/ CloseSession(w) \/ ChangePosition(w)
  <2>1. \/ q = Idle
        \/ q.cmd = "startShift" /\ q.step = "openWork"
        \/ q.cmd = "endShift" /\ q.step \in {"findWork", "closeSession", "strip"}
        \/ q.cmd = "changePosition" /\ q.step = "strip"
    BY <1>2, <1>5, StartShiftGoes, EndShiftGoes, FindWorkGoes, CloseSessionGoes,
       ChangePositionGoes
  <2> QED BY <1>4, <2>1 DEF RunShape
<1>6. CASE BeginDriving(w) \/ Elevate(w) \/ Attach(w)
  <2>1. \/ q = Idle
        \/ /\ q.cmd = "beginDriving" /\ q.step \in {"elevate", "attach", "openTrip"}
           /\ q.vehicle = run[w].vehicle /\ run[w].cmd = "beginDriving"
        \/ q.cmd = "startTrip" /\ q.step = "openTrip"
    <3>1. CASE BeginDriving(w)
      BY <1>2, <3>1, BeginDrivingGoes DEF At
    <3>2. CASE Elevate(w)
      BY <1>2, <3>2, ElevateGoes DEF At
    <3>3. CASE Attach(w)
      BY <1>2, <3>3, AttachGoes
    <3> QED BY <1>6, <3>1, <3>2, <3>3
  <2> QED BY <1>2, <1>4, <2>1 DEF RunShape
<1>7. CASE CurrentVehicle(w) \/ ClaimForTrip(w) \/ CreateTrip(w)
  <2>1. q.cmd = "startTrip" /\ q.step \in {"claimVehicle", "createTrip", "attach"}
    BY <1>2, <1>7, CurrentVehicleGoes, ClaimForTripGoes, CreateTripGoes
  <2> QED BY <2>1 DEF RunShape
<1>8. CASE EndTrip(w) \/ ReadOdometer(w) \/ WriteOdometer(w) \/ Release(w) \/ Detach(w)
  <2>1. \/ q = Idle
        \/ /\ q.cmd = "endTrip" /\ q.ended = FALSE /\ q.trip = run[w].trip /\ run[w].cmd = "endTrip"
           /\ q.step \in {"readOdometer", "writeOdometer", "release", "detach", "closeSession"}
    BY <1>2, <1>8, EndTripGoes, EndingGoes, DetachGoes DEF At
  <2> QED BY <1>2, <1>4, <2>1 DEF RunShape
<1> QED BY <1>3, <1>4, <1>5, <1>6, <1>7, <1>8 DEF Serves, Serve

---------------------------------------------------------------------------
(* Fleet, from the tables a step changes.  Whoever starts or ends a trip, takes a    *)
(* vehicle or gives one back does it to his own, so the others' requests keep what    *)
(* they know.                                                                *)

(* A step that leaves trips, vehicles and days alone has to account for its own       *)
(* request only.                                                             *)
LEMMA QuietKeepsFleet ==
  ASSUME TypeOK, Fleet, NEW w \in Worker, Serves(w),
         UNCHANGED <<trips, held>>,
         \A x \in Worker : day'[x].trip = day[x].trip \/ day'[x].trip = 0,
         \A x \in Worker : x # w => Holds(x)', Holds(w)'
  PROVE  Fleet'
<1>1. FreeIsFree' /\ RunningIsHeld' /\ OneTripEach'
  BY DEF Fleet, FreeIsFree, RunningIsHeld, OneTripEach, Running
<1>2. DayTripIsOwn'
  BY DEF Fleet, DayTripIsOwn
<1> QED BY <1>1, <1>2 DEF Fleet

(* What somebody else knows of his vehicle lasts while his trips, his hold and the     *)
(* odometer of what he holds are left alone.                                     *)
LEMMA OthersHold ==
  ASSUME TypeOK, Fleet, NEW w \in Worker, Serves(w), NEW x \in Worker, x # w,
         \A t \in TripId : Running(t, x)' => Running(t, x),
         \A v \in Vehicle : held[v].driver = x => held'[v].driver = x /\ odometer'[v] = odometer[v]
  PROVE  Holds(x)'
<1>1. run'[x] = run[x] /\ Holds(x)
  BY OnlyMine DEF Fleet
<1> QED BY <1>1 DEF Holds, At
(* Giving back: he ends trips of his own, and frees a vehicle of his when none of his   *)
(* trips goes on.                                                              *)
LEMMA GivingBackKeepsFleet ==
  ASSUME TypeOK, Fleet, NEW w \in Worker, Serves(w), TypeOK',
         \A u \in TripId :
           \/ trips'[u] = trips[u]
           \/ trips'[u] = [trips[u] EXCEPT !.status = "COMPLETED"] /\ Running(u, w),
         \A v \in Vehicle :
           \/ held'[v] = held[v]
           \/ held[v].driver = w /\ held'[v] = Free /\ \A u \in TripId : ~ Running(u, w)',
         \A x \in Worker : day'[x].trip = day[x].trip \/ day'[x].trip = 0,
         odometer' = odometer, Holds(w)'
  PROVE  Fleet'
<1>1. \A u \in TripId : /\ trips'[u].driver = trips[u].driver /\ trips'[u].vehicle = trips[u].vehicle
                        /\ trips'[u].status = "ACTIVE" => trips[u].status = "ACTIVE"
                        /\ \A x \in Worker : x # w => (Running(u, x)' <=> Running(u, x))
                        /\ \A x \in Worker : Running(u, x)' => Running(u, x)
  BY DEF TypeOK, Trip, Running
<1>2. FreeIsFree'
  BY DEF Fleet, FreeIsFree
<1>3. RunningIsHeld'
  BY <1>1 DEF Fleet, RunningIsHeld, Running
<1>4. OneTripEach'
  BY <1>1 DEF Fleet, OneTripEach
<1>5. DayTripIsOwn'
  BY <1>1 DEF Fleet, DayTripIsOwn, TypeOK, Day
<1>6. \A x \in Worker : x # w => Holds(x)'
  BY <1>1, OthersHold
<1> QED BY <1>2, <1>3, <1>4, <1>5, <1>6 DEF Fleet

(* Taking: he claims a vehicle nobody has, or starts a trip on a vehicle he has, having   *)
(* no other.                                                                 *)
LEMMA TakingKeepsFleet ==
  ASSUME TypeOK, Fleet, NEW w \in Worker, Serves(w), TypeOK',
         \A v \in Vehicle : held'[v] = held[v] \/ (held[v] = Free /\ held'[v].driver = w),
         \A u \in TripId :
           \/ trips'[u] = trips[u]
           \/ /\ trips[u] = NoTrip /\ trips'[u].status = "ACTIVE" /\ trips'[u].driver = w
              /\ trips'[u].vehicle \in Vehicle /\ held'[trips'[u].vehicle].driver = w
              /\ \A t \in TripId : ~ Running(t, w) /\ (t # u => trips'[t] = trips[t]),
         \A x \in Worker : \/ day'[x].trip = day[x].trip
                           \/ x = w /\ trips'[day'[x].trip].driver = w,
         odometer' = odometer, Holds(w)'
  PROVE  Fleet'
<1>1. \A v \in Vehicle : held[v].driver # Nobody => held'[v] = held[v]
  BY DEF Free
<1>2. Nobody \notin Worker
  BY PortalAssumption
<1>3. FreeIsFree'
  BY <1>2 DEF Fleet, FreeIsFree
<1>4. RunningIsHeld'
  BY <1>1, <1>2 DEF Fleet, RunningIsHeld
<1>5. OneTripEach'
  BY DEF Fleet, OneTripEach, Running
<1>6. DayTripIsOwn'
  <2>1. ASSUME NEW x \in Worker, day'[x].trip # 0
        PROVE  trips'[day'[x].trip].driver = x
    <3>1. CASE day'[x].trip = day[x].trip
      <4>1. day[x].trip \in TripId /\ trips[day[x].trip].driver = x
        BY <2>1, <3>1 DEF Fleet, DayTripIsOwn, TypeOK, Day
      <4> QED BY <1>2, <3>1, <4>1 DEF NoTrip
    <3> QED BY <3>1
  <2> QED BY <2>1 DEF DayTripIsOwn
<1>7. ASSUME NEW x \in Worker, x # w
      PROVE  Holds(x)'
  <2>1. \A u \in TripId : Running(u, x)' => Running(u, x)
    BY <1>7 DEF Running
  <2> QED BY <1>1, <1>2, <1>7, <2>1, OthersHold
<1> QED BY <1>3, <1>4, <1>5, <1>6, <1>7 DEF Fleet
(* The requests that know nothing of a vehicle.                                   *)
LEMMA HoldsNothing ==
  ASSUME NEW w \in Worker,
         \/ run'[w] = Idle \/ run'[w].step = "command"
         \/ run'[w].cmd \notin {"startTrip", "endTrip"}
         \/ run'[w].cmd = "startTrip" /\ run'[w].step \in {"attach", "openTrip"}
  PROVE  Holds(w)'
<1>1. Idle.cmd = "none"
  BY DEF Idle
<1> QED BY <1>1 DEF Holds, At
LEMMA QuietStepKeepsFleet ==
  ASSUME TypeOK, Shapes, Fleet, NEW w \in Worker, Serves(w),
         \/ WorkerRequest(w) \/ DriverRequest(w) \/ Fault(w) \/ Refuse(w) \/ StartShift(w)
         \/ OpenWork(w) \/ FindWork(w) \/ CloseSession(w) \/ Strip(w) \/ Elevate(w)
         \/ Attach(w) \/ OpenTrip(w) \/ Detach(w)
  PROVE  Fleet'
<1>1. /\ UNCHANGED <<trips, held, odometer>>
      /\ \A x \in Worker : day'[x].trip = day[x].trip \/ day'[x].trip = 0
  <2>1. CASE WorkerRequest(w) \/ DriverRequest(w)
    BY <2>1, RequestGoes DEF tables
  <2>2. CASE StartShift(w)
    <3>1. PICK i : day' = [day EXCEPT ![w] = [shift |-> i, at |-> "floor", trip |-> 0]]
      BY <2>2, StartShiftGoes
    <3> QED BY <2>2, <3>1 DEF StartShift, TypeOK
  <2>3. CASE \/ Fault(w) \/ Refuse(w) \/ OpenWork(w) \/ FindWork(w) \/ CloseSession(w)
             \/ Strip(w) \/ Elevate(w) \/ Attach(w) \/ OpenTrip(w) \/ Detach(w)
    BY <2>3 DEF Fault, Refuse, OpenWork, FindWork, CloseSession, Strip, Elevate, Attach,
                OpenTrip, Detach, tables
  <2> QED BY <2>1, <2>2, <2>3
<1>2. \A x \in Worker : x # w => Holds(x)'
  BY <1>1, OthersHold DEF Running
<1>3. CASE ~ Detach(w)
  <2>1. \/ run'[w] = Idle \/ run'[w].step = "command"
        \/ run'[w].cmd \in {"startShift", "endShift", "beginDriving"}
        \/ run'[w].cmd \in {"startTrip", "beginDriving"} /\ run'[w].step = "openTrip"
    <3>1. CASE WorkerRequest(w) \/ DriverRequest(w)
      BY <3>1, RequestGoes
    <3>2. CASE Fault(w) \/ Refuse(w) \/ OpenWork(w) \/ Strip(w) \/ OpenTrip(w)
      BY <3>2, EndsIdle
    <3>3. CASE StartShift(w)
      BY <3>3, StartShiftGoes
    <3>4. CASE FindWork(w)
      BY <3>4, FindWorkGoes
    <3>5. CASE CloseSession(w)
      BY <3>5, CloseSessionGoes
    <3>6. CASE Elevate(w)
      BY <3>6, ElevateGoes
    <3>7. CASE Attach(w)
      BY <3>7, AttachGoes
    <3> QED BY <1>3, <3>1, <3>2, <3>3, <3>4, <3>5, <3>6, <3>7
  <2>2. Holds(w)'
    BY <2>1, HoldsNothing
  <2> QED BY <1>1, <1>2, <2>2, QuietKeepsFleet
<1>4. CASE Detach(w)
  <2>1. At(w, "endTrip", "detach")
        /\ (run'[w] = Idle \/ (run'[w].cmd = "endTrip" /\ run'[w].step = "closeSession"))
    BY <1>4, DetachGoes
  <2>2. \A t \in TripId : ~ Running(t, w)
    BY <2>1 DEF Fleet, Holds, At
  <2>3. CASE run'[w] = Idle
    BY <1>1, <1>2, <2>3, HoldsNothing, QuietKeepsFleet
  <2>4. CASE run'[w].cmd = "endTrip" /\ run'[w].step = "closeSession"
    <3>1. Holds(w)'
      BY <1>1, <2>2, <2>4 DEF Holds, At, Running
    <3> QED BY <1>1, <1>2, <3>1, QuietKeepsFleet
  <2> QED BY <2>1, <2>3, <2>4
<1> QED BY <1>3, <1>4

LEMMA LeavingKeepsFleet ==
  ASSUME TypeOK, Shapes, Fleet, NEW w \in Worker, Serves(w), TypeOK',
         EndShift(w) \/ ChangePosition(w)
  PROVE  Fleet'
<1>1. Holds(w)'
  <2>1. run'[w].cmd \in {"endShift", "changePosition"} \/ run'[w] = Idle
    BY EndShiftGoes, ChangePositionGoes
  <2> QED BY <2>1, HoldsNothing
<1>2. /\ EndDriving(w) /\ odometer' = odometer
      /\ \A x \in Worker : day'[x].trip = day[x].trip \/ day'[x].trip = 0
  BY DEF EndShift, ChangePosition, TypeOK, Day, OffDuty
<1>3. CASE UNCHANGED <<trips, held>>
  <2>1. \A x \in Worker : x # w => Holds(x)'
    BY <1>2, <1>3, OthersHold DEF Running
  <2> QED BY <1>1, <1>2, <1>3, <2>1, QuietKeepsFleet
<1>4. ASSUME NEW t \in TripId, t = day[w].trip, trips[t].status = "ACTIVE",
             trips' = [trips EXCEPT ![t].status = "COMPLETED"],
             held' = ReleaseAutomatic(w, trips[t].vehicle)
      PROVE  Fleet'
  <2>1. Running(t, w)
    BY <1>4, PortalAssumption DEF Fleet, DayTripIsOwn, Running, TripId
  <2>2. trips'[t] = [trips[t] EXCEPT !.status = "COMPLETED"]
        /\ \A u \in TripId : u # t => trips'[u] = trips[u]
    BY <1>4 DEF TypeOK
  <2>3. trips'[t].status = "COMPLETED"
    BY <2>2 DEF TypeOK, Trip
  <2>4. \A u \in TripId : ~ Running(u, w)'
    BY <2>1, <2>2, <2>3 DEF Fleet, OneTripEach, Running
  <2>5. \A v \in Vehicle : held'[v] = held[v] \/ (held[v].driver = w /\ held'[v] = Free)
    BY <1>4 DEF ReleaseAutomatic, TypeOK
  <2> QED BY <1>1, <1>2, <2>1, <2>2, <2>4, <2>5, GivingBackKeepsFleet
<1> QED BY <1>2, <1>3, <1>4, EndDrivingEnds

LEMMA TakingStepKeepsFleet ==
  ASSUME TypeOK, Shapes, Fleet, NEW w \in Worker, Serves(w), TypeOK',
         BeginDriving(w) \/ CurrentVehicle(w) \/ ClaimForTrip(w) \/ CreateTrip(w)
  PROVE  Fleet'
<1>1. ASSUME NEW v \in Vehicle, held[v].driver \in {Nobody, w}
      PROVE  /\ Claimed(w, v)[v].driver = w
             /\ \A u \in Vehicle : \/ Claimed(w, v)[u] = held[u]
                                   \/ held[u] = Free /\ Claimed(w, v)[u].driver = w
  <2>1. held[v] = Free \/ (held[v] # Free /\ held[v].driver = w)
    BY <1>1 DEF Fleet, FreeIsFree
  <2> QED BY <2>1 DEF Claimed, TypeOK
<1>2. ASSUME NEW t \in TripId, trips[t] = NoTrip, NEW v \in Vehicle, NewTrip(w, v, t)
      PROVE  /\ trips'[t].status = "ACTIVE" /\ trips'[t].driver = w /\ trips'[t].vehicle = v
             /\ \A u \in TripId : u # t => trips'[u] = trips[u]
  BY <1>2 DEF NewTrip, TypeOK
<1>3. CASE BeginDriving(w)
  <2>1. PICK v \in Vehicle, t \in TripId :
          /\ v = run[w].vehicle /\ t = run'[w].trip
          /\ MayPlan(w, v) /\ MayRun(w, v) /\ trips[t] = NoTrip /\ NewTrip(w, v, t)
          /\ day' = [day EXCEPT ![w].at = "driving", ![w].trip = t]
    BY <1>3, BeginDrivingGoes
  <2>2. held' = Claimed(w, v) /\ odometer' = odometer
    BY <1>3, <2>1 DEF BeginDriving
  <2>3. held[v].driver \in {Nobody, w} /\ \A u \in TripId : ~ Running(u, w)
    BY <2>1 DEF MayPlan, MayRun, OpenTripsOf, Running
  <2>4. \A x \in Worker : \/ day'[x].trip = day[x].trip
                          \/ x = w /\ day'[x].trip = t
    BY <2>1 DEF TypeOK, Day
  <2>5. Holds(w)'
    BY <1>3, BeginDrivingGoes, HoldsNothing
  <2>6. held'[v].driver = w
        /\ \A u \in Vehicle : held'[u] = held[u] \/ (held[u] = Free /\ held'[u].driver = w)
    BY <1>1, <2>2, <2>3
  <2>7. /\ trips'[t].status = "ACTIVE" /\ trips'[t].driver = w /\ trips'[t].vehicle = v
        /\ \A u \in TripId : u # t => trips'[u] = trips[u]
    BY <1>2, <2>1
  <2>8. \A x \in Worker : \/ day'[x].trip = day[x].trip
                          \/ x = w /\ trips'[day'[x].trip].driver = w
    BY <2>4, <2>7
  <2>9. \A u \in TripId :
          \/ trips'[u] = trips[u]
          \/ /\ trips[u] = NoTrip /\ trips'[u].status = "ACTIVE" /\ trips'[u].driver = w
             /\ trips'[u].vehicle \in Vehicle /\ held'[trips'[u].vehicle].driver = w
             /\ \A x \in TripId : ~ Running(x, w) /\ (x # u => trips'[x] = trips[x])
    BY <2>1, <2>3, <2>6, <2>7
  <2> QED BY <2>2, <2>5, <2>6, <2>8, <2>9, TakingKeepsFleet
<1>4. CASE CurrentVehicle(w)
  <2>1. UNCHANGED <<trips, held, day, odometer>>
    BY <1>4 DEF CurrentVehicle, tables
  <2>2. Holds(w)'
    BY <1>4, <2>1, CurrentVehicleGoes DEF Holds, At, AssignedTo, OpenTripsOf, Running
  <2>3. \A x \in Worker : x # w => Holds(x)'
    BY <2>1, OthersHold DEF Running
  <2> QED BY <2>1, <2>2, <2>3, QuietKeepsFleet
<1>5. CASE ClaimForTrip(w)
  <2>1. PICK v \in Vehicle : v = run[w].vehicle /\ MayPlan(w, v) /\ run'[w].vehicle = v
    BY <1>5, ClaimForTripGoes DEF Fleet, Holds
  <2>2. held' = Claimed(w, v) /\ UNCHANGED <<trips, day, odometer>>
    BY <1>5, <2>1 DEF ClaimForTrip
  <2>3. held[v].driver \in {Nobody, w}
    BY <2>1 DEF MayPlan
  <2>4. Holds(w)'
    BY <1>1, <1>5, <2>1, <2>2, <2>3, ClaimForTripGoes DEF Holds, At
  <2> QED BY <1>1, <2>2, <2>3, <2>4, TakingKeepsFleet
<1>6. CASE CreateTrip(w)
  <2>1. PICK v \in Vehicle, t \in TripId :
          /\ v = run[w].vehicle /\ held[v].driver = w /\ MayRun(w, v)
          /\ trips[t] = NoTrip /\ NewTrip(w, v, t)
    BY <1>6, CreateTripGoes DEF Fleet, Holds
  <2>2. UNCHANGED <<held, day, odometer>>
    BY <1>6 DEF CreateTrip
  <2>3. \A u \in TripId : ~ Running(u, w)
    BY <2>1 DEF MayRun, OpenTripsOf, Running
  <2>4. Holds(w)'
    BY <1>6, CreateTripGoes, HoldsNothing
  <2> QED BY <1>2, <2>1, <2>2, <2>3, <2>4, TakingKeepsFleet
<1> QED BY <1>3, <1>4, <1>5, <1>6

LEMMA EndingKeepsFleet ==
  ASSUME TypeOK, Shapes, Fleet, NEW w \in Worker, Serves(w), TypeOK',
         EndTrip(w) \/ ReadOdometer(w) \/ WriteOdometer(w) \/ Release(w)
  PROVE  Fleet'
<1>1. CASE EndTrip(w)
  <2>1. PICK t \in TripId : t = run[w].trip /\ Running(t, w)
    BY <1>1, EndTripGoes DEF OpenTripsOf, Running
  <2>2. trips' = [trips EXCEPT ![t].status = "COMPLETED"] /\ UNCHANGED <<held, odometer, day>>
    BY <1>1, <2>1 DEF EndTrip
  <2>3. /\ trips'[t] = [trips[t] EXCEPT !.status = "COMPLETED"]
        /\ \A u \in TripId : u # t => trips'[u] = trips[u]
    BY <2>2 DEF TypeOK
  <2>4. \A u \in TripId : ~ Running(u, w)'
    <3>1. trips'[t].status = "COMPLETED"
      BY <2>3 DEF TypeOK, Trip
    <3>2. ASSUME NEW u \in TripId, Running(u, w)'
          PROVE  FALSE
      <4>1. u # t
        BY <3>1, <3>2 DEF Running
      <4>2. Running(u, w)
        BY <2>3, <3>2, <4>1 DEF Running
      <4> QED BY <2>1, <4>1, <4>2 DEF Fleet, OneTripEach
    <3> QED BY <3>2
  <2>5. run'[w].vehicle \in Vehicle /\ held[run'[w].vehicle].driver = w
    BY <1>1, <2>1, EndTripGoes DEF Fleet, RunningIsHeld, Running
  <2>6. Holds(w)'
    BY <1>1, <2>2, <2>4, <2>5, EndTripGoes DEF Holds, At
  <2> QED BY <2>1, <2>2, <2>3, <2>6, GivingBackKeepsFleet
<1>2. ASSUME ReadOdometer(w) \/ WriteOdometer(w) \/ Release(w)
      PROVE  /\ UNCHANGED <<trips, day>>
             /\ run[w].vehicle \in Vehicle /\ held[run[w].vehicle].driver = w
             /\ run'[w].vehicle = run[w].vehicle
             /\ \A t \in TripId : ~ Running(t, w) /\ ~ Running(t, w)'
  <2>1. /\ run[w].cmd = "endTrip" /\ run'[w].vehicle = run[w].vehicle
        /\ run[w].step \in {"readOdometer", "writeOdometer", "release"}
    BY <1>2, EndingGoes
  <2>2. UNCHANGED <<trips, day>>
    BY <1>2 DEF ReadOdometer, WriteOdometer, Release, tables
  <2> QED BY <2>1, <2>2 DEF Fleet, Holds, Running
<1>3. CASE ReadOdometer(w)
  <2>1. UNCHANGED <<held, odometer>>
    BY <1>3 DEF ReadOdometer, tables
  <2>2. Holds(w)'
    BY <1>2, <1>3, <2>1, EndingGoes DEF Holds, At
  <2>3. \A x \in Worker : x # w => Holds(x)'
    BY <1>2, <1>3, <2>1, OthersHold DEF Running
  <2> QED BY <1>2, <1>3, <2>1, <2>2, <2>3, QuietKeepsFleet
<1>4. CASE WriteOdometer(w)
  <2>1. /\ UNCHANGED held /\ run'[w].cmd = "endTrip" /\ run'[w].step = "release"
        /\ odometer' = [odometer EXCEPT ![run[w].vehicle] = run[w].reading]
    BY <1>4, GotoMine DEF WriteOdometer, Proceed, At
  <2>2. Holds(w)'
    BY <1>2, <1>4, <2>1 DEF Holds, At
  <2>3. \A v \in Vehicle : v # run[w].vehicle => odometer'[v] = odometer[v]
    BY <2>1 DEF TypeOK
  <2>4. \A x \in Worker : x # w => Holds(x)'
    BY <1>2, <1>4, <2>1, <2>3, OthersHold DEF Running
  <2> QED BY <1>2, <1>4, <2>1, <2>2, <2>4, QuietKeepsFleet
<1>5. CASE Release(w)
  <2>1. /\ UNCHANGED odometer /\ run'[w].cmd = "endTrip" /\ run'[w].step = "detach"
        /\ held' = ReleaseAutomatic(w, run[w].vehicle)
    BY <1>5, GotoMine DEF Release, Proceed, At
  <2>2. Holds(w)'
    BY <1>2, <1>5, <2>1 DEF Holds, At
  <2>3. \A v \in Vehicle : held'[v] = held[v] \/ (held[v].driver = w /\ held'[v] = Free)
    BY <2>1 DEF ReleaseAutomatic, TypeOK
  <2> QED BY <1>2, <1>5, <2>1, <2>2, <2>3, GivingBackKeepsFleet
<1> QED BY <1>1, <1>3, <1>4, <1>5

LEMMA NextKeepsFleet ==
  ASSUME TypeOK, Shapes, Fleet, NEW w \in Worker, Serves(w), TypeOK'
  PROVE  Fleet'
BY QuietStepKeepsFleet, LeavingKeepsFleet, TakingStepKeepsFleet, EndingKeepsFleet
DEF Serves, Serve

FleetInv == TypeOK /\ Shapes /\ Fleet

LEMMA IdleInit ==
  ASSUME Init, NEW w \in Worker
  PROVE  run[w] = Idle /\ run[w].cmd = "none" /\ run[w].step = "idle" /\ RunShape(run[w])
BY IdleShape DEF Init, Idle

LEMMA InitFleet == Init => FleetInv
<1> SUFFICES ASSUME Init PROVE FleetInv
  OBVIOUS
<1>1. FreeIsFree
  <2>1. ASSUME NEW v \in Vehicle, held[v] # Free
        PROVE  held[v].driver \in Worker
    <3>1. held[v] \in {Free} \cup {[driver |-> w, isAutomatic |-> FALSE] : w \in Worker}
      BY DEF Init
    <3> QED BY <2>1, <3>1
  <2> QED BY <2>1, PortalAssumption DEF FreeIsFree
<1>2. \A t \in TripId : trips[t].status # "ACTIVE"
  BY DEF Init, NoTrip
<1>3. \A w \in Worker : day[w].trip = 0
  BY DEF Init, OffDuty
<1>4. \A w \in Worker : Holds(w)
  BY IdleInit DEF Holds, At
<1>5. Fleet
  BY <1>1, <1>2, <1>3, <1>4 DEF Fleet, RunningIsHeld, OneTripEach, DayTripIsOwn, Running
<1> QED BY <1>5, InitTyped, IdleInit DEF FleetInv, Shapes

LEMMA NextFleet == FleetInv /\ [Next]_vars => FleetInv'
<1> SUFFICES ASSUME FleetInv, [Next]_vars PROVE FleetInv'
  OBVIOUS
<1>1. TypeOK'
  BY NextTyped DEF FleetInv
<1>2. CASE UNCHANGED vars
  <2>1. Shapes'
    BY <1>2 DEF FleetInv, vars, Shapes
  <2>2. \A w \in Worker : Holds(w)'
    BY <1>2 DEF FleetInv, Fleet, Holds, At, Running, vars, tables
  <2>3. (FreeIsFree /\ RunningIsHeld /\ OneTripEach /\ DayTripIsOwn)'
    BY <1>2 DEF FleetInv, Fleet, FreeIsFree, RunningIsHeld, OneTripEach, DayTripIsOwn, Running,
                vars, tables
  <2> QED BY <1>1, <2>1, <2>2, <2>3 DEF FleetInv, Fleet
<1>3. CASE Next
  <2>1. PICK w \in Worker : Serves(w)
    BY <1>3 DEF Next, Serves
  <2> QED BY <1>1, <2>1, NextKeepsShapes, NextKeepsFleet DEF FleetInv
<1> QED BY <1>2, <1>3

(* Only the write of an ended trip moves an odometer, and what it was compared with is  *)
(* still there.                                                              *)
LEMMA OdometerStep ==
  ASSUME FleetInv, [Next]_vars, NEW v \in Vehicle
  PROVE  odometer'[v] >= odometer[v]
<1>1. odometer[v] \in Nat
  BY PortalAssumption DEF FleetInv, TypeOK, Reading
<1>2. CASE UNCHANGED odometer
  BY <1>1, <1>2
<1>3. ASSUME NEW w \in Worker, WriteOdometer(w)
      PROVE  odometer'[v] >= odometer[v]
  <2>1. run[w].reading > odometer[run[w].vehicle]
    BY <1>3 DEF FleetInv, Fleet, Holds, WriteOdometer, Proceed
  <2>2. odometer' = [odometer EXCEPT ![run[w].vehicle] = run[w].reading]
    BY <1>3 DEF WriteOdometer
  <2>3. run[w].reading \in Nat
    BY PortalAssumption DEF FleetInv, TypeOK, Run, Reading
  <2>4. CASE v = run[w].vehicle
    BY <1>1, <2>1, <2>2, <2>3, <2>4 DEF FleetInv, TypeOK
  <2>5. CASE v # run[w].vehicle
    <3>1. odometer'[v] = odometer[v]
      BY <2>2, <2>5 DEF FleetInv, TypeOK
    <3> QED BY <1>1, <3>1
  <2> QED BY <2>4, <2>5
<1>4. CASE ~ UNCHANGED odometer
  <2>1. PICK w \in Worker : Serves(w)
    BY <1>4 DEF Next, Serves, vars, tables
  <2>2. WriteOdometer(w)
    BY <1>4, <2>1
    DEF Serves, Serve, WorkerRequest, DriverRequest, Ask, Fault, Refuse, StartShift, OpenWork,
        EndShift, FindWork, CloseSession, Strip, ChangePosition, BeginDriving, Elevate, Attach,
        OpenTrip, CurrentVehicle, ClaimForTrip, CreateTrip, EndTrip, ReadOdometer, Release,
        Detach, tables
  <2> QED BY <1>3, <2>2
<1> QED BY <1>2, <1>4

(* The odometer of a vehicle never goes back, although a trip's end compares it and     *)
(* writes it in two steps: until the vehicle is released nobody else ends a trip on it.  *)
THEOREM OdometerNeverBack == Spec => OdometerForward
<1>1. FleetInv /\ [Next]_vars => [\A v \in Vehicle : odometer'[v] >= odometer[v]]_vars
  BY OdometerStep
<1> QED BY <1>1, InitFleet, NextFleet, PTL DEF Spec, OdometerForward
---------------------------------------------------------------------------
(* Sessions.  The steps that touch the tracking sessions open a row nobody has used, or   *)
(* close one.                                                                *)

LEMMA OthersClose ==
  ASSUME TypeOK, Sessions, NEW w \in Worker, Serves(w), NEW x \in Worker, x # w,
         \A k \in SessionId :
           tsession[k] = NotOpened
           \/ /\ tsession'[k].context = tsession[k].context
              /\ tsession'[k].owner = tsession[k].owner,
         \A k \in SessionId : OpenWorkSession(k, x)' => OpenWorkSession(k, x)
  PROVE  Closes(x)'
<1>1. run'[x] = run[x] /\ Closes(x)
  BY OnlyMine DEF Sessions
<1>2. NotOpened.context = "NONE"
  BY DEF NotOpened
<1>3. run[x].step = "closeSession" => run[x].session \in SessionId
  BY <1>1 DEF Closes
<1> QED BY <1>1, <1>2, <1>3 DEF Closes, At

LEMMA QuietKeepsSessions ==
  ASSUME TypeOK, Sessions, NEW w \in Worker, Serves(w), UNCHANGED tsession, Closes(w)'
  PROVE  Sessions'
<1>1. TripsHaveTheirOwn' /\ OneDayEach'
  BY DEF Sessions, TripsHaveTheirOwn, OneDayEach, OpenWorkSession
<1>2. \A x \in Worker : x # w => Closes(x)'
  BY OthersClose DEF OpenWorkSession
<1> QED BY <1>1, <1>2 DEF Sessions

LEMMA ClosesNothing ==
  ASSUME NEW w \in Worker,
         \/ run'[w] = Idle
         \/ run'[w].step \notin {"closeSession", "strip"}
         \/ run'[w].cmd = "changePosition" /\ run'[w].step = "strip"
  PROVE  Closes(w)'
<1>1. Idle.step = "idle"
  BY DEF Idle
<1> QED BY <1>1 DEF Closes, At

LEMMA NextKeepsSessions ==
  ASSUME TypeOK, Shapes, Sessions, NEW w \in Worker, Serves(w), TypeOK'
  PROVE  Sessions'
<1>1. CASE OpenWork(w)
  <2>1. PICK k \in SessionId :
          /\ tsession[k] = NotOpened
          /\ tsession' = [tsession EXCEPT ![k] =
               [context |-> "WORK", owner |-> w, shift |-> run[w].shift, trip |-> 0, open |-> TRUE]]
    BY <1>1, UnusedIsNone, PortalAssumption DEF OpenWork, TypeOK, SessionId
  <2>2. \A j \in SessionId : ~ OpenWorkSession(j, w)
    BY <1>1 DEF OpenWork, Proceed, At, Allowed, OpenWorkOf, OpenWorkSession
  <2>3. /\ tsession'[k].context = "WORK" /\ tsession'[k].owner = w /\ tsession'[k].trip = 0
        /\ \A j \in SessionId : j # k => tsession'[j] = tsession[j]
    BY <2>1 DEF TypeOK
  <2>4. TripsHaveTheirOwn'
    BY <2>3 DEF Sessions, TripsHaveTheirOwn
  <2>5. OneDayEach'
    BY <2>2, <2>3 DEF Sessions, OneDayEach, OpenWorkSession
  <2>6. \A x \in Worker : x # w => Closes(x)'
    BY <2>1, <2>3, OthersClose DEF OpenWorkSession
  <2>7. Closes(w)'
    BY <1>1, EndsIdle, ClosesNothing
  <2> QED BY <2>4, <2>5, <2>6, <2>7 DEF Sessions
<1>2. CASE OpenTrip(w)
  <2>1. PICK k \in Unused(tsession, NotOpened) :
          tsession' = [tsession EXCEPT ![k] =
            [context |-> "DRIVER_TRIP", owner |-> w, shift |-> 0, trip |-> run[w].trip,
             open |-> TRUE]]
    BY <1>2 DEF OpenTrip
  <2>2. k \in SessionId /\ tsession[k] = NotOpened
    BY UnusedIsNone, PortalAssumption DEF TypeOK, SessionId
  <2>3. /\ tsession'[k].context = "DRIVER_TRIP"
        /\ \A j \in SessionId : j # k => tsession'[j] = tsession[j]
    BY <2>2, <2>1 DEF TypeOK
  <2>4. \A j \in SessionId, x \in Worker : OpenWorkSession(j, x)' => OpenWorkSession(j, x)
    BY <2>3 DEF OpenWorkSession
  <2>5. TripsHaveTheirOwn'
    BY <2>3 DEF Sessions, TripsHaveTheirOwn
  <2>6. OneDayEach'
    BY <2>4 DEF Sessions, OneDayEach
  <2>7. \A x \in Worker : x # w => Closes(x)'
    BY <2>2, <2>1, <2>3, <2>4, OthersClose
  <2>8. Closes(w)'
    BY <1>2, EndsIdle, ClosesNothing
  <2> QED BY <2>5, <2>6, <2>7, <2>8 DEF Sessions
<1>3. CASE CloseSession(w)
  <2>1. PICK s \in SessionId : s = run[w].session
    BY <1>3 DEF Sessions, Closes, CloseSession
  <2>2. tsession' = [tsession EXCEPT ![s].open = FALSE]
    BY <1>3, <2>1 DEF CloseSession
  <2>3. /\ tsession'[s] = [tsession[s] EXCEPT !.open = FALSE]
        /\ \A j \in SessionId : j # s => tsession'[j] = tsession[j]
    BY <2>2 DEF TypeOK
  <2>4. /\ tsession'[s].context = tsession[s].context /\ tsession'[s].owner = tsession[s].owner
        /\ tsession'[s].trip = tsession[s].trip /\ tsession'[s].open = FALSE
    BY <2>3 DEF TypeOK, TrackingSession
  <2>5. /\ \A j \in SessionId, x \in Worker : OpenWorkSession(j, x)' => OpenWorkSession(j, x)
        /\ \A x \in Worker : ~ OpenWorkSession(s, x)'
    BY <2>3, <2>4 DEF OpenWorkSession
  <2>6. TripsHaveTheirOwn'
    BY <2>3, <2>4 DEF Sessions, TripsHaveTheirOwn
  <2>7. OneDayEach'
    BY <2>5 DEF Sessions, OneDayEach
  <2>8. \A x \in Worker : x # w => Closes(x)'
    BY <2>3, <2>4, <2>5, OthersClose
  <2>9. Closes(w)'
    <3>1. CASE run'[w] = Idle
      BY <3>1, ClosesNothing
    <3>2. CASE run[w].cmd = "endShift" /\ run'[w].cmd = "endShift" /\ run'[w].step = "strip"
      <4>1. \A k \in SessionId : OpenWorkSession(k, w) => k = s
        BY <1>3, <2>1, <3>2 DEF Sessions, Closes, At, CloseSession
      <4>2. \A k \in SessionId : ~ OpenWorkSession(k, w)'
        BY <2>5, <4>1
      <4> QED BY <3>2, <4>2 DEF Closes, At
    <3> QED BY <1>3, <3>1, <3>2, CloseSessionGoes
  <2> QED BY <2>6, <2>7, <2>8, <2>9 DEF Sessions
<1>4. CASE \/ WorkerRequest(w) \/ DriverRequest(w) \/ Fault(w) \/ Refuse(w) \/ Strip(w)
           \/ StartShift(w) \/ EndShift(w) \/ ChangePosition(w)
           \/ BeginDriving(w) \/ Elevate(w) \/ Attach(w)
           \/ CurrentVehicle(w) \/ ClaimForTrip(w) \/ CreateTrip(w)
           \/ EndTrip(w) \/ ReadOdometer(w) \/ WriteOdometer(w) \/ Release(w)
  <2>1. \/ run'[w] = Idle
        \/ run'[w].step \notin {"closeSession", "strip"}
        \/ run'[w].cmd = "changePosition" /\ run'[w].step = "strip"
    <3>1. CASE WorkerRequest(w) \/ DriverRequest(w)
      BY <3>1, RequestGoes
    <3>2. CASE Fault(w) \/ Refuse(w) \/ Strip(w)
      BY <3>2, EndsIdle
    <3>3. CASE StartShift(w) \/ EndShift(w) \/ ChangePosition(w)
      BY <3>3, StartShiftGoes, EndShiftGoes, ChangePositionGoes
    <3>4. CASE BeginDriving(w) \/ Elevate(w) \/ Attach(w)
      BY <3>4, BeginDrivingGoes, ElevateGoes, AttachGoes
    <3>5. CASE CurrentVehicle(w) \/ ClaimForTrip(w) \/ CreateTrip(w)
      BY <3>5, CurrentVehicleGoes, ClaimForTripGoes, CreateTripGoes
    <3>6. CASE EndTrip(w) \/ ReadOdometer(w) \/ WriteOdometer(w) \/ Release(w)
      BY <3>6, EndTripGoes, EndingGoes
    <3> QED BY <1>4, <3>1, <3>2, <3>3, <3>4, <3>5, <3>6
  <2>2. UNCHANGED tsession
    BY <1>4
    DEF WorkerRequest, DriverRequest, Ask, Fault, Refuse, Strip, StartShift, EndShift,
        ChangePosition, BeginDriving, Elevate, Attach, CurrentVehicle, ClaimForTrip, CreateTrip,
        EndTrip, ReadOdometer, WriteOdometer, Release, tables
  <2> QED BY <2>1, <2>2, ClosesNothing, QuietKeepsSessions
<1>5. CASE FindWork(w)
  <2>1. UNCHANGED tsession
    BY <1>5 DEF FindWork, tables
  <2>2. \/ run'[w] = Idle
        \/ /\ run'[w].cmd = "endShift" /\ run'[w].step = "strip"
           /\ \A k \in SessionId : ~ OpenWorkSession(k, w)
        \/ /\ run'[w].cmd = "endShift" /\ run'[w].step = "closeSession"
           /\ run'[w].session \in SessionId /\ OpenWorkSession(run'[w].session, w)
    BY <1>5, FindWorkGoes DEF OpenWorkOf, OpenWorkSession
  <2>3. Closes(w)'
    <3>1. CASE run'[w] = Idle
      BY <3>1, ClosesNothing
    <3>2. CASE run'[w].step = "strip" /\ run'[w].cmd = "endShift"
      BY <2>1, <2>2, <3>1, <3>2 DEF Closes, At, OpenWorkSession
    <3>3. CASE run'[w].step = "closeSession" /\ run'[w].cmd = "endShift"
      <4>1. PICK s \in SessionId : s = run'[w].session
        BY <2>2, <3>3 DEF Idle
      <4>2. OpenWorkSession(s, w)
        BY <2>2, <3>3, <4>1 DEF Idle
      <4>3. \A k \in SessionId : OpenWorkSession(k, w) => k = s
        BY <4>2 DEF Sessions, OneDayEach
      <4> QED BY <2>1, <3>3, <4>1, <4>2, <4>3 DEF Closes, At, OpenWorkSession
    <3> QED BY <2>2, <3>1, <3>2, <3>3
  <2> QED BY <2>1, <2>3, QuietKeepsSessions
<1>6. CASE Detach(w)
  <2>1. UNCHANGED tsession
    BY <1>6 DEF Detach, tables
  <2>2. CASE run'[w] = Idle
    BY <2>1, <2>2, ClosesNothing, QuietKeepsSessions
  <2>3. CASE run'[w].cmd = "endTrip" /\ run'[w].step = "closeSession"
    <3>1. /\ run'[w].session \in SessionId /\ run[w].trip \in TripId
          /\ tsession[run'[w].session].trip = run[w].trip
      <4>1. run'[w] # Idle
        BY <2>3 DEF Idle
      <4> QED BY <1>6, <4>1, DetachGoes
    <3>2. tsession[run'[w].session].context = "DRIVER_TRIP"
      BY <3>1, PortalAssumption DEF Sessions, TripsHaveTheirOwn, TripId
    <3>3. Closes(w)'
      BY <2>1, <2>3, <3>1, <3>2 DEF Closes, At
    <3> QED BY <2>1, <3>3, QuietKeepsSessions
  <2> QED BY <1>6, <2>2, <2>3, DetachGoes
<1> QED BY <1>1, <1>2, <1>3, <1>4, <1>5, <1>6 DEF Serves, Serve

SessionsInv == TypeOK /\ Shapes /\ Sessions

LEMMA InitSessions == Init => SessionsInv
<1> SUFFICES ASSUME Init PROVE SessionsInv
  OBVIOUS
<1>1. \A k \in SessionId : tsession[k].trip = 0 /\ tsession[k].open = FALSE
  BY DEF Init, NotOpened
<1>2. \A w \in Worker : Closes(w)
  BY IdleInit DEF Closes, At
<1>3. Sessions
  BY <1>1, <1>2 DEF Sessions, TripsHaveTheirOwn, OneDayEach, OpenWorkSession
<1> QED BY <1>3, InitTyped, IdleInit DEF SessionsInv, Shapes

LEMMA NextSessions == SessionsInv /\ [Next]_vars => SessionsInv'
<1> SUFFICES ASSUME SessionsInv, [Next]_vars PROVE SessionsInv'
  OBVIOUS
<1>1. TypeOK'
  BY NextTyped DEF SessionsInv
<1>2. CASE UNCHANGED vars
  <2>1. Shapes'
    BY <1>2 DEF SessionsInv, vars, Shapes
  <2>2. \A w \in Worker : Closes(w)'
    BY <1>2 DEF SessionsInv, Sessions, Closes, At, OpenWorkSession, vars, tables
  <2>3. (TripsHaveTheirOwn /\ OneDayEach)'
    BY <1>2 DEF SessionsInv, Sessions, TripsHaveTheirOwn, OneDayEach, OpenWorkSession,
                vars, tables
  <2> QED BY <1>1, <2>1, <2>2, <2>3 DEF SessionsInv, Sessions
<1>3. CASE Next
  <2>1. PICK w \in Worker : Serves(w)
    BY <1>3 DEF Next, Serves
  <2> QED BY <1>1, <2>1, NextKeepsShapes, NextKeepsSessions DEF SessionsInv
<1> QED BY <1>2, <1>3

LEMMA ClosingStep ==
  ASSUME SessionsInv, [Next]_vars, NEW k \in SessionId,
         tsession[k].context = "WORK", tsession[k].open, ~ tsession'[k].open
  PROVE  run[tsession[k].owner].cmd = "endShift"
<1>1. ASSUME NEW w \in Worker, CloseSession(w)
      PROVE  run[tsession[k].owner].cmd = "endShift"
  <2>1. Closes(w) /\ run[w].step = "closeSession" /\ run[w].cmd \in {"endShift", "endTrip"}
    BY <1>1, CloseSessionGoes DEF SessionsInv, Sessions, CloseSession
  <2>2. k = run[w].session
    BY <1>1 DEF CloseSession, SessionsInv, TypeOK
  <2> QED BY <2>1, <2>2 DEF Closes, At
<1>2. ASSUME NEW w \in Worker, OpenWork(w) \/ OpenTrip(w)
      PROVE  FALSE
  <2>1. PICK j, row : row.open = TRUE /\ tsession' = [tsession EXCEPT ![j] = row]
    BY <1>2 DEF OpenWork, OpenTrip
  <2>2. tsession'[k] = tsession[k] \/ tsession'[k] = row
    BY <2>1 DEF SessionsInv, TypeOK
  <2> QED BY <2>1, <2>2
<1>3. PICK w \in Worker : Serves(w)
  BY DEF Next, Serves, vars, tables
<1>4. CloseSession(w) \/ OpenWork(w) \/ OpenTrip(w)
  BY <1>3
  DEF Serves, Serve, WorkerRequest, DriverRequest, Ask, Fault, Refuse, StartShift,
      EndShift, FindWork, Strip, ChangePosition, BeginDriving, Elevate, Attach,
      CurrentVehicle, ClaimForTrip, CreateTrip, EndTrip, ReadOdometer, WriteOdometer, Release,
      Detach, tables
<1> QED BY <1>1, <1>2, <1>4

(* The tracking of a working day is only stopped by a clock-out of the worker whose day  *)
(* it is, never by the end of a trip.                                            *)
THEOREM OnlyClockOutEnds == Spec => OnlyClockOutEndsTheDay
<1>1. SessionsInv /\ [Next]_vars
      => [\A k \in SessionId :
            tsession[k].context = "WORK" /\ tsession[k].open /\ ~tsession'[k].open =>
              run[tsession[k].owner].cmd = "endShift"]_vars
  BY ClosingStep
<1> QED BY <1>1, InitSessions, NextSessions, PTL DEF Spec, OnlyClockOutEndsTheDay

LEMMA ClockOutStep ==
  ASSUME SessionsInv, [Next]_vars, NEW w \in Worker,
         run[w].cmd = "endShift", run[w].step # "command", run'[w] = Idle, faults' = faults
  PROVE  {k \in SessionId : /\ tsession'[k].open /\ tsession'[k].owner = w
                            /\ tsession'[k].context = "WORK"} = {}
<1>1. SUFFICES \A k \in SessionId : ~ OpenWorkSession(k, w)'
  BY DEF OpenWorkSession
<1>2. run[w] # Idle /\ run[w].step \in {"findWork", "closeSession", "strip"}
  BY DEF SessionsInv, Shapes, RunShape, Idle
<1>3. PICK x \in Worker : Serves(x)
  BY <1>2 DEF Next, Serves, vars
<1>4. x = w
  BY <1>2, <1>3, OnlyMine DEF SessionsInv
<1>5. CASE FindWork(w)
  <2>1. OpenWorkOf(w) = {}
    BY <1>5, FindWorkGoes DEF SessionsInv, Idle
  <2> QED BY <1>5, <2>1 DEF FindWork, OpenWorkOf, OpenWorkSession, tables
<1>6. CASE CloseSession(w)
  <2>1. PICK s \in SessionId : s = run[w].session
    BY <1>6 DEF SessionsInv, Sessions, Closes, CloseSession
  <2>2. /\ tsession' = [tsession EXCEPT ![s].open = FALSE]
        /\ \A k \in SessionId : OpenWorkSession(k, w) => k = s
    BY <1>6, <2>1 DEF SessionsInv, Sessions, Closes, At, CloseSession
  <2> QED BY <2>2 DEF SessionsInv, TypeOK, TrackingSession, OpenWorkSession
<1>7. CASE Strip(w)
  <2>1. \A k \in SessionId : ~ OpenWorkSession(k, w)
    BY <1>7 DEF SessionsInv, Sessions, Closes, At, Strip
  <2> QED BY <1>7, <2>1 DEF Strip, OpenWorkSession
<1>8. FindWork(w) \/ CloseSession(w) \/ Strip(w)
  <2>1. ~ WorkerRequest(w) /\ ~ DriverRequest(w)
    BY <1>2, RequestGoes DEF SessionsInv
  <2>2. ~ Fault(w)
    BY DEF Fault, SessionsInv, TypeOK
  <2>3. ~ Refuse(w)
    BY <1>2 DEF Refuse, Allowed
  <2> QED BY <1>2, <1>3, <1>4, <2>1, <2>2, <2>3
      DEF Serves, Serve, StartShift, OpenWork, EndShift, ChangePosition, BeginDriving, Elevate,
          Attach, OpenTrip, CurrentVehicle, ClaimForTrip, CreateTrip, EndTrip, ReadOdometer,
          WriteOdometer, Release, Detach, Proceed, At
<1> QED BY <1>5, <1>6, <1>7, <1>8

(* A clock-out that is answered has stopped the tracking of the worker's day, whichever    *)
(* shift the open session was left by and whatever failed before.                    *)
THEOREM ClockOutStops == Spec => ClockOutStopsTracking
<1>1. SessionsInv /\ [Next]_vars
      => [\A w \in Worker :
            run[w].cmd = "endShift" /\ run[w].step # "command" /\ run'[w] = Idle
            /\ faults' = faults
              => {k \in SessionId : /\ tsession'[k].open /\ tsession'[k].owner = w
                                    /\ tsession'[k].context = "WORK"} = {}]_vars
  BY ClockOutStep
<1> QED BY <1>1, InitSessions, NextSessions, PTL DEF Spec, ClockOutStopsTracking
---------------------------------------------------------------------------
(* What a step does to the trips and to the vehicles: it starts or ends a trip of its    *)
(* own worker, takes a vehicle for him or frees one.                                *)

LEMMA TripsStep ==
  ASSUME TypeOK, Shapes, Fleet, NEW w \in Worker, Serves(w), NEW u \in TripId
  PROVE  \/ trips'[u] = trips[u]
         \/ /\ trips[u] = NoTrip /\ trips'[u].status = "ACTIVE" /\ trips'[u].driver = w
            /\ trips'[u].vehicle = run[w].vehicle
         \/ Running(u, w) /\ trips'[u] = [trips[u] EXCEPT !.status = "COMPLETED"]
<1>1. CASE BeginDriving(w) \/ CreateTrip(w)
  <2>1. PICK t \in TripId : trips[t] = NoTrip /\ NewTrip(w, run[w].vehicle, t)
    BY <1>1, BeginDrivingGoes, CreateTripGoes
  <2> QED BY <2>1 DEF NewTrip, TypeOK
<1>2. CASE EndShift(w) \/ ChangePosition(w)
  <2>1. EndDriving(w)
    BY <1>2 DEF EndShift, ChangePosition
  <2>2. CASE UNCHANGED <<trips, held>>
    BY <2>2
  <2>3. ASSUME NEW t \in TripId, t = day[w].trip, trips[t].status = "ACTIVE",
               trips' = [trips EXCEPT ![t].status = "COMPLETED"]
        PROVE  \/ trips'[u] = trips[u]
               \/ Running(u, w) /\ trips'[u] = [trips[u] EXCEPT !.status = "COMPLETED"]
    <3>1. Running(t, w)
      BY <2>3, PortalAssumption DEF Fleet, DayTripIsOwn, Running, TripId
    <3> QED BY <2>3, <3>1 DEF TypeOK
  <2> QED BY <2>1, <2>2, <2>3, EndDrivingEnds
<1>3. CASE EndTrip(w)
  <2>1. PICK t \in TripId : Running(t, w) /\ trips' = [trips EXCEPT ![t].status = "COMPLETED"]
    BY <1>3, EndTripGoes DEF EndTrip, OpenTripsOf, Running
  <2> QED BY <2>1 DEF TypeOK
<1>4. UNCHANGED trips \/ BeginDriving(w) \/ CreateTrip(w) \/ EndShift(w) \/ ChangePosition(w)
      \/ EndTrip(w)
  BY DEF Serves, Serve, WorkerRequest, DriverRequest, Ask, Fault, Refuse, StartShift, OpenWork,
         FindWork, CloseSession, Strip, Elevate, Attach, OpenTrip, CurrentVehicle, ClaimForTrip,
         ReadOdometer, WriteOdometer, Release, Detach, tables
<1> QED BY <1>1, <1>2, <1>3, <1>4

LEMMA OthersTrips ==
  ASSUME TypeOK, Shapes, Fleet, NEW w \in Worker, Serves(w), NEW x \in Worker, x # w,
         NEW u \in TripId
  PROVE  /\ Running(u, x)' <=> Running(u, x)
         /\ Running(u, x) => trips'[u] = trips[u]
<1>1. NoTrip.status = "NONE"
  BY DEF NoTrip
<1>2. trips'[u] = [trips[u] EXCEPT !.status = "COMPLETED"] => trips'[u].status = "COMPLETED"
  BY DEF TypeOK, Trip
<1> QED BY <1>1, <1>2, TripsStep DEF Running

LEMMA HeldStep ==
  ASSUME TypeOK, Shapes, Fleet, NEW w \in Worker, Serves(w), NEW v \in Vehicle
  PROVE  \/ held'[v] = held[v] \/ held'[v] = Free
         \/ /\ held'[v] = [driver |-> w, isAutomatic |-> TRUE] /\ v = run[w].vehicle
            /\ BeginDriving(w) \/ ClaimForTrip(w)
<1>1. ASSUME NEW u, held' = ReleaseAutomatic(w, u)
      PROVE  held'[v] = held[v] \/ held'[v] = Free
  BY <1>1 DEF ReleaseAutomatic, TypeOK
<1>2. CASE BeginDriving(w) \/ ClaimForTrip(w)
  BY <1>2 DEF BeginDriving, ClaimForTrip, Claimed, TypeOK
<1>3. CASE EndShift(w) \/ ChangePosition(w)
  BY <1>1, <1>3, EndDrivingEnds DEF EndShift, ChangePosition
<1>4. CASE Release(w)
  BY <1>1, <1>4 DEF Release
<1>5. UNCHANGED held \/ BeginDriving(w) \/ ClaimForTrip(w) \/ EndShift(w) \/ ChangePosition(w)
      \/ Release(w)
  BY DEF Serves, Serve, WorkerRequest, DriverRequest, Ask, Fault, Refuse, StartShift, OpenWork,
         FindWork, CloseSession, Strip, Elevate, Attach, OpenTrip, CurrentVehicle, CreateTrip,
         EndTrip, ReadOdometer, WriteOdometer, Detach, tables
<1> QED BY <1>2, <1>3, <1>4, <1>5

LEMMA NoNewFault ==
  ASSUME TypeOK, NEW w \in Worker, Serves(w), faults' = 0
  PROVE  faults = 0 /\ ~ Fault(w)
<1>1. faults \in Nat
  BY DEF TypeOK
<1>2. ~ Fault(w)
  BY <1>1 DEF Fault
<1>3. CASE WorkerRequest(w) \/ DriverRequest(w)
  BY <1>1, <1>2, <1>3 DEF WorkerRequest, DriverRequest, Ask
<1>4. CASE \/ Refuse(w) \/ StartShift(w) \/ OpenWork(w) \/ EndShift(w) \/ FindWork(w)
           \/ CloseSession(w) \/ Strip(w) \/ ChangePosition(w)
  BY <1>1, <1>2, <1>4 DEF Refuse, StartShift, OpenWork, EndShift, FindWork, CloseSession, Strip,
              ChangePosition, Done, Goto, Go
<1>5. CASE \/ BeginDriving(w) \/ Elevate(w) \/ Attach(w) \/ OpenTrip(w)
           \/ CurrentVehicle(w) \/ ClaimForTrip(w) \/ CreateTrip(w)
  BY <1>1, <1>2, <1>5 DEF BeginDriving, Elevate, Attach, OpenTrip, CurrentVehicle, ClaimForTrip,
              CreateTrip, Done, Goto, Go
<1>6. CASE EndTrip(w) \/ ReadOdometer(w) \/ WriteOdometer(w) \/ Release(w) \/ Detach(w)
  BY <1>1, <1>2, <1>6 DEF EndTrip, ReadOdometer, WriteOdometer, Release, Detach, Done, Goto, Go
<1> QED BY <1>2, <1>3, <1>4, <1>5, <1>6 DEF Serves, Serve
---------------------------------------------------------------------------
(* A vehicle held for a trip, while nothing fails.                                  *)

(* The request about to take a held vehicle out is never refused: its driver has no       *)
(* trip, and nobody else can be out with what he holds.                              *)
LEMMA NeverRefused ==
  ASSUME TypeOK, Shapes, Fleet, NEW w \in Worker, NEW v \in Vehicle, Refuse(w), Answering(w, v)
  PROVE  FALSE
<1>1. CASE At(w, "startTrip", "createTrip") /\ \A t \in TripId : ~ Running(t, w)
  <2>1. held[v].driver = w
    BY <1>1 DEF Fleet, Holds, Answering
  <2>2. OpenTripsOf(w) = {} /\ ~ OnTheRoad(v)
    BY <1>1, <2>1 DEF OpenTripsOf, OnTheRoad, Running, Fleet, RunningIsHeld
  <2> QED BY <1>1, <2>2 DEF Refuse, Allowed, MayRun, At, Answering
<1>2. CASE run[w].cmd = "endTrip" /\ run[w].step \in {"readOdometer", "writeOdometer", "release"}
  BY <1>2 DEF Refuse, Allowed
<1> QED BY <1>1, <1>2 DEF Answering

LEMMA OwnReasonKept ==
  ASSUME TypeOK, Shapes, Fleet, HeldForAReason, TypeOK', NEW w \in Worker, Serves(w), faults' = 0,
         NEW v \in Vehicle, held'[v] = [driver |-> w, isAutomatic |-> TRUE]
  PROVE  DrivingNow(w, v)' \/ Answering(w, v)'
<1>1. faults = 0 /\ ~ Fault(w)
  BY NoNewFault
<1>2. held[v] = [driver |-> w, isAutomatic |-> TRUE] => DrivingNow(w, v) \/ Answering(w, v)
  BY <1>1 DEF HeldForAReason
<1>3. held'[v] # Free
  <2>1. Nobody # w
    BY PortalAssumption
  <2> QED BY <2>1 DEF Free
<1>4. ASSUME NEW t \in TripId, Running(t, w)', trips'[t].vehicle = v
      PROVE  DrivingNow(w, v)'
  BY <1>4 DEF DrivingNow, OpenTripsOf, Running
<1>5. DrivingNow(w, v) => \E t \in TripId : Running(t, w) /\ trips[t].vehicle = v
  BY DEF DrivingNow, OpenTripsOf, Running
<1>6. CASE BeginDriving(w)
  <2>1. PICK t \in TripId : trips[t] = NoTrip /\ NewTrip(w, run[w].vehicle, t)
    BY <1>6, BeginDrivingGoes
  <2>2. Running(t, w)' /\ trips'[t].vehicle = run[w].vehicle
        /\ \A u \in TripId : u # t => trips'[u] = trips[u]
    BY <2>1 DEF NewTrip, TypeOK, Running
  <2>3. CASE v = run[w].vehicle
    BY <1>4, <2>2, <2>3
  <2>4. CASE v # run[w].vehicle
    <3>1. held'[v] = held[v]
      BY <1>3, <2>4, HeldStep
    <3>2. ~ Answering(w, v)
      BY <1>6, BeginDrivingGoes DEF Answering, At
    <3>3. PICK u \in TripId : Running(u, w) /\ trips[u].vehicle = v
      BY <1>2, <1>5, <3>1, <3>2
    <3>4. u # t
      BY <2>1, <3>3 DEF Running, NoTrip
    <3> QED BY <1>4, <2>2, <3>3, <3>4 DEF Running
  <2> QED BY <2>3, <2>4
<1>7. CASE ClaimForTrip(w)
  <2>1. UNCHANGED trips /\ At(w, "startTrip", "claimVehicle")
        /\ run'[w].cmd = "startTrip" /\ run'[w].step = "createTrip"
        /\ run'[w].vehicle = run[w].vehicle
    BY <1>7, ClaimForTripGoes DEF ClaimForTrip
  <2>2. CASE v = run[w].vehicle
    <3>1. \A t \in TripId : ~ Running(t, w)
      BY <2>1 DEF Fleet, Holds
    <3> QED BY <2>1, <2>2, <3>1 DEF Answering, At, Running
  <2>3. CASE v # run[w].vehicle
    <3>1. held'[v] = held[v]
      BY <1>3, <2>3, HeldStep
    <3>2. ~ Answering(w, v)
      BY <2>1 DEF Answering, At
    <3> QED BY <1>2, <1>4, <1>5, <2>1, <3>1, <3>2 DEF Running
  <2> QED BY <2>2, <2>3
<1>8. CASE CreateTrip(w)
  <2>1. PICK t \in TripId : trips[t] = NoTrip /\ NewTrip(w, run[w].vehicle, t)
    BY <1>8, CreateTripGoes
  <2>2. Running(t, w)' /\ trips'[t].vehicle = run[w].vehicle
        /\ \A u \in TripId : u # t => trips'[u] = trips[u]
    BY <2>1 DEF NewTrip, TypeOK, Running
  <2>3. held'[v] = held[v]
    BY <1>8 DEF CreateTrip
  <2>4. CASE Answering(w, v)
    BY <1>4, <2>2, <2>4 DEF Answering
  <2>5. CASE DrivingNow(w, v)
    <3>1. PICK u \in TripId : Running(u, w) /\ trips[u].vehicle = v
      BY <1>5, <2>5
    <3>2. u # t
      BY <2>1, <3>1 DEF Running, NoTrip
    <3> QED BY <1>4, <2>2, <3>1, <3>2 DEF Running
  <2> QED BY <1>2, <2>3, <2>4, <2>5
<1>9. CASE EndTrip(w)
  <2>1. PICK t \in TripId : t = run[w].trip /\ Running(t, w)
    BY <1>9, EndTripGoes DEF OpenTripsOf, Running
  <2>2. UNCHANGED held /\ trips' = [trips EXCEPT ![t].status = "COMPLETED"]
    BY <1>9, <2>1 DEF EndTrip
  <2>3. ~ Answering(w, v)
    BY <1>9, EndTripGoes DEF Answering, At
  <2>4. PICK u \in TripId : Running(u, w) /\ trips[u].vehicle = v
    BY <1>2, <1>5, <2>2, <2>3
  <2>5. u = t
    BY <2>1, <2>4 DEF Fleet, OneTripEach
  <2>6. run'[w].cmd = "endTrip" /\ run'[w].step \in {"release", "readOdometer"}
        /\ run'[w].vehicle = v
    BY <1>9, <2>1, <2>4, <2>5, EndTripGoes
  <2> QED BY <2>6 DEF Answering
<1>10. CASE EndShift(w) \/ ChangePosition(w)
  <2>1. ~ Answering(w, v)
    BY <1>10, EndShiftGoes, ChangePositionGoes DEF Answering, At
  <2>2. held'[v] = held[v]
    BY <1>3, <1>10, HeldStep, EndShiftGoes, ChangePositionGoes
    DEF BeginDriving, ClaimForTrip, Proceed, At
  <2>3. PICK u \in TripId : Running(u, w) /\ trips[u].vehicle = v
    BY <1>2, <1>5, <2>1, <2>2
  <2>4. CASE UNCHANGED <<trips, held>>
    BY <1>4, <2>3, <2>4 DEF Running
  <2>5. ASSUME NEW t \in TripId, trips' = [trips EXCEPT ![t].status = "COMPLETED"],
               held' = ReleaseAutomatic(w, trips[t].vehicle)
        PROVE  DrivingNow(w, v)'
    <3>1. u # t
      BY <1>3, <2>2, <2>3, <2>5 DEF ReleaseAutomatic, TypeOK
    <3>2. trips'[u] = trips[u]
      BY <2>5, <3>1 DEF TypeOK
    <3> QED BY <1>4, <2>3, <3>2 DEF Running
  <2> QED BY <1>10, <2>4, <2>5, EndDrivingEnds DEF EndShift, ChangePosition
<1>11. CASE Release(w)
  <2>1. UNCHANGED trips /\ held' = ReleaseAutomatic(w, run[w].vehicle)
    BY <1>11 DEF Release
  <2>2. held'[v] = held[v] /\ v # run[w].vehicle
    BY <1>3, <2>1 DEF ReleaseAutomatic, TypeOK
  <2> QED BY <1>2, <1>4, <1>5, <2>1, <2>2 DEF Answering, Running
<1>12. CASE ReadOdometer(w) \/ WriteOdometer(w)
  <2>1. UNCHANGED <<trips, held>>
    BY <1>12 DEF ReadOdometer, WriteOdometer, tables
  <2>2. /\ run[w].cmd = "endTrip" /\ run'[w].cmd = "endTrip"
        /\ run'[w].step \in {"writeOdometer", "release", "detach"}
        /\ run'[w].vehicle = run[w].vehicle
    BY <1>12, EndingGoes
  <2>3. run'[w].step # "detach"
    <3>1. PICK step \in {"writeOdometer", "release"} : Goto(w, step)
      BY <1>12 DEF ReadOdometer, WriteOdometer
    <3> QED BY <3>1, GotoMine
  <2> QED BY <1>2, <1>4, <1>5, <2>1, <2>2, <2>3 DEF Answering, At, Running
<1>13. CASE Refuse(w)
  <2>1. UNCHANGED <<trips, held>>
    BY <1>13 DEF Refuse, tables
  <2> QED BY <1>2, <1>4, <1>5, <1>13, <2>1, NeverRefused DEF Running
<1>14. CASE \/ WorkerRequest(w) \/ DriverRequest(w) \/ StartShift(w) \/ OpenWork(w)
            \/ FindWork(w) \/ CloseSession(w) \/ Strip(w) \/ Elevate(w) \/ Attach(w)
            \/ OpenTrip(w) \/ CurrentVehicle(w) \/ Detach(w)
  <2>1. UNCHANGED <<trips, held>>
    BY <1>14
    DEF WorkerRequest, DriverRequest, Ask, StartShift, OpenWork, FindWork, CloseSession, Strip,
        Elevate, Attach, OpenTrip, CurrentVehicle, Detach, tables
  <2>2. ~ Answering(w, v)
    <3>1. CASE WorkerRequest(w) \/ DriverRequest(w)
      BY <3>1, RequestGoes DEF Answering, At, Idle
    <3>2. CASE ~ (WorkerRequest(w) \/ DriverRequest(w))
      BY <1>14, <3>2
      DEF StartShift, OpenWork, FindWork, CloseSession, Strip, Elevate, Attach, OpenTrip,
          CurrentVehicle, Detach, Proceed, At, Answering
    <3> QED BY <3>1, <3>2
  <2> QED BY <1>2, <1>4, <1>5, <2>1, <2>2 DEF Running
<1> QED BY <1>1, <1>6, <1>7, <1>8, <1>9, <1>10, <1>11, <1>12, <1>13, <1>14 DEF Serves, Serve

LEMMA NextKeepsReasons ==
  ASSUME TypeOK, Shapes, Fleet, HeldForAReason, TypeOK', NEW w \in Worker, Serves(w)
  PROVE  HeldForAReason'
<1> SUFFICES ASSUME faults' = 0, NEW x \in Worker, NEW v \in Vehicle,
                    held'[v] = [driver |-> x, isAutomatic |-> TRUE]
             PROVE  DrivingNow(x, v)' \/ Answering(x, v)'
  BY DEF HeldForAReason
<1>1. CASE x = w
  BY <1>1, OwnReasonKept
<1>2. CASE x # w
  <2>1. held'[v] = held[v]
    <3>1. held'[v].driver = x /\ Free.driver # x /\ [driver |-> w, isAutomatic |-> TRUE].driver # x
      BY <1>2, PortalAssumption DEF Free
    <3> QED BY <3>1, HeldStep
  <2>2. DrivingNow(x, v) \/ Answering(x, v)
    BY <2>1, NoNewFault DEF HeldForAReason
  <2>3. CASE DrivingNow(x, v)
    BY <1>2, <2>3, OthersTrips DEF DrivingNow, OpenTripsOf, Running
  <2>4. CASE Answering(x, v)
    BY <1>2, <2>4, OthersTrips, OnlyMine DEF Answering, At
  <2> QED BY <2>2, <2>3, <2>4
<1> QED BY <1>1, <1>2

HeldInv == FleetInv /\ HeldForAReason

LEMMA InitHeld == Init => HeldInv
<1> SUFFICES ASSUME Init PROVE HeldInv
  OBVIOUS
<1>1. ASSUME NEW v \in Vehicle
      PROVE  held[v].isAutomatic = FALSE
  <2>1. held[v] \in {Free} \cup {[driver |-> w, isAutomatic |-> FALSE] : w \in Worker}
    BY DEF Init
  <2> QED BY <2>1 DEF Free
<1>2. HeldForAReason
  <2>1. ASSUME NEW w \in Worker, NEW v \in Vehicle
        PROVE  held[v] # [driver |-> w, isAutomatic |-> TRUE]
    <3>1. [driver |-> w, isAutomatic |-> TRUE].isAutomatic = TRUE
      OBVIOUS
    <3> QED BY <1>1, <3>1
  <2> QED BY <2>1 DEF HeldForAReason
<1> QED BY <1>2, InitFleet DEF HeldInv

LEMMA NextHeld == HeldInv /\ [Next]_vars => HeldInv'
<1> SUFFICES ASSUME HeldInv, [Next]_vars PROVE HeldInv'
  OBVIOUS
<1>1. FleetInv'
  BY NextFleet DEF HeldInv
<1>2. CASE UNCHANGED vars
  <2>1. HeldForAReason'
    BY <1>2 DEF HeldInv, HeldForAReason, DrivingNow, OpenTripsOf, Answering, At, Running, vars,
                tables
  <2> QED BY <1>1, <2>1 DEF HeldInv
<1>3. CASE Next
  <2>1. PICK w \in Worker : Serves(w)
    BY <1>3 DEF Next, Serves
  <2> QED BY <1>1, <2>1, NextKeepsReasons DEF HeldInv, FleetInv
<1> QED BY <1>2, <1>3

LEMMA HeldImplies == HeldInv => HeldWhileOut
<1> SUFFICES ASSUME HeldInv, faults = 0, NEW w \in Worker, Quiet(w), NEW v \in Vehicle
             PROVE  /\ held[v] = [driver |-> w, isAutomatic |-> TRUE] => DrivingNow(w, v)
                    /\ DrivingNow(w, v) => held[v].driver = w
  BY DEF HeldWhileOut
<1>1. ~ Answering(w, v)
  BY DEF Quiet, Answering, At, Idle
<1>2. DrivingNow(w, v) => held[v].driver = w
  BY DEF HeldInv, FleetInv, Fleet, RunningIsHeld, DrivingNow, OpenTripsOf
<1> QED BY <1>1, <1>2 DEF HeldInv, HeldForAReason

(* While nothing fails, a vehicle taken for a trip is held only as long as the trip runs,  *)
(* and whoever drives a vehicle holds it, for every worker who is not being served.         *)
THEOREM HeldOnlyWhileOut == Spec => []HeldWhileOut
<1> QED BY InitHeld, NextHeld, HeldImplies, PTL DEF Spec
---------------------------------------------------------------------------
(* The trips' own sessions and the trips they are named after.                        *)

LEMMA SessionsStep ==
  ASSUME TypeOK, Shapes, Sessions, NEW w \in Worker, Serves(w), NEW k \in SessionId
  PROVE  \/ tsession'[k] = tsession[k]
         \/ /\ OpenWork(w) /\ tsession[k] = NotOpened
            /\ tsession' = [tsession EXCEPT ![k] =
                 [context |-> "WORK", owner |-> w, shift |-> run[w].shift, trip |-> 0,
                  open |-> TRUE]]
         \/ /\ OpenTrip(w) /\ tsession[k] = NotOpened
            /\ tsession' = [tsession EXCEPT ![k] =
                 [context |-> "DRIVER_TRIP", owner |-> w, shift |-> 0, trip |-> run[w].trip,
                  open |-> TRUE]]
         \/ /\ CloseSession(w) /\ k = run[w].session
            /\ tsession'[k] = [tsession[k] EXCEPT !.open = FALSE]
<1>1. CASE OpenWork(w)
  <2>1. PICK j \in Unused(tsession, NotOpened) :
          tsession' = [tsession EXCEPT ![j] =
            [context |-> "WORK", owner |-> w, shift |-> run[w].shift, trip |-> 0, open |-> TRUE]]
    BY <1>1 DEF OpenWork
  <2>2. j \in SessionId /\ tsession[j] = NotOpened
    BY UnusedIsNone, PortalAssumption DEF TypeOK, SessionId
  <2>3. k # j => tsession'[k] = tsession[k]
    BY <2>1 DEF TypeOK
  <2> QED BY <1>1, <2>1, <2>2, <2>3
<1>2. CASE OpenTrip(w)
  <2>1. PICK j \in Unused(tsession, NotOpened) :
          tsession' = [tsession EXCEPT ![j] =
            [context |-> "DRIVER_TRIP", owner |-> w, shift |-> 0, trip |-> run[w].trip,
             open |-> TRUE]]
    BY <1>2 DEF OpenTrip
  <2>2. j \in SessionId /\ tsession[j] = NotOpened
    BY UnusedIsNone, PortalAssumption DEF TypeOK, SessionId
  <2>3. k # j => tsession'[k] = tsession[k]
    BY <2>1 DEF TypeOK
  <2> QED BY <1>2, <2>1, <2>2, <2>3
<1>3. CASE CloseSession(w)
  BY <1>3 DEF CloseSession, TypeOK
<1>4. UNCHANGED tsession \/ OpenWork(w) \/ OpenTrip(w) \/ CloseSession(w)
  BY DEF Serves, Serve, WorkerRequest, DriverRequest, Ask, Fault, Refuse, StartShift,
         EndShift, FindWork, Strip, ChangePosition, BeginDriving, Elevate, Attach,
         CurrentVehicle, ClaimForTrip, CreateTrip, EndTrip, ReadOdometer, WriteOdometer,
         Release, Detach, tables
<1> QED BY <1>1, <1>2, <1>3, <1>4

(* A session keeps what it is named after and may be closed; or it is opened, for the     *)
(* working day or for a trip, and the others stay as they are.                           *)
Kept(k) ==
  /\ tsession'[k].trip = tsession[k].trip /\ tsession'[k].owner = tsession[k].owner
  /\ tsession'[k].context = tsession[k].context /\ tsession'[k].shift = tsession[k].shift
  /\ tsession'[k].open => tsession[k].open

TripOpened(k, w) ==
  /\ tsession[k].trip = 0 /\ tsession[k].context = "NONE"
  /\ tsession'[k].owner = w /\ tsession'[k].open
  /\ \A j \in SessionId : j # k => tsession'[j] = tsession[j]

OpenedForDay(k, w) ==
  /\ OpenWork(w) /\ TripOpened(k, w)
  /\ tsession'[k].context = "WORK" /\ tsession'[k].trip = 0 /\ tsession'[k].shift = run[w].shift

OpenedForTrip(k, w) ==
  /\ OpenTrip(w) /\ TripOpened(k, w)
  /\ tsession'[k].context = "DRIVER_TRIP" /\ tsession'[k].trip = run[w].trip

LEMMA NamesStep ==
  ASSUME TypeOK, Shapes, Sessions, NEW w \in Worker, Serves(w), NEW k \in SessionId
  PROVE  Kept(k) \/ OpenedForDay(k, w) \/ OpenedForTrip(k, w)
<1>1. CASE tsession'[k] = tsession[k]
  BY <1>1 DEF Kept
<1>2. CASE tsession'[k] = [tsession[k] EXCEPT !.open = FALSE]
  BY <1>2 DEF TypeOK, TrackingSession, Kept
<1>3. ASSUME NEW row, tsession[k] = NotOpened, tsession' = [tsession EXCEPT ![k] = row]
      PROVE  /\ tsession[k].trip = 0 /\ tsession[k].context = "NONE" /\ tsession'[k] = row
             /\ \A j \in SessionId : j # k => tsession'[j] = tsession[j]
  BY <1>3 DEF TypeOK, NotOpened
<1>4. CASE /\ OpenWork(w) /\ tsession[k] = NotOpened
           /\ tsession' = [tsession EXCEPT ![k] =
                [context |-> "WORK", owner |-> w, shift |-> run[w].shift, trip |-> 0,
                 open |-> TRUE]]
  <2>1. tsession'[k] = [context |-> "WORK", owner |-> w, shift |-> run[w].shift, trip |-> 0,
                        open |-> TRUE]
    BY <1>3, <1>4
  <2>2. TripOpened(k, w)
    BY <1>3, <1>4, <2>1 DEF TripOpened
  <2> QED BY <1>4, <2>1, <2>2 DEF OpenedForDay
<1>5. CASE /\ OpenTrip(w) /\ tsession[k] = NotOpened
           /\ tsession' = [tsession EXCEPT ![k] =
                [context |-> "DRIVER_TRIP", owner |-> w, shift |-> 0, trip |-> run[w].trip,
                 open |-> TRUE]]
  <2>1. tsession'[k] = [context |-> "DRIVER_TRIP", owner |-> w, shift |-> 0,
                        trip |-> run[w].trip, open |-> TRUE]
    BY <1>3, <1>5
  <2>2. TripOpened(k, w)
    BY <1>3, <1>5, <2>1 DEF TripOpened
  <2> QED BY <1>5, <2>1, <2>2 DEF OpenedForTrip
<1> QED BY <1>1, <1>2, <1>4, <1>5, SessionsStep

LEMMA NewName ==
  ASSUME TypeOK, Shapes, Sessions, NEW w \in Worker, Serves(w), NEW k \in SessionId,
         tsession'[k].trip # tsession[k].trip
  PROVE  /\ OpenTrip(w) /\ tsession'[k].trip = run[w].trip
         /\ \A j \in SessionId : j # k => tsession'[j].trip = tsession[j].trip
<1>1. OpenedForTrip(k, w)
  BY NamesStep DEF Kept, OpenedForDay, TripOpened
<1> QED BY <1>1 DEF OpenedForTrip, TripOpened

LEMMA Attaching ==
  ASSUME TypeOK, Shapes, NEW w \in Worker, Serves(w),
         run'[w].step \in {"elevate", "attach", "openTrip"}
  PROVE  BeginDriving(w) \/ CreateTrip(w) \/ Elevate(w) \/ Attach(w)
<1>1. Idle.step = "idle"
  BY DEF Idle
<1>2. CASE WorkerRequest(w) \/ DriverRequest(w)
  BY <1>2, RequestGoes
<1>3. CASE Fault(w) \/ Refuse(w) \/ OpenWork(w) \/ Strip(w) \/ OpenTrip(w)
  BY <1>1, <1>3, EndsIdle
<1>4. CASE StartShift(w) \/ EndShift(w) \/ FindWork(w) \/ CloseSession(w) \/ ChangePosition(w)
  BY <1>1, <1>4, StartShiftGoes, EndShiftGoes, FindWorkGoes, CloseSessionGoes,
     ChangePositionGoes
<1>5. CASE CurrentVehicle(w) \/ ClaimForTrip(w)
  BY <1>5, CurrentVehicleGoes, ClaimForTripGoes
<1>6. CASE EndTrip(w) \/ ReadOdometer(w) \/ WriteOdometer(w) \/ Release(w) \/ Detach(w)
  BY <1>1, <1>6, EndTripGoes, EndingGoes, DetachGoes
<1> QED BY <1>2, <1>3, <1>4, <1>5, <1>6 DEF Serves, Serve

LEMMA NextKeepsNames ==
  ASSUME TypeOK, Shapes, Fleet, Sessions, NamedAfterTrips, TypeOK', NEW w \in Worker, Serves(w)
  PROVE  NamedAfterTrips'
<1>1. OpenTrip(w) => /\ run[w].trip \in TripId /\ Running(run[w].trip, w)
                     /\ \A k \in SessionId : tsession[k].trip # run[w].trip
  BY DEF OpenTrip, NamedAfterTrips
<1>2. \A k \in SessionId : tsession[k].trip \in TripId \cup {0}
  BY DEF TypeOK, TrackingSession
<1>3. \A u \in TripId : trips[u].status # "NONE" => trips'[u].status # "NONE"
  <2>1. ASSUME NEW u \in TripId, trips'[u] = [trips[u] EXCEPT !.status = "COMPLETED"]
        PROVE  trips'[u].status # "NONE"
    BY <2>1 DEF TypeOK, Trip
  <2> QED BY <2>1, TripsStep
<1>4. ASSUME NEW k \in SessionId, tsession'[k].trip # 0
      PROVE  trips'[tsession'[k].trip].status # "NONE"
  <2>1. CASE tsession'[k].trip = tsession[k].trip
    BY <1>2, <1>3, <1>4, <2>1 DEF NamedAfterTrips
  <2>2. CASE OpenTrip(w) /\ tsession'[k].trip = run[w].trip
    <3>1. trips' = trips
      BY <2>2 DEF OpenTrip
    <3> QED BY <1>1, <2>2, <3>1 DEF Running
  <2> QED BY <1>4, <2>1, <2>2, NewName
<1>5. ASSUME NEW j \in SessionId, NEW k \in SessionId, tsession'[j].trip # 0,
             tsession'[j].trip = tsession'[k].trip
      PROVE  j = k
  <2>1. CASE tsession'[j].trip = tsession[j].trip /\ tsession'[k].trip = tsession[k].trip
    BY <1>5, <2>1 DEF NamedAfterTrips
  <2>2. CASE tsession'[j].trip # tsession[j].trip
    BY <1>1, <1>5, <2>2, NewName
  <2>3. CASE tsession'[k].trip # tsession[k].trip
    BY <1>1, <1>5, <2>3, NewName
  <2> QED BY <2>1, <2>2, <2>3
<1>6. ASSUME NEW x \in Worker, x # w, run'[x].step \in {"elevate", "attach", "openTrip"}
      PROVE  /\ run'[x].trip \in TripId /\ Running(run[x].trip, x)'
             /\ \A k \in SessionId : tsession'[k].trip # run'[x].trip
  <2>1. PICK r \in TripId : /\ r = run[x].trip /\ r = run'[x].trip /\ Running(r, x)
                            /\ \A k \in SessionId : tsession[k].trip # r
    BY <1>6, OnlyMine DEF NamedAfterTrips
  <2>2. Running(r, x)'
    BY <1>6, <2>1, OthersTrips
  <2>3. Running(run[w].trip, w) => run[w].trip # r
    BY <1>6, <2>1 DEF Running
  <2>4. \A k \in SessionId : tsession'[k].trip # r
    <3>1. r # 0
      BY <2>1, PortalAssumption DEF TripId
    <3> QED BY <1>1, <2>1, <2>3, <3>1, NewName
  <2> QED BY <2>1, <2>2, <2>4 DEF Running
<1>7. ASSUME run'[w].step \in {"elevate", "attach", "openTrip"}
      PROVE  /\ run'[w].trip \in TripId /\ Running(run[w].trip, w)'
             /\ \A k \in SessionId : tsession'[k].trip # run'[w].trip
  <2>1. CASE BeginDriving(w) \/ CreateTrip(w)
    <3>1. PICK t \in TripId : /\ t = run'[w].trip /\ trips[t] = NoTrip
                              /\ NewTrip(w, run[w].vehicle, t)
      BY <2>1, BeginDrivingGoes, CreateTripGoes
    <3>2. Running(t, w)'
      BY <3>1 DEF NewTrip, TypeOK, Running
    <3>3. UNCHANGED tsession
      BY <2>1 DEF BeginDriving, CreateTrip
    <3>4. \A k \in SessionId : tsession[k].trip # t
      BY <3>1, PortalAssumption DEF NamedAfterTrips, NoTrip, TripId
    <3> QED BY <3>1, <3>2, <3>3, <3>4 DEF Running
  <2>2. CASE Elevate(w) \/ Attach(w)
    <3>1. UNCHANGED <<trips, tsession>> /\ run[w].step \in {"elevate", "attach"}
      BY <2>2 DEF Elevate, Attach, Proceed, At, tables
    <3>2. run'[w].trip = run[w].trip
      <4>1. Idle.step = "idle"
        BY DEF Idle
      <4> QED BY <1>7, <2>2, <4>1, ElevateGoes, AttachGoes
    <3> QED BY <3>1, <3>2 DEF NamedAfterTrips, Running
  <2>3. BeginDriving(w) \/ CreateTrip(w) \/ Elevate(w) \/ Attach(w)
    BY <1>7, Attaching
  <2> QED BY <2>1, <2>2, <2>3
<1> QED BY <1>4, <1>5, <1>6, <1>7 DEF NamedAfterTrips

LEMMA DaysStep ==
  ASSUME TypeOK, Shapes, NEW w \in Worker, Serves(w)
  PROVE  /\ \A x \in Worker : x # w => day'[x] = day[x]
         /\ \/ day'[w] = day[w]
            \/ StartShift(w) /\ day'[w].shift \in ShiftId /\ day'[w].at = "floor" /\ day'[w].trip = 0
            \/ EndShift(w) /\ day'[w] = OffDuty
            \/ /\ ChangePosition(w) /\ day'[w].at = "floor"
               /\ day'[w].shift = day[w].shift /\ day'[w].trip = 0 /\ day[w].shift # 0
            \/ /\ BeginDriving(w) /\ day'[w].at = "driving" /\ day[w].at = "floor"
               /\ day'[w].shift = day[w].shift /\ day'[w].trip = run'[w].trip
<1>1. CASE StartShift(w)
  <2>1. PICK i \in ShiftId : day' = [day EXCEPT ![w] = [shift |-> i, at |-> "floor", trip |-> 0]]
    BY <1>1 DEF StartShift
  <2> QED BY <1>1, <2>1 DEF TypeOK
<1>2. CASE EndShift(w)
  BY <1>2 DEF EndShift, TypeOK
<1>3. CASE ChangePosition(w)
  <2>1. day' = [day EXCEPT ![w].at = "floor", ![w].trip = 0] /\ day[w].shift # 0
    BY <1>3, ChangePositionGoes DEF ChangePosition
  <2> QED BY <1>3, <2>1 DEF TypeOK, Day
<1>4. CASE BeginDriving(w)
  <2>1. PICK t : /\ t = run'[w].trip /\ day[w].at = "floor"
                 /\ day' = [day EXCEPT ![w].at = "driving", ![w].trip = t]
    BY <1>4, BeginDrivingGoes
  <2>2. /\ \A x \in Worker : x # w => day'[x] = day[x]
        /\ day'[w].at = "driving" /\ day'[w].shift = day[w].shift /\ day'[w].trip = t
    BY <2>1 DEF TypeOK, Day
  <2> QED BY <1>4, <2>1, <2>2
<1>5. UNCHANGED day \/ StartShift(w) \/ EndShift(w) \/ ChangePosition(w) \/ BeginDriving(w)
  BY DEF Serves, Serve, WorkerRequest, DriverRequest, Ask, Fault, Refuse, OpenWork, FindWork,
         CloseSession, Strip, Elevate, Attach, OpenTrip, CurrentVehicle, ClaimForTrip, CreateTrip,
         EndTrip, ReadOdometer, WriteOdometer, Release, Detach, tables
<1> QED BY <1>1, <1>2, <1>3, <1>4, <1>5

LEMMA NextKeepsOff ==
  ASSUME TypeOK, Shapes, OffMeansNoShift, NEW w \in Worker, Serves(w)
  PROVE  OffMeansNoShift'
<1>1. 0 \notin ShiftId /\ OffDuty.at = "off" /\ OffDuty.shift = 0
  BY PortalAssumption DEF ShiftId, OffDuty
<1> QED BY <1>1, DaysStep DEF OffMeansNoShift
---------------------------------------------------------------------------
(* The working day and its session.                                              *)

WorkKept(w) ==
  \A k \in SessionId :
    /\ OpenWorkSession(k, w)' <=> OpenWorkSession(k, w)
    /\ OpenWorkSession(k, w) => tsession'[k].shift = tsession[k].shift

(* The working-day session of a worker stays as it is, but for his own clocking in and    *)
(* out.                                                                      *)
LEMMA WorkStep ==
  ASSUME TypeOK, Shapes, Sessions, NEW w \in Worker, Serves(w), NEW x \in Worker,
         \/ x # w
         \/ /\ ~ OpenWork(w)
            /\ ~ (CloseSession(w) /\ run[w].cmd = "endShift")
  PROVE  WorkKept(x)
<1> SUFFICES ASSUME NEW k \in SessionId
             PROVE  /\ OpenWorkSession(k, x)' <=> OpenWorkSession(k, x)
                    /\ OpenWorkSession(k, x) => tsession'[k].shift = tsession[k].shift
  BY DEF WorkKept
<1>1. CASE CloseSession(w) /\ k = run[w].session
  <2>1. ~ OpenWorkSession(k, x)
    BY <1>1, CloseSessionGoes DEF Sessions, Closes, At, CloseSession, OpenWorkSession
  <2>2. Kept(k)
    BY <1>1, NamesStep DEF OpenedForDay, OpenedForTrip, OpenWork, OpenTrip, CloseSession,
                           Proceed, At
  <2> QED BY <2>1, <2>2 DEF Kept, OpenWorkSession
<1>2. CASE tsession'[k] = tsession[k]
  BY <1>2 DEF OpenWorkSession
<1>3. CASE OpenedForDay(k, w) \/ OpenedForTrip(k, w)
  <2>1. tsession[k].context = "NONE" /\ tsession'[k].owner = w
    BY <1>3 DEF OpenedForDay, OpenedForTrip, TripOpened
  <2>2. x = w => tsession'[k].context = "DRIVER_TRIP"
    BY <1>3 DEF OpenedForDay, OpenedForTrip
  <2> QED BY <2>1, <2>2 DEF OpenWorkSession
<1>4. ASSUME ~ OpenedForDay(k, w), ~ OpenedForTrip(k, w)
      PROVE  tsession'[k] = tsession[k] \/ (CloseSession(w) /\ k = run[w].session)
  <2>1. Kept(k)
    BY <1>4, NamesStep
  <2>2. ASSUME NEW row, row.open = TRUE, row.context # "NONE", tsession[k] = NotOpened,
               tsession' = [tsession EXCEPT ![k] = row]
        PROVE  FALSE
    <3>1. tsession'[k].context # "NONE" /\ tsession[k].context = "NONE"
      BY <2>2 DEF TypeOK, NotOpened
    <3> QED BY <2>1, <3>1 DEF Kept
  <2> QED BY <2>2, SessionsStep
<1> QED BY <1>1, <1>2, <1>3, <1>4

LEMMA SameDay ==
  ASSUME NEW w \in Worker, DayAndSession(w), day'[w].shift = day[w].shift, WorkKept(w)
  PROVE  DayAndSession(w)'
BY DEF DayAndSession, WorkKept

LEMMA OthersDay ==
  ASSUME TypeOK, Shapes, Sessions, NEW w \in Worker, Serves(w), NEW x \in Worker, x # w,
         DayIsTracked(x)
  PROVE  DayIsTracked(x)'
<1>1. run'[x] = run[x] /\ day'[x] = day[x] /\ WorkKept(x)
  BY OnlyMine, DaysStep, WorkStep
<1>2. DayAndSession(x) => DayAndSession(x)'
  BY <1>1, SameDay
<1>3. (At(x, "startShift", "openWork")' <=> At(x, "startShift", "openWork"))
      /\ (ClockingOut(x)' <=> ClockingOut(x))
  BY <1>1 DEF At, ClockingOut
<1> QED BY <1>1, <1>2, <1>3 DEF DayIsTracked, WorkKept

LEMMA AnsweredDay ==
  ASSUME NEW w \in Worker, DayAndSession(w)',
         run'[w] = Idle \/ run'[w].cmd \notin {"startShift", "endShift"} \/ run'[w].step = "command"
  PROVE  DayIsTracked(w)'
<1>1. ~ At(w, "startShift", "openWork")' /\ ~ ClockingOut(w)'
  BY DEF At, ClockingOut, Idle
<1> QED BY <1>1 DEF DayIsTracked

LEMMA NoWorkToDo ==
  ASSUME NEW w \in Worker, day'[w].shift = 0,
         \A k \in SessionId : ~ OpenWorkSession(k, w)'
  PROVE  DayAndSession(w)'
BY DEF DayAndSession

LEMMA OwnDay ==
  ASSUME TypeOK, Shapes, Sessions, OffMeansNoShift, TypeOK', NEW w \in Worker, Serves(w),
         ~ Fault(w), DayIsTracked(w)
  PROVE  DayIsTracked(w)'
<1>1. CASE StartShift(w)
  <2>1. /\ At(w, "startShift", "command") /\ day[w].shift = 0
        /\ run'[w].cmd = "startShift" /\ run'[w].step = "openWork"
        /\ day' = [day EXCEPT ![w] = [shift |-> run'[w].shift, at |-> "floor", trip |-> 0]]
        /\ run'[w].shift \in ShiftId
    BY <1>1, StartShiftGoes
  <2>2. day'[w].shift = run'[w].shift /\ run'[w].shift # 0
    BY <2>1, PortalAssumption DEF TypeOK, ShiftId
  <2>3. \A k \in SessionId : ~ OpenWorkSession(k, w)
    BY <2>1 DEF DayIsTracked, DayAndSession, At, ClockingOut
  <2>4. UNCHANGED tsession
    BY <1>1 DEF StartShift
  <2>5. \A k \in SessionId : ~ OpenWorkSession(k, w)'
    BY <2>3, <2>4 DEF OpenWorkSession
  <2>6. ~ ClockingOut(w)' /\ At(w, "startShift", "openWork")'
    BY <2>1 DEF ClockingOut, At
  <2> QED BY <2>2, <2>5, <2>6 DEF DayIsTracked
<1>2. CASE OpenWork(w)
  <2>1. /\ day[w].shift # 0 /\ run[w].shift = day[w].shift /\ UNCHANGED day
        /\ \A k \in SessionId : ~ OpenWorkSession(k, w)
    BY <1>2 DEF OpenWork, Proceed, DayIsTracked
  <2>2. PICK k \in Unused(tsession, NotOpened) :
          tsession' = [tsession EXCEPT ![k] =
            [context |-> "WORK", owner |-> w, shift |-> run[w].shift, trip |-> 0, open |-> TRUE]]
    BY <1>2 DEF OpenWork
  <2>3. k \in SessionId
    BY UnusedIsNone, PortalAssumption DEF TypeOK, SessionId
  <2>4. /\ OpenWorkSession(k, w)' /\ tsession'[k].shift = run[w].shift
        /\ \A j \in SessionId : j # k => tsession'[j] = tsession[j]
    BY <2>2, <2>3 DEF TypeOK, OpenWorkSession
  <2>5. \A j \in SessionId : OpenWorkSession(j, w)' => j = k
    BY <2>1, <2>4 DEF OpenWorkSession
  <2>6. DayAndSession(w)'
    BY <2>1, <2>3, <2>4, <2>5 DEF DayAndSession
  <2> QED BY <1>2, <2>6, EndsIdle, AnsweredDay
<1>3. CASE EndShift(w)
  <2>1. run'[w].cmd = "endShift" /\ run'[w].step = "findWork" /\ day'[w].shift = 0
    BY <1>3, EndShiftGoes DEF EndShift, TypeOK, OffDuty
  <2>2. ~ At(w, "startShift", "openWork")' /\ ClockingOut(w)'
    BY <2>1 DEF At, ClockingOut
  <2> QED BY <2>1, <2>2 DEF DayIsTracked
<1>4. ASSUME ClockingOut(w), UNCHANGED day,
             \/ run'[w] = Idle /\ \A k \in SessionId : ~ OpenWorkSession(k, w)'
             \/ run'[w].cmd = "endShift" /\ run'[w].step # "command"
      PROVE  DayIsTracked(w)'
  <2>1. day'[w].shift = 0
    BY <1>4 DEF DayIsTracked
  <2>2. CASE run'[w] = Idle /\ \A k \in SessionId : ~ OpenWorkSession(k, w)'
    BY <2>1, <2>2, NoWorkToDo, AnsweredDay
  <2>3. CASE run'[w].cmd = "endShift" /\ run'[w].step # "command"
    <3>1. ~ At(w, "startShift", "openWork")' /\ ClockingOut(w)'
      BY <2>3 DEF At, ClockingOut
    <3> QED BY <2>1, <3>1 DEF DayIsTracked
  <2> QED BY <1>4, <2>2, <2>3
<1>5. CASE FindWork(w)
  <2>1. UNCHANGED <<day, tsession>> /\ ClockingOut(w)
    BY <1>5, FindWorkGoes DEF FindWork, tables, ClockingOut, At
  <2>2. \/ run'[w] = Idle /\ \A k \in SessionId : ~ OpenWorkSession(k, w)
        \/ run'[w].cmd = "endShift" /\ run'[w].step # "command"
    BY <1>5, FindWorkGoes DEF OpenWorkOf, OpenWorkSession
  <2> QED BY <1>4, <2>1, <2>2 DEF OpenWorkSession
<1>6. CASE CloseSession(w) /\ run[w].cmd = "endShift"
  <2>1. UNCHANGED day /\ ClockingOut(w)
    BY <1>6 DEF CloseSession, ClockingOut
  <2>2. PICK s \in SessionId : s = run[w].session
    BY <1>6 DEF Sessions, Closes, CloseSession
  <2>3. /\ tsession' = [tsession EXCEPT ![s].open = FALSE]
        /\ \A k \in SessionId : OpenWorkSession(k, w) => k = s
    BY <1>6, <2>2 DEF Sessions, Closes, At, CloseSession
  <2>4. \A k \in SessionId : ~ OpenWorkSession(k, w)'
    BY <2>3 DEF TypeOK, TrackingSession, OpenWorkSession
  <2> QED BY <1>4, <1>6, <2>1, <2>4, CloseSessionGoes
<1>7. CASE Strip(w) /\ run[w].cmd = "endShift"
  <2>1. UNCHANGED <<day, tsession>> /\ ClockingOut(w)
    BY <1>7 DEF Strip, ClockingOut
  <2>2. \A k \in SessionId : ~ OpenWorkSession(k, w)
    BY <1>7 DEF Sessions, Closes, At, Strip
  <2> QED BY <1>4, <1>7, <2>1, <2>2, EndsIdle DEF OpenWorkSession
<1>8. ASSUME DayAndSession(w), ~ OpenWork(w), ~ StartShift(w), ~ EndShift(w),
             ~ (CloseSession(w) /\ run[w].cmd = "endShift"),
             run'[w] = Idle \/ run'[w].cmd \notin {"startShift", "endShift"}
                            \/ run'[w].step = "command"
      PROVE  DayIsTracked(w)'
  <2>1. day'[w].shift = day[w].shift
    BY <1>8, DaysStep
  <2>2. WorkKept(w)
    BY <1>8, WorkStep
  <2> QED BY <1>8, <2>1, <2>2, SameDay, AnsweredDay
<1>9. CASE Refuse(w)
  <2>1. ~ OpenWork(w) /\ ~ StartShift(w) /\ ~ EndShift(w) /\ ~ CloseSession(w)
    BY <1>9 DEF Refuse, OpenWork, StartShift, EndShift, CloseSession, Proceed, Allowed
  <2>2. ~ At(w, "startShift", "openWork")
    <3>1. At(w, "startShift", "openWork") => OpenWorkOf(w) = {}
      BY DEF DayIsTracked, OpenWorkOf, OpenWorkSession
    <3> QED BY <1>9, <3>1 DEF Refuse, Allowed, At
  <2>3. ~ ClockingOut(w)
    <3>1. ClockingOut(w) => run[w].step \in {"findWork", "closeSession", "strip"}
      BY DEF ClockingOut, Shapes, RunShape
    <3> QED BY <1>9, <3>1 DEF Refuse, Allowed
  <2>4. DayAndSession(w)
    BY <2>2, <2>3 DEF DayIsTracked
  <2> QED BY <1>8, <1>9, <2>1, <2>4, EndsIdle
<1>10. CASE \/ WorkerRequest(w) \/ DriverRequest(w) \/ ChangePosition(w)
            \/ CloseSession(w) /\ run[w].cmd # "endShift"
            \/ Strip(w) /\ run[w].cmd # "endShift"
            \/ BeginDriving(w) \/ Elevate(w) \/ Attach(w) \/ OpenTrip(w)
            \/ CurrentVehicle(w) \/ ClaimForTrip(w) \/ CreateTrip(w)
            \/ EndTrip(w) \/ ReadOdometer(w) \/ WriteOdometer(w) \/ Release(w) \/ Detach(w)
  <2>1. ~ At(w, "startShift", "openWork") /\ ~ ClockingOut(w)
    <3>1. CASE WorkerRequest(w) \/ DriverRequest(w)
      BY <3>1, RequestGoes DEF At, ClockingOut, Idle
    <3>2. CASE \/ CloseSession(w) /\ run[w].cmd # "endShift"
               \/ Strip(w) /\ run[w].cmd # "endShift"
      BY <3>2 DEF CloseSession, Strip, At, ClockingOut
    <3>3. CASE OpenTrip(w) \/ Attach(w)
      <4>1. run[w].step \in {"attach", "openTrip"} /\ RunShape(run[w])
        BY <3>3 DEF OpenTrip, Attach, Shapes
      <4> QED BY <4>1 DEF RunShape, At, ClockingOut
    <3>4. CASE \/ ChangePosition(w) \/ BeginDriving(w) \/ Elevate(w)
               \/ CurrentVehicle(w) \/ ClaimForTrip(w) \/ CreateTrip(w)
               \/ EndTrip(w) \/ ReadOdometer(w) \/ WriteOdometer(w) \/ Release(w) \/ Detach(w)
      BY <3>4
      DEF ChangePosition, BeginDriving, Elevate, CurrentVehicle, ClaimForTrip, CreateTrip,
          EndTrip, ReadOdometer, WriteOdometer, Release, Detach, Proceed, At, ClockingOut
    <3> QED BY <1>10, <3>1, <3>2, <3>3, <3>4
  <2>2. ~ OpenWork(w) /\ ~ StartShift(w) /\ ~ EndShift(w)
        /\ ~ (CloseSession(w) /\ run[w].cmd = "endShift")
    <3>1. CASE WorkerRequest(w) \/ DriverRequest(w)
      <4>1. run[w].cmd = "none" /\ run[w].step = "idle"
        BY <3>1, RequestGoes DEF Idle
      <4> QED BY <4>1 DEF OpenWork, StartShift, EndShift, CloseSession, Proceed, At
    <3>2. CASE ~ (WorkerRequest(w) \/ DriverRequest(w))
      BY <1>10, <2>1, <3>2
      DEF OpenWork, StartShift, EndShift, CloseSession, ChangePosition, BeginDriving, Elevate,
          CurrentVehicle, ClaimForTrip, CreateTrip, EndTrip, ReadOdometer, WriteOdometer, Release,
          Detach, Strip, Attach, OpenTrip, Proceed, At, ClockingOut
    <3> QED BY <3>1, <3>2
  <2>3. run'[w] = Idle \/ run'[w].cmd \notin {"startShift", "endShift"} \/ run'[w].step = "command"
    <3>1. CASE WorkerRequest(w) \/ DriverRequest(w)
      BY <3>1, RequestGoes
    <3>2. CASE ChangePosition(w) \/ (CloseSession(w) /\ run[w].cmd # "endShift")
               \/ Strip(w) \/ OpenTrip(w)
      BY <3>2, ChangePositionGoes, CloseSessionGoes, EndsIdle
    <3>3. CASE BeginDriving(w) \/ Elevate(w) \/ Attach(w)
      BY <3>3, BeginDrivingGoes, ElevateGoes, AttachGoes
    <3>4. CASE CurrentVehicle(w) \/ ClaimForTrip(w) \/ CreateTrip(w)
      BY <3>4, CurrentVehicleGoes, ClaimForTripGoes, CreateTripGoes
    <3>5. CASE EndTrip(w) \/ ReadOdometer(w) \/ WriteOdometer(w) \/ Release(w) \/ Detach(w)
      BY <3>5, EndTripGoes, EndingGoes, DetachGoes
    <3> QED BY <1>10, <3>1, <3>2, <3>3, <3>4, <3>5
  <2>4. DayAndSession(w)
    BY <2>1 DEF DayIsTracked
  <2> QED BY <1>8, <2>2, <2>3, <2>4
<1> QED BY <1>1, <1>2, <1>3, <1>5, <1>6, <1>7, <1>9, <1>10 DEF Serves, Serve
---------------------------------------------------------------------------
(* The trips with a session of their own.                                         *)

OwnSession(k, w) ==
  tsession[k].open /\ tsession[k].context = "DRIVER_TRIP" /\ tsession[k].owner = w

RunsOrEnds(w, k) ==
  (tsession[k].trip \in TripId /\ Running(tsession[k].trip, w)) \/ Ending(w, k)

LEMMA TripIsTrackedMeans ==
  ASSUME NEW w
  PROVE  TripIsTracked(w) <=>
           /\ run[w].cmd = "beginDriving" /\ run[w].step # "command" =>
                day[w].shift # 0 /\ run[w].step # "openTrip"
           /\ run[w].cmd = "startTrip" /\ run[w].step \in {"attach", "openTrip"} =>
                run[w].trip # day[w].trip
           /\ day[w].trip # 0 => \A k \in SessionId : tsession[k].trip # day[w].trip
           /\ \A k \in SessionId : OwnSession(k, w) => RunsOrEnds(w, k)
BY DEF TripIsTracked, OpenTripSessionOf, OwnSession, RunsOrEnds

LEMMA OthersTrip ==
  ASSUME TypeOK, Shapes, Fleet, Sessions, NamedAfterTrips, NEW w \in Worker, Serves(w),
         NEW x \in Worker, x # w, TripIsTracked(x)
  PROVE  TripIsTracked(x)'
<1>1. run'[x] = run[x] /\ day'[x] = day[x]
  BY OnlyMine, DaysStep
<1>2. ASSUME NEW k \in SessionId, day[x].trip # 0
      PROVE  tsession'[k].trip # day[x].trip
  <2>1. tsession[k].trip # day[x].trip
    BY <1>2, TripIsTrackedMeans
  <2>2. OpenTrip(w) => run[w].trip # day[x].trip
    <3>1. OpenTrip(w) => Running(run[w].trip, w)
      BY DEF OpenTrip, NamedAfterTrips
    <3> QED BY <1>2, <3>1 DEF Fleet, DayTripIsOwn, Running
  <2> QED BY <2>1, <2>2, NewName
<1>3. ASSUME NEW k \in SessionId, OwnSession(k, x)'
      PROVE  RunsOrEnds(x, k)'
  <2>1. Kept(k)
    BY <1>3, NamesStep DEF OpenedForDay, OpenedForTrip, TripOpened, OwnSession
  <2>2. OwnSession(k, x) /\ tsession'[k].trip = tsession[k].trip
    BY <1>3, <2>1 DEF Kept, OwnSession
  <2>3. RunsOrEnds(x, k)
    BY <2>2, TripIsTrackedMeans
  <2>4. CASE Ending(x, k)
    BY <1>1, <2>2, <2>4 DEF Ending, RunsOrEnds
  <2>5. CASE tsession[k].trip \in TripId /\ Running(tsession[k].trip, x)
    <3>1. PICK t \in TripId : t = tsession[k].trip /\ t = tsession'[k].trip /\ Running(t, x)
      BY <2>2, <2>5
    <3>2. Running(t, x)'
      BY <3>1, OthersTrips
    <3> QED BY <3>1, <3>2 DEF RunsOrEnds, Running
  <2> QED BY <2>3, <2>4, <2>5 DEF RunsOrEnds
<1> QED BY <1>1, <1>2, <1>3 DEF TripIsTracked, OpenTripSessionOf, OwnSession, RunsOrEnds

LEMMA OwnAttaching ==
  ASSUME TypeOK, Shapes, Fleet, Sessions, OffMeansNoShift, NEW w \in Worker, Serves(w),
         DayIsTracked(w), TripIsTracked(w),
         run'[w].step \in {"elevate", "attach", "openTrip"}
  PROVE  /\ run'[w].cmd = "beginDriving" => day'[w].shift # 0 /\ run'[w].step # "openTrip"
         /\ run'[w].cmd = "startTrip" /\ run'[w].step # "elevate" => run'[w].trip # day'[w].trip
<1>1. CASE BeginDriving(w)
  <2>1. run'[w].cmd = "beginDriving" /\ run'[w].step = "elevate" /\ day[w].at = "floor"
    BY <1>1, BeginDrivingGoes
  <2>2. day[w].shift # 0
    BY <2>1 DEF OffMeansNoShift
  <2>3. day'[w].shift = day[w].shift
    BY <1>1, <2>1 DEF BeginDriving, TypeOK, Day
  <2> QED BY <2>1, <2>2, <2>3
<1>2. CASE CreateTrip(w)
  <2>1. /\ run'[w].cmd = "startTrip" /\ run'[w].trip \in TripId
        /\ trips[run'[w].trip] = NoTrip /\ UNCHANGED day
    BY <1>2, CreateTripGoes DEF CreateTrip
  <2>2. day[w].trip = run'[w].trip => FALSE
    BY <2>1, PortalAssumption DEF Fleet, DayTripIsOwn, NoTrip, TripId
  <2> QED BY <2>1, <2>2
<1>3. CASE Elevate(w)
  <2>1. /\ run[w].cmd = "beginDriving" /\ run[w].step = "elevate" /\ UNCHANGED day
        /\ run'[w].cmd = "beginDriving" /\ run'[w].step = "attach"
    BY <1>3, ElevateGoes DEF Elevate, At
  <2> QED BY <2>1 DEF TripIsTracked
<1>4. CASE Attach(w)
  <2>1. /\ run[w].cmd \in {"beginDriving", "startTrip"} /\ run[w].step = "attach"
        /\ OpenWorkOf(w) = {} /\ run'[w].cmd = run[w].cmd /\ run'[w].step = "openTrip"
        /\ run'[w].trip = run[w].trip /\ UNCHANGED day
    <3>1. run'[w] # Idle
      BY DEF Idle
    <3> QED BY <1>4, <3>1, AttachGoes DEF Attach, tables
  <2>2. run[w].cmd # "beginDriving"
    <3>1. ~ At(w, "startShift", "openWork") /\ ~ ClockingOut(w)
      BY <2>1 DEF At, ClockingOut
    <3>2. run[w].cmd = "beginDriving" => day[w].shift # 0
      BY <2>1 DEF TripIsTracked
    <3>3. day[w].shift = 0
      BY <2>1, <3>1 DEF DayIsTracked, DayAndSession, OpenWorkOf, OpenWorkSession
    <3> QED BY <3>2, <3>3
  <2> QED BY <2>1, <2>2 DEF TripIsTracked
<1> QED BY <1>1, <1>2, <1>3, <1>4, Attaching

LEMMA OwnDayTrip ==
  ASSUME TypeOK, Shapes, Fleet, Sessions, NamedAfterTrips, NEW w \in Worker, Serves(w),
         TripIsTracked(w), day'[w].trip # 0, NEW k \in SessionId
  PROVE  tsession'[k].trip # day'[w].trip
<1>1. CASE BeginDriving(w)
  <2>1. PICK t \in TripId : /\ t = run'[w].trip /\ trips[t] = NoTrip
                            /\ day' = [day EXCEPT ![w].at = "driving", ![w].trip = t]
    BY <1>1, BeginDrivingGoes
  <2>2. day'[w].trip = t /\ UNCHANGED tsession
    BY <1>1, <2>1 DEF TypeOK, Day, BeginDriving
  <2>3. tsession[k].trip # t
    BY <2>1, PortalAssumption DEF NamedAfterTrips, NoTrip, TripId
  <2> QED BY <2>2, <2>3
<1>2. CASE ~ BeginDriving(w)
  <2>1. day'[w].trip = day[w].trip
    BY <1>2, DaysStep DEF OffDuty
  <2>2. tsession[k].trip # day[w].trip
    BY <2>1, TripIsTrackedMeans
  <2>3. OpenTrip(w) => run[w].trip # day[w].trip
    <3>1. OpenTrip(w) => run[w].step = "openTrip" /\ RunShape(run[w])
      BY DEF OpenTrip, Shapes
    <3>2. OpenTrip(w) => run[w].cmd \in {"beginDriving", "startTrip"}
      <4>1. run[w].cmd \in Command
        BY DEF TypeOK, Run
      <4> QED BY <3>1, <4>1 DEF RunShape, Command, Idle
    <3> QED BY <3>1, <3>2 DEF TripIsTracked
  <2> QED BY <2>1, <2>2, <2>3, NewName
<1> QED BY <1>1, <1>2

LEMMA EndingBy ==
  ASSUME TypeOK, Shapes, NEW w \in Worker, Serves(w), NEW k \in SessionId, Ending(w, k), ~ Fault(w)
  PROVE  ReadOdometer(w) \/ WriteOdometer(w) \/ Release(w) \/ Detach(w) \/ CloseSession(w)
<1>1. /\ run[w].cmd = "endTrip"
      /\ run[w].step \in {"readOdometer", "writeOdometer", "release", "detach", "closeSession"}
  BY DEF Ending
<1>2. ~ WorkerRequest(w) /\ ~ DriverRequest(w)
  BY <1>1, RequestGoes DEF Idle
<1>3. ~ Refuse(w)
  BY <1>1 DEF Refuse, Allowed
<1> QED BY <1>1, <1>2, <1>3
    DEF Serves, Serve, StartShift, OpenWork, EndShift, FindWork, Strip, ChangePosition,
        BeginDriving, Elevate, Attach, OpenTrip, CurrentVehicle, ClaimForTrip, CreateTrip, EndTrip,
        Proceed, At

LEMMA TripEndedBy ==
  ASSUME TypeOK, Shapes, Fleet, NEW w \in Worker, Serves(w), NEW t \in TripId,
         Running(t, w), ~ Running(t, w)'
  PROVE  \/ EndTrip(w) /\ t = run[w].trip
         \/ (EndShift(w) \/ ChangePosition(w)) /\ t = day[w].trip
<1>1. trips'[t] # trips[t] /\ trips[t] # NoTrip
  BY DEF Running, NoTrip
<1>2. CASE BeginDriving(w) \/ CreateTrip(w)
  <2>1. PICK u \in TripId : trips[u] = NoTrip /\ NewTrip(w, run[w].vehicle, u)
    BY <1>2, BeginDrivingGoes, CreateTripGoes
  <2> QED BY <1>1, <2>1 DEF NewTrip, TypeOK
<1>3. CASE EndShift(w) \/ ChangePosition(w)
  <2>1. EndDriving(w)
    BY <1>3 DEF EndShift, ChangePosition
  <2>2. PICK u \in TripId : u = day[w].trip /\ trips' = [trips EXCEPT ![u].status = "COMPLETED"]
    BY <1>1, <2>1, EndDrivingEnds
  <2> QED BY <1>1, <1>3, <2>2 DEF TypeOK
<1>4. CASE EndTrip(w)
  <2>1. PICK u \in TripId : u = run[w].trip /\ trips' = [trips EXCEPT ![u].status = "COMPLETED"]
    BY <1>4, EndTripGoes DEF EndTrip, OpenTripsOf
  <2> QED BY <1>1, <1>4, <2>1 DEF TypeOK
<1>5. UNCHANGED trips \/ BeginDriving(w) \/ CreateTrip(w) \/ EndShift(w) \/ ChangePosition(w)
      \/ EndTrip(w)
  BY DEF Serves, Serve, WorkerRequest, DriverRequest, Ask, Fault, Refuse, StartShift, OpenWork,
         FindWork, CloseSession, Strip, Elevate, Attach, OpenTrip, CurrentVehicle, ClaimForTrip,
         ReadOdometer, WriteOdometer, Release, Detach, tables
<1> QED BY <1>1, <1>2, <1>3, <1>4, <1>5

LEMMA OwnSessionKept ==
  ASSUME TypeOK, Shapes, Fleet, Sessions, NamedAfterTrips, NEW w \in Worker, Serves(w),
         ~ Fault(w), TripIsTracked(w), NEW k \in SessionId, OwnSession(k, w)'
  PROVE  RunsOrEnds(w, k)'
<1>1. CASE OpenedForTrip(k, w)
  <2>1. PICK t \in TripId : t = run[w].trip /\ t = tsession'[k].trip /\ Running(t, w)
    BY <1>1 DEF OpenedForTrip, OpenTrip, NamedAfterTrips
  <2>2. UNCHANGED trips
    BY <1>1 DEF OpenedForTrip, OpenTrip
  <2> QED BY <2>1, <2>2 DEF RunsOrEnds, Running
<1>2. CASE ~ OpenedForTrip(k, w)
  <2>1. Kept(k)
    BY <1>2, NamesStep DEF OpenedForDay, OwnSession
  <2>2. OwnSession(k, w) /\ tsession'[k].trip = tsession[k].trip
    BY <2>1 DEF Kept, OwnSession
  <2>3. RunsOrEnds(w, k)
    BY <2>2, TripIsTrackedMeans
  <2>4. CASE Ending(w, k)
    <3>1. CASE ReadOdometer(w) \/ WriteOdometer(w) \/ Release(w)
      <4>1. /\ run[w].step # "closeSession" /\ run'[w].trip = run[w].trip
            /\ run'[w].cmd = "endTrip" /\ run'[w].step \in {"writeOdometer", "release", "detach"}
        BY <3>1, EndingGoes
      <4> QED BY <2>2, <2>4, <4>1 DEF Ending, RunsOrEnds
    <3>2. CASE Detach(w)
      <4>1. run[w].step = "detach" /\ run[w].trip \in TripId /\ tsession[k].trip = run[w].trip
        BY <2>4, <3>2, DetachGoes DEF Ending, At
      <4>2. \A j \in SessionId : tsession[j].trip = run[w].trip => j = k
        BY <4>1, PortalAssumption DEF NamedAfterTrips, TripId
      <4>3. tsession[k].open
        BY <2>2 DEF OwnSession
      <4>4. run'[w].cmd = "endTrip" /\ run'[w].step = "closeSession" /\ run'[w].session = k
        BY <3>2, <4>1, <4>2, <4>3, DetachGoes
      <4> QED BY <4>4 DEF Ending, RunsOrEnds
    <3>3. CASE CloseSession(w)
      <4>1. run[w].session = k
        BY <2>4, <3>3 DEF Ending, CloseSession
      <4>2. ~ tsession'[k].open
        BY <3>3, <4>1 DEF CloseSession, TypeOK, TrackingSession
      <4> QED BY <4>2 DEF OwnSession
    <3> QED BY <2>4, <3>1, <3>2, <3>3, EndingBy
  <2>5. ASSUME NEW t \in TripId, t = tsession[k].trip, Running(t, w)
        PROVE  RunsOrEnds(w, k)'
    <3>1. CASE Running(t, w)'
      BY <2>2, <2>5, <3>1 DEF RunsOrEnds, Running
    <3>2. CASE EndTrip(w) /\ t = run[w].trip
      BY <2>2, <2>5, <3>2, EndTripGoes DEF RunsOrEnds, Ending
    <3>3. CASE t = day[w].trip
      <4>1. t # 0
        BY PortalAssumption DEF TripId
      <4> QED BY <2>5, <3>3, <4>1, TripIsTrackedMeans
    <3> QED BY <2>5, <3>1, <3>2, <3>3, TripEndedBy
  <2> QED BY <2>3, <2>4, <2>5 DEF RunsOrEnds
<1> QED BY <1>1, <1>2

LEMMA OwnTrip ==
  ASSUME TypeOK, Shapes, Fleet, Sessions, NamedAfterTrips, OffMeansNoShift, TypeOK', Shapes',
         NEW w \in Worker, Serves(w), ~ Fault(w), DayIsTracked(w), TripIsTracked(w)
  PROVE  TripIsTracked(w)'
<1>1. run'[w].cmd = "beginDriving" /\ run'[w].step # "command" =>
        day'[w].shift # 0 /\ run'[w].step # "openTrip"
  <2>1. run'[w].cmd = "beginDriving" /\ run'[w].step # "command" =>
          run'[w].step \in {"elevate", "attach", "openTrip"}
    BY DEF Shapes, RunShape
  <2> QED BY <2>1, OwnAttaching
<1>2. run'[w].cmd = "startTrip" /\ run'[w].step \in {"attach", "openTrip"} =>
        run'[w].trip # day'[w].trip
  BY OwnAttaching
<1>3. \A k \in SessionId : day'[w].trip # 0 => tsession'[k].trip # day'[w].trip
  BY OwnDayTrip
<1>4. \A k \in SessionId : OwnSession(k, w)' => RunsOrEnds(w, k)'
  BY OwnSessionKept
<1> QED BY <1>1, <1>2, <1>3, <1>4
    DEF TripIsTracked, OpenTripSessionOf, OwnSession, RunsOrEnds

LEMMA NextKeepsTracked ==
  ASSUME TypeOK, Shapes, Fleet, Sessions, Tracked, TypeOK', Shapes', NEW w \in Worker, Serves(w)
  PROVE  Tracked'
<1>1. NamedAfterTrips' /\ OffMeansNoShift'
  BY NextKeepsNames, NextKeepsOff DEF Tracked
<1>2. ASSUME faults' = 0, NEW x \in Worker
      PROVE  DayIsTracked(x)' /\ TripIsTracked(x)'
  <2>1. ~ Fault(w) /\ DayIsTracked(x) /\ TripIsTracked(x)
        /\ NamedAfterTrips /\ OffMeansNoShift
    BY <1>2, NoNewFault DEF Tracked
  <2>2. CASE x = w
    BY <2>1, <2>2, OwnDay, OwnTrip
  <2>3. CASE x # w
    BY <2>1, <2>3, OthersDay, OthersTrip
  <2> QED BY <2>2, <2>3
<1> QED BY <1>1, <1>2 DEF Tracked

TrackedInv == FleetInv /\ SessionsInv /\ Tracked

LEMMA InitTracked == Init => TrackedInv
<1> SUFFICES ASSUME Init PROVE TrackedInv
  OBVIOUS
<1>1. \A k \in SessionId : tsession[k] = NotOpened
  BY DEF Init
<1>2. \A k \in SessionId : tsession[k].trip = 0 /\ tsession[k].open = FALSE
  BY <1>1 DEF NotOpened
<1>3. \A w \in Worker : day[w].shift = 0 /\ day[w].at = "off" /\ day[w].trip = 0
  BY DEF Init, OffDuty
<1>4. NamedAfterTrips /\ OffMeansNoShift
  BY <1>2, <1>3, IdleInit DEF NamedAfterTrips, OffMeansNoShift
<1>5. ASSUME NEW w \in Worker
      PROVE  DayIsTracked(w) /\ TripIsTracked(w)
  BY <1>2, <1>3, IdleInit
  DEF DayIsTracked, DayAndSession, OpenWorkSession, ClockingOut, At, TripIsTracked,
      OpenTripSessionOf
<1> QED BY <1>4, <1>5, InitFleet, InitSessions DEF TrackedInv, Tracked

LEMMA NextTracked == TrackedInv /\ [Next]_vars => TrackedInv'
<1> SUFFICES ASSUME TrackedInv, [Next]_vars PROVE TrackedInv'
  OBVIOUS
<1>1. FleetInv' /\ SessionsInv'
  BY NextFleet, NextSessions DEF TrackedInv
<1>2. CASE UNCHANGED vars
  <2>1. NamedAfterTrips' /\ OffMeansNoShift'
    BY <1>2 DEF TrackedInv, Tracked, NamedAfterTrips, OffMeansNoShift, Running, vars, tables
  <2>2. ASSUME NEW w \in Worker, DayIsTracked(w), TripIsTracked(w)
        PROVE  DayIsTracked(w)' /\ TripIsTracked(w)'
    BY <1>2, <2>2
    DEF DayIsTracked, DayAndSession, OpenWorkSession, ClockingOut, At, TripIsTracked,
        OpenTripSessionOf, Running, Ending, vars, tables
  <2>3. Tracked'
    BY <1>2, <2>1, <2>2 DEF TrackedInv, Tracked, vars
  <2> QED BY <1>1, <2>3 DEF TrackedInv
<1>3. CASE Next
  <2>1. PICK w \in Worker : Serves(w)
    BY <1>3 DEF Next, Serves
  <2> QED BY <1>1, <2>1, NextKeepsTracked DEF TrackedInv, FleetInv, SessionsInv
<1> QED BY <1>2, <1>3

LEMMA TrackedImplies == TrackedInv => TrackingMatchesWork
<1> SUFFICES ASSUME TrackedInv, faults = 0, NEW w \in Worker, Quiet(w)
             PROVE  /\ day[w].shift # 0 <=> OpenWorkOf(w) # {}
                    /\ \A k \in OpenWorkOf(w) : tsession[k].shift = day[w].shift
                    /\ \A k \in OpenTripSessionOf(w) : tsession[k].trip \in OpenTripsOf(w)
  BY DEF TrackingMatchesWork
<1>1. run[w].cmd = "none"
  BY DEF Quiet, Idle
<1>2. DayAndSession(w) /\ TripIsTracked(w)
  BY <1>1 DEF TrackedInv, Tracked, DayIsTracked, At, ClockingOut
<1>3. \A k \in OpenTripSessionOf(w) : tsession[k].trip \in TripId /\ Running(tsession[k].trip, w)
  BY <1>1, <1>2 DEF TripIsTracked, Ending
<1> QED BY <1>2, <1>3 DEF DayAndSession, OpenWorkSession, OpenWorkOf, OpenTripsOf, Running

(* While nothing fails, a worker who is not being served has an open working-day session    *)
(* exactly while he has an open shift, it is that shift's, and a trip's own session is open *)
(* only while the trip runs.                                                     *)
THEOREM TrackingIsWork == Spec => []TrackingMatchesWork
<1> QED BY InitTracked, NextTracked, TrackedImplies, PTL DEF Spec
---------------------------------------------------------------------------
(* AdminDesk.  An answer of the current turn of a section was read after what the page   *)
(* was told was written: told never goes beyond written, and a save that is told turns     *)
(* every section of the page that shows what it wrote.  The operational section is never    *)
(* read again, so none of its reads is left when its form can be submitted.              *)

Versions == UNION {[D -> Nat] : D \in SUBSET Table}
Topic == Subject \cup {Nothing}
ReadRow == [section: DOMAIN Queries, turn: Nat, about: Topic, asked: Nat, got: Versions]
ShownRow == [status: {"loading", "ready", "error"}, about: Topic, got: Versions]
SaveRow == [id: Nat, form: DOMAIN Forms, phase: {"sent", "done"}, mine: BOOLEAN, at: Nat]
FormRow == [busy: BOOLEAN, notice: Nat]

(* No table among these was read before what the page was told of it. *)
NoOlder(got) == \A t \in DOMAIN got : got[t] >= told[t]

DeskTypes ==
  /\ open \in Opened \cup {{}}
  /\ written \in [Table -> Nat] /\ told \in [Table -> Nat] /\ writes \in Nat /\ sent \in Nat
  /\ DOMAIN turn = open /\ DOMAIN picked = open /\ DOMAIN shown = open
  /\ DOMAIN forms = FormsOf(open)
  /\ \A s \in open : turn[s] \in Nat /\ picked[s] \in Topic /\ shown[s] \in ShownRow
  /\ \A f \in FormsOf(open) : forms[f] \in FormRow
  /\ loads \subseteq ReadRow /\ saves \subseteq SaveRow

(* The writes a page can be told of have been made. *)
Written(form, n) == \A t \in Forms[form].writes \cap Table : n <= written[t]

WritesMade ==
  /\ \A t \in Table : told[t] <= written[t] /\ written[t] <= writes
  /\ \A v \in saves : v.form \in FormsOf(open) /\ (v.phase = "done" => Written(v.form, v.at))
  /\ "newWorker" \in FormsOf(open) => Written("newWorker", forms["newWorker"].notice)

ReadFor(l) ==
  /\ l.section \in open /\ l.turn <= turn[l.section] /\ DOMAIN l.got \subseteq TablesOf(l.section)
  /\ l.turn = turn[l.section] => l.about = picked[l.section] /\ NoOlder(l.got)

ShownFor(s) ==
  shown[s].status = "ready" =>
    /\ DOMAIN shown[s].got \subseteq TablesOf(s)
    /\ s # "dayTrack" => shown[s].about = picked[s] /\ NoOlder(shown[s].got)

ReadOnce ==
  /\ \A l, m \in loads : l.section = "operational" /\ m.section = "operational" => l = m
  /\ "operational" \in open /\ shown["operational"].status # "loading" =>
       \A l \in loads : l.section # "operational"
  /\ \A v \in saves : v.form = "operational" => shown["operational"].status = "ready"

DeskInv ==
  /\ DeskTypes
  /\ WritesMade
  /\ \A l \in loads : ReadFor(l)
  /\ \A s \in open : ShownFor(s)
  /\ ReadOnce

LEMMA ReadsTables ==
  ASSUME NEW s \in DOMAIN Queries
  PROVE  /\ TablesOf(s) \subseteq Table
         /\ \A i \in DOMAIN Queries[s] : Queries[s][i] \subseteq TablesOf(s)
<1>1. Range(Queries[s]) \subseteq UNION {Range(Queries[x]) : x \in DOMAIN Queries}
  OBVIOUS
<1>2. \A i \in DOMAIN Queries[s] : Queries[s][i] \in Range(Queries[s])
  BY DEF Range
<1> QED BY <1>1, <1>2 DEF TablesOf, Table

LEMMA NothingRead == <<>> \in Versions /\ DOMAIN <<>> = {}
<1>1. <<>> \in [1 .. Len(<<>>) -> Nat] /\ DOMAIN <<>> = 1 .. Len(<<>>) /\ Len(<<>>) = 0
  BY EmptySeq, LenProperties
<1>2. 1 .. 0 = {}
  OBVIOUS
<1>3. <<>> \in [{} -> Nat] /\ DOMAIN <<>> = {}
  BY <1>1, <1>2
<1> QED BY <1>3 DEF Versions

LEMMA PageOpen ==
  ASSUME DeskTypes
  PROVE  /\ open \subseteq DOMAIN Queries /\ FormsOf(open) \subseteq DOMAIN Forms
         /\ \A f \in FormsOf(open) : Forms[f].at \in open
         /\ \A f \in FormsOf(open), s \in open :
              TablesOf(s) \cap Forms[f].writes # {} =>
                IF f = "operational" THEN s = "operational" ELSE s \in Versioned
BY PageAssumption DEF DeskTypes, FormsOf

LEMMA Asking ==
  ASSUME DeskTypes, NEW s \in open, NEW n \in Nat, NEW x \in Topic
  PROVE  /\ Request(s, n, x) \in ReadRow
         /\ Request(s, n, x).section = s /\ Request(s, n, x).turn = n /\ Request(s, n, x).about = x
         /\ DOMAIN Request(s, n, x).got = {}
BY PageOpen, NothingRead DEF Request, ReadRow

LEMMA LoadingTyped == Loading \in ShownRow /\ Loading.status = "loading"
BY NothingRead DEF Loading, ShownRow, Topic

LEMMA PageSame ==
  ASSUME UNCHANGED <<open, turn, picked, shown, told>>
  PROVE  /\ \A l : ReadFor(l) => ReadFor(l)'
         /\ \A s : ShownFor(s) => ShownFor(s)'
BY DEF ReadFor, ShownFor, NoOlder

LEMMA Queried ==
  ASSUME DeskInv, NEW l \in loads, Query(l)
  PROVE  DeskInv'
<1>1. l \in ReadRow /\ ReadFor(l) /\ DeskTypes
  BY DEF DeskInv, DeskTypes
<1>2. PICK touched : touched = Queries[l.section][l.asked]
  OBVIOUS
<1>3. PICK got, asked : got = Joined(l.got, touched) /\ asked = l.asked + 1
  OBVIOUS
<1>4. PICK m : m = [l EXCEPT !.got = got, !.asked = asked]
  OBVIOUS
<1>5. /\ loads' = (loads \ {l}) \cup {m} /\ l.asked \in DOMAIN Queries[l.section]
      /\ UNCHANGED <<open, written, writes, turn, picked, shown, forms, saves, sent, lost, told>>
  BY <1>2, <1>3, <1>4 DEF Query, Unanswered
<1>6. touched \subseteq TablesOf(l.section) /\ TablesOf(l.section) \subseteq Table
  BY <1>1, <1>2, <1>5, ReadsTables DEF ReadRow
<1>7. /\ DOMAIN got = DOMAIN l.got \cup touched
      /\ \A t \in DOMAIN got : got[t] = IF t \in DOMAIN l.got THEN l.got[t] ELSE written[t]
  BY <1>3 DEF Joined
<1>8. got \in Versions
  <2>1. DOMAIN got \subseteq Table
    BY <1>1, <1>6, <1>7 DEF ReadFor
  <2>2. \A t \in DOMAIN l.got : l.got[t] \in Nat
    BY <1>1 DEF ReadRow, Versions
  <2>3. \A t \in DOMAIN got : got[t] \in Nat
    BY <1>1, <1>7, <2>1, <2>2 DEF DeskTypes
  <2>4. got = [t \in DOMAIN got |-> got[t]]
    BY <1>3 DEF Joined
  <2>5. got \in [DOMAIN got -> Nat]
    BY <2>3, <2>4
  <2> QED BY <2>1, <2>5 DEF Versions
<1>9. /\ m \in ReadRow /\ m.section = l.section /\ m.turn = l.turn /\ m.about = l.about /\ m.got = got
  <2>1. asked \in Nat
    BY <1>1, <1>3 DEF ReadRow
  <2> QED BY <1>1, <1>4, <1>8, <2>1 DEF ReadRow
<1>10. NoOlder(l.got) => NoOlder(got)
  <2>1. \A t \in DOMAIN got : t \in Table
    BY <1>1, <1>6, <1>7 DEF ReadFor
  <2>2. \A t \in Table : written[t] >= told[t] /\ written[t] \in Nat /\ told[t] \in Nat
    BY DEF DeskInv, WritesMade, DeskTypes
  <2> QED BY <1>7, <2>1, <2>2 DEF NoOlder
<1>11. ReadFor(m)
  BY <1>1, <1>6, <1>7, <1>9, <1>10 DEF ReadFor
<1>12. \A x \in loads' : ReadFor(x)'
  BY <1>5, <1>11, PageSame DEF DeskInv
<1>13. \A s \in open' : ShownFor(s)'
  BY <1>5, PageSame DEF DeskInv
<1>14. ReadOnce'
  BY <1>5, <1>9 DEF DeskInv, ReadOnce
<1>15. DeskTypes'
  BY <1>5, <1>9 DEF DeskInv, DeskTypes
<1>16. WritesMade'
  BY <1>5 DEF DeskInv, WritesMade, Written
<1> QED BY <1>12, <1>13, <1>14, <1>15, <1>16 DEF DeskInv

LEMMA Shows ==
  ASSUME DeskInv, NEW s \in open, NEW row \in ShownRow, shown' = [shown EXCEPT ![s] = row],
         UNCHANGED <<open, turn, picked, told>>,
         row.status = "ready" =>
           /\ DOMAIN row.got \subseteq TablesOf(s)
           /\ s # "dayTrack" => row.about = picked[s] /\ NoOlder(row.got)
  PROVE  /\ DOMAIN shown' = open' /\ \A x \in open' : shown'[x] \in ShownRow
         /\ shown'[s] = row /\ \A x \in open \ {s} : shown'[x] = shown[x]
         /\ \A x \in open' : ShownFor(x)'
<1>1. DOMAIN shown = open /\ \A x \in open : shown[x] \in ShownRow /\ ShownFor(x)
  BY DEF DeskInv, DeskTypes
<1>2. shown'[s] = row /\ DOMAIN shown' = open /\ \A x \in open \ {s} : shown'[x] = shown[x]
  BY <1>1
<1>3. \A x \in open : ShownFor(x)'
  BY <1>1, <1>2 DEF ShownFor, NoOlder
<1> QED BY <1>1, <1>2, <1>3

(* A read is over: its section shows what came of it, or nothing if the turn is past.  *)
LEMMA ReadIsOver ==
  ASSUME DeskInv, NEW l \in loads, NEW more, NEW row \in ShownRow,
         more \subseteq ReadRow, \A m \in more : ReadFor(m) /\ m.section # "operational",
         loads' = (loads \ {l}) \cup more,
         shown' = IF Current(l) THEN [shown EXCEPT ![l.section] = row] ELSE shown,
         row.status = "ready" => row.about = l.about /\ row.got = l.got,
         row.status # "loading",
         UNCHANGED <<open, written, writes, turn, picked, forms, saves, sent, told>>
  PROVE  DeskInv'
<1>1. l \in ReadRow /\ ReadFor(l) /\ DeskTypes /\ l.section \in open
  BY DEF DeskInv, DeskTypes, ReadFor
<1>2. /\ DOMAIN shown' = open' /\ \A x \in open' : shown'[x] \in ShownRow
      /\ \A x \in open \ {l.section} : shown'[x] = shown[x]
      /\ \A x \in open' : ShownFor(x)'
  <2>1. CASE Current(l)
    <3>1. row.status = "ready" =>
            /\ DOMAIN row.got \subseteq TablesOf(l.section)
            /\ l.section # "dayTrack" => row.about = picked[l.section] /\ NoOlder(row.got)
      BY <1>1, <2>1 DEF ReadFor, Current
    <3> QED BY <1>1, <2>1, <3>1, Shows
  <2>2. CASE ~Current(l)
    BY <1>1, <2>2, PageSame DEF DeskInv, DeskTypes
  <2> QED BY <2>1, <2>2
<1>3. \A x \in loads' : ReadFor(x)'
  <2>1. \A x \in loads \cup more : ReadFor(x)
    BY DEF DeskInv
  <2>2. ASSUME NEW x, ReadFor(x) PROVE ReadFor(x)'
    BY <2>2 DEF ReadFor, NoOlder
  <2> QED BY <2>1, <2>2
<1>4. DeskTypes'
  BY <1>1, <1>2 DEF DeskTypes
<1>5. WritesMade'
  BY DEF DeskInv, WritesMade, Written
<1>6. ReadOnce'
  <2>1. ReadOnce
    BY DEF DeskInv
  <2>2. \A x, y \in loads' : x.section = "operational" /\ y.section = "operational" => x = y
    BY <2>1 DEF ReadOnce
  <2>3. l.section = "operational" => \A x \in loads' : x.section # "operational"
    BY <2>1 DEF ReadOnce
  <2>4. "operational" \in open /\ shown'["operational"].status # "loading" =>
          \A x \in loads' : x.section # "operational"
    <3>1. CASE l.section = "operational"
      BY <2>3, <3>1
    <3>2. CASE l.section # "operational"
      BY <1>2, <2>1, <3>2 DEF ReadOnce
    <3> QED BY <3>1, <3>2
  <2>5. \A v \in saves : v.form = "operational" => shown'["operational"].status = "ready"
    <3> SUFFICES ASSUME NEW v \in saves, v.form = "operational"
                 PROVE  shown'["operational"].status = "ready"
      OBVIOUS
    <3>1. "operational" \in open /\ shown["operational"].status = "ready"
      <4>1. Forms["operational"].at = "operational"
        BY DEF Forms, OperationalForm
      <4> QED BY <1>1, <2>1, <4>1, PageOpen DEF DeskInv, WritesMade, ReadOnce
    <3>2. l.section # "operational"
      BY <2>1, <3>1 DEF ReadOnce
    <3> QED BY <1>2, <3>1, <3>2
  <2> QED BY <2>2, <2>4, <2>5 DEF ReadOnce
<1> QED BY <1>2, <1>3, <1>4, <1>5, <1>6 DEF DeskInv

LEMMA AnsweredKeeps ==
  ASSUME DeskInv, NEW l \in loads, Answered(l)
  PROVE  DeskInv'
<1>1. l \in ReadRow /\ DeskTypes
  BY DEF DeskInv, DeskTypes
<1>2. PICK row : row = Ready(l)
  OBVIOUS
<1>3. PICK more : more = Below(l)
  OBVIOUS
<1>4. row \in ShownRow /\ row.status = "ready" /\ row.about = l.about /\ row.got = l.got
  BY <1>1, <1>2 DEF Ready, ReadRow, ShownRow
<1>5. more \subseteq ReadRow /\ \A m \in more : ReadFor(m) /\ m.section # "operational"
  <2>1. SUFFICES ASSUME more # {}
                 PROVE  more \subseteq ReadRow /\ \A m \in more : ReadFor(m) /\ m.section # "operational"
    OBVIOUS
  <2>2. "visits" \in open /\ more = {Request("visits", turn["visits"], picked["visits"])}
    BY <1>3, <2>1 DEF Below
  <2>3. turn["visits"] \in Nat /\ picked["visits"] \in Topic
    BY <1>1, <2>2 DEF DeskTypes
  <2>4. PICK n \in Nat, x \in Topic : n = turn["visits"] /\ x = picked["visits"]
    BY <2>3
  <2>5. PICK m : m = Request("visits", n, x)
    OBVIOUS
  <2>6. m \in ReadRow /\ m.section = "visits" /\ m.turn = n /\ m.about = x /\ DOMAIN m.got = {}
    BY <1>1, <2>2, <2>4, <2>5, Asking
  <2>7. ReadFor(m)
    BY <2>2, <2>4, <2>6 DEF ReadFor, NoOlder
  <2> QED BY <2>2, <2>4, <2>5, <2>6, <2>7
<1> QED BY <1>2, <1>3, <1>4, <1>5, ReadIsOver DEF Answered

LEMMA LoadFailsKeeps ==
  ASSUME DeskInv, NEW l \in loads, LoadFails(l)
  PROVE  DeskInv'
<1>1. PICK row : row = [Loading EXCEPT !.status = "error"]
  OBVIOUS
<1>2. row \in ShownRow /\ row.status = "error"
  <2>1. PICK none \in Versions : none = <<>>
    BY NothingRead
  <2>2. Loading = [status |-> "loading", about |-> Nothing, got |-> none]
    BY <2>1 DEF Loading
  <2>3. row = [status |-> "error", about |-> Nothing, got |-> none]
    BY <1>1, <2>2
  <2> QED BY <2>1, <2>3 DEF ShownRow, Topic
<1>3. PICK more : more = {}
  OBVIOUS
<1>4. /\ loads' = (loads \ {l}) \cup more
      /\ shown' = IF Current(l) THEN [shown EXCEPT ![l.section] = row] ELSE shown
      /\ UNCHANGED <<open, written, writes, turn, picked, forms, saves, sent, told>>
  BY <1>1, <1>3 DEF LoadFails
<1> QED BY <1>2, <1>3, <1>4, ReadIsOver

(* Steps that touch forms and saves alone. *)
LEMMA FormsOnly ==
  ASSUME DeskInv, UNCHANGED <<open, written, writes, turn, picked, shown, loads, told>>,
         sent' \in Nat, saves' \subseteq SaveRow,
         DOMAIN forms' = FormsOf(open), \A f \in FormsOf(open) : forms'[f] \in FormRow,
         \A v \in saves' :
           /\ v.form \in FormsOf(open) /\ (v.phase = "done" => Written(v.form, v.at))
           /\ v.form = "operational" => shown["operational"].status = "ready",
         "newWorker" \in FormsOf(open) => Written("newWorker", forms'["newWorker"].notice)
  PROVE  DeskInv'
<1>1. \A x \in loads' : ReadFor(x)'
  BY PageSame DEF DeskInv
<1>2. \A s \in open' : ShownFor(s)'
  BY PageSame DEF DeskInv
<1>3. DeskTypes'
  BY DEF DeskInv, DeskTypes
<1>4. WritesMade'
  BY DEF DeskInv, WritesMade, Written
<1>5. ReadOnce'
  BY DEF DeskInv, ReadOnce
<1> QED BY <1>1, <1>2, <1>3, <1>4, <1>5 DEF DeskInv

LEMMA SubmitKeeps ==
  ASSUME DeskInv, NEW f \in DOMAIN forms, Submit(f)
  PROVE  DeskInv'
<1>1. DeskTypes /\ WritesMade /\ ReadOnce
  BY DEF DeskInv
<1>2. f \in FormsOf(open) /\ f \in DOMAIN Forms
  BY <1>1, PageOpen DEF DeskTypes
<1>3. PICK v : v = [id |-> sent', form |-> f, phase |-> "sent", mine |-> TRUE, at |-> 0]
  OBVIOUS
<1>4. sent' \in Nat /\ v \in SaveRow /\ v.form = f /\ v.phase = "sent"
  BY <1>1, <1>2, <1>3 DEF Submit, DeskTypes, SaveRow
<1>5. saves' = saves \cup {v}
  BY <1>3 DEF Submit
<1>6. f = "operational" => shown["operational"].status = "ready"
  BY DEF Submit, Mounted, Inside, Forms, OperationalForm
<1>7. /\ DOMAIN forms' = FormsOf(open)
      /\ \A g \in FormsOf(open) : forms'[g] \in FormRow /\ forms'[g].notice = forms[g].notice
  <2>1. PICK busy \in BOOLEAN : busy = (f # "archive")
    OBVIOUS
  <2>2. forms' = [forms EXCEPT ![f].busy = busy]
    BY <2>1 DEF Submit
  <2>3. \A g \in FormsOf(open) : forms[g] \in [busy: BOOLEAN, notice: Nat]
    BY <1>1 DEF DeskTypes, FormRow
  <2>4. DOMAIN forms = FormsOf(open)
    BY <1>1 DEF DeskTypes
  <2> QED BY <1>2, <2>1, <2>2, <2>3, <2>4 DEF FormRow
<1>8. saves' \subseteq SaveRow
  BY <1>1, <1>4, <1>5 DEF DeskTypes
<1>9. \A w \in saves' :
        /\ w.form \in FormsOf(open) /\ (w.phase = "done" => Written(w.form, w.at))
        /\ w.form = "operational" => shown["operational"].status = "ready"
  BY <1>1, <1>2, <1>4, <1>5, <1>6 DEF WritesMade, ReadOnce
<1>10. "newWorker" \in FormsOf(open) => Written("newWorker", forms'["newWorker"].notice)
  BY <1>1, <1>7 DEF WritesMade
<1>11. UNCHANGED <<open, written, writes, turn, picked, shown, loads, told>>
  BY DEF Submit
<1> QED BY <1>4, <1>7, <1>8, <1>9, <1>10, <1>11, FormsOnly

LEMMA SaveFailsKeeps ==
  ASSUME DeskInv, NEW v \in saves, SaveFails(v)
  PROVE  DeskInv'
<1>1. DeskTypes /\ WritesMade /\ ReadOnce
  BY DEF DeskInv
<1>2. v.form \in FormsOf(open) /\ DOMAIN forms = FormsOf(open) /\ \A g \in FormsOf(open) : forms[g] \in FormRow
  BY <1>1 DEF WritesMade, DeskTypes
<1>3. /\ DOMAIN forms' = FormsOf(open)
      /\ \A g \in FormsOf(open) : forms'[g] \in FormRow /\ forms'[g].notice = forms[g].notice
  <2>1. CASE v.mine
    <3>1. forms' = [forms EXCEPT ![v.form].busy = FALSE]
      BY <2>1 DEF SaveFails
    <3> QED BY <1>2, <3>1 DEF FormRow
  <2>2. CASE ~v.mine
    BY <1>2, <2>2 DEF SaveFails
  <2> QED BY <2>1, <2>2
<1>4. saves' \subseteq saves
  BY DEF SaveFails
<1>5. sent' \in Nat /\ saves' \subseteq SaveRow
  BY <1>1, <1>4 DEF SaveFails, DeskTypes
<1>6. "newWorker" \in FormsOf(open) => Written("newWorker", forms'["newWorker"].notice)
  BY <1>1, <1>3 DEF WritesMade
<1>7. \A w \in saves' :
        /\ w.form \in FormsOf(open) /\ (w.phase = "done" => Written(w.form, w.at))
        /\ w.form = "operational" => shown["operational"].status = "ready"
  BY <1>1, <1>4 DEF WritesMade, ReadOnce
<1>8. UNCHANGED <<open, written, writes, turn, picked, shown, loads, told>>
  BY DEF SaveFails
<1> QED BY <1>3, <1>5, <1>6, <1>7, <1>8, FormsOnly

LEMMA WorkerCreatedKeeps ==
  ASSUME DeskInv, NEW v \in saves, WorkerCreated(v)
  PROVE  DeskInv'
<1>1. DeskTypes /\ WritesMade /\ ReadOnce
  BY DEF DeskInv
<1>2. DOMAIN forms = FormsOf(open) /\ \A g \in FormsOf(open) : forms[g] \in FormRow
  BY <1>1 DEF DeskTypes
<1>3. v.form = "newWorker" /\ v.at \in Nat /\ Written("newWorker", v.at) /\ v.form \in FormsOf(open)
  BY <1>1 DEF WorkerCreated, WritesMade, DeskTypes, SaveRow
<1>4. /\ DOMAIN forms' = FormsOf(open) /\ \A g \in FormsOf(open) : forms'[g] \in FormRow
      /\ Written("newWorker", forms'["newWorker"].notice)
  <2>1. CASE v.mine
    <3>1. PICK row : row = [busy |-> FALSE, notice |-> v.at]
      OBVIOUS
    <3>2. row \in FormRow /\ row.notice = v.at
      BY <1>3, <3>1 DEF FormRow
    <3>3. forms' = [forms EXCEPT !["newWorker"] = row]
      BY <2>1, <3>1 DEF WorkerCreated
    <3> QED BY <1>2, <1>3, <3>2, <3>3
  <2>2. CASE ~v.mine
    BY <1>1, <1>2, <1>3, <2>2 DEF WorkerCreated, WritesMade
  <2> QED BY <2>1, <2>2
<1>5. saves' \subseteq saves
  BY DEF WorkerCreated
<1>6. sent' \in Nat /\ saves' \subseteq SaveRow
  BY <1>1, <1>5 DEF WorkerCreated, DeskTypes
<1>7. \A w \in saves' :
        /\ w.form \in FormsOf(open) /\ (w.phase = "done" => Written(w.form, w.at))
        /\ w.form = "operational" => shown["operational"].status = "ready"
  BY <1>1, <1>5 DEF WritesMade, ReadOnce
<1>8. UNCHANGED <<open, written, writes, turn, picked, shown, loads, told>>
  BY DEF WorkerCreated
<1> QED BY <1>4, <1>6, <1>7, <1>8, FormsOnly

LEMMA BlankForm == Blank \in FormRow /\ Blank.notice = 0
BY DEF Blank, FormRow

LEMMA NothingWritten ==
  ASSUME DeskInv, NEW f \in DOMAIN Forms
  PROVE  Written(f, 0)
BY DEF DeskInv, DeskTypes, Written

LEMMA CloseFormKeeps ==
  ASSUME DeskInv, NEW f \in Closable, CloseForm(f)
  PROVE  DeskInv'
<1>1. DeskTypes /\ WritesMade /\ ReadOnce
  BY DEF DeskInv
<1>2. DOMAIN forms = FormsOf(open) /\ \A g \in FormsOf(open) : forms[g] \in FormRow
  BY <1>1 DEF DeskTypes
<1>3. PICK row : row = Blank
  OBVIOUS
<1>4. f \in FormsOf(open) /\ forms' = [forms EXCEPT ![f] = row]
  BY <1>2, <1>3 DEF CloseForm
<1>5. /\ DOMAIN forms' = FormsOf(open)
      /\ \A g \in FormsOf(open) : forms'[g] \in FormRow
      /\ \A g \in FormsOf(open) : forms'[g] = forms[g] \/ forms'[g].notice = 0
  BY <1>2, <1>3, <1>4, BlankForm
<1>6. "newWorker" \in FormsOf(open) => Written("newWorker", forms'["newWorker"].notice)
  <2>1. Written("newWorker", 0)
    BY NothingWritten DEF Forms
  <2> QED BY <1>1, <1>5, <2>1 DEF WritesMade
<1>7. \A w \in saves' : w \in SaveRow /\ \E u \in saves : w.form = u.form /\ w.phase = u.phase /\ w.at = u.at
  <2>1. saves' = {[u EXCEPT !.mine = @ /\ u.form # f] : u \in saves}
    BY DEF CloseForm
  <2> SUFFICES ASSUME NEW u \in saves, NEW w, w = [u EXCEPT !.mine = @ /\ u.form # f]
               PROVE  w \in SaveRow /\ w.form = u.form /\ w.phase = u.phase /\ w.at = u.at
    BY <2>1
  <2>2. PICK mine \in BOOLEAN : mine = (u.mine /\ u.form # f)
    OBVIOUS
  <2>3. w = [u EXCEPT !.mine = mine] /\ u \in SaveRow
    BY <1>1, <2>2 DEF DeskTypes
  <2> QED BY <2>3 DEF SaveRow
<1>8. sent' \in Nat /\ saves' \subseteq SaveRow
  BY <1>1, <1>7 DEF CloseForm, DeskTypes
<1>9. \A w \in saves' :
        /\ w.form \in FormsOf(open) /\ (w.phase = "done" => Written(w.form, w.at))
        /\ w.form = "operational" => shown["operational"].status = "ready"
  BY <1>1, <1>7 DEF WritesMade, ReadOnce
<1>10. UNCHANGED <<open, written, writes, turn, picked, shown, loads, told>>
  BY DEF CloseForm
<1> QED BY <1>5, <1>6, <1>8, <1>9, <1>10, FormsOnly

(* A write makes what was written newer, so whatever had been written still has been. *)
LEMMA Touched ==
  ASSUME DeskInv, NEW touched, Touch(touched)
  PROVE  /\ written' \in [Table -> Nat] /\ writes' \in Nat
         /\ \A t \in Table : written[t] <= written'[t] /\ told[t] <= written'[t] /\ written'[t] <= writes'
         /\ \A t \in Table \cap touched : written'[t] = writes'
         /\ \A f : \A n \in Nat : Written(f, n) => Written(f, n)'
<1>1. \A t \in Table : written[t] \in Nat /\ told[t] \in Nat /\ told[t] <= written[t] /\ written[t] <= writes
  BY DEF DeskInv, DeskTypes, WritesMade
<1>2. writes \in Nat /\ writes' = writes + 1
  BY DEF DeskInv, DeskTypes, Touch
<1>3. PICK now \in Nat : now = writes'
  BY <1>2
<1>4. written' = [t \in Table |-> IF t \in touched THEN now ELSE written[t]]
  BY <1>3 DEF Touch
<1>5. written' \in [Table -> Nat]
  BY <1>1, <1>3, <1>4
<1>6. \A t \in Table : written[t] <= written'[t] /\ told[t] <= written'[t] /\ written'[t] <= writes'
  BY <1>1, <1>2, <1>3, <1>4
<1>7. \A f : \A n \in Nat : Written(f, n) => Written(f, n)'
  BY <1>1, <1>5, <1>6 DEF Written
<1> QED BY <1>2, <1>3, <1>4, <1>5, <1>6, <1>7

LEMMA TouchKeeps ==
  ASSUME DeskInv, NEW touched, Touch(touched),
         UNCHANGED <<open, turn, picked, shown, loads, forms, sent, told>>,
         saves' \subseteq SaveRow,
         \A v \in saves' :
           /\ v.form \in FormsOf(open) /\ (v.phase = "done" => Written(v.form, v.at)')
           /\ v.form = "operational" => shown["operational"].status = "ready"
  PROVE  DeskInv'
<1>1. \A x \in loads' : ReadFor(x)'
  BY PageSame DEF DeskInv
<1>2. \A s \in open' : ShownFor(s)'
  BY PageSame DEF DeskInv
<1>3. DeskTypes'
  BY Touched DEF DeskInv, DeskTypes
<1>4. WritesMade'
  <2>1. "newWorker" \in FormsOf(open) => Written("newWorker", forms["newWorker"].notice)'
    <3> SUFFICES ASSUME "newWorker" \in FormsOf(open)
                 PROVE  Written("newWorker", forms["newWorker"].notice)'
      OBVIOUS
    <3>1. PICK n \in Nat : n = forms["newWorker"].notice
      BY DEF DeskInv, DeskTypes, FormRow
    <3>2. Written("newWorker", n)
      BY <3>1 DEF DeskInv, WritesMade
    <3>3. Written("newWorker", n)'
      BY <3>2, Touched DEF Written, Forms
    <3> QED BY <3>1, <3>3 DEF Written
  <2>2. \A t \in Table : told'[t] <= written'[t] /\ written'[t] <= writes'
    BY Touched
  <2> QED BY <2>1, <2>2 DEF WritesMade, Written
<1>5. ReadOnce'
  BY DEF DeskInv, ReadOnce
<1> QED BY <1>1, <1>2, <1>3, <1>4, <1>5 DEF DeskInv

LEMMA ApplyKeeps ==
  ASSUME DeskInv, NEW v \in saves, Apply(v)
  PROVE  DeskInv'
<1>1. DeskTypes /\ WritesMade /\ ReadOnce
  BY DEF DeskInv
<1>2. PICK touched : touched = Forms[v.form].writes
  OBVIOUS
<1>3. Touch(touched)
  BY <1>2 DEF Apply
<1>4. PICK now \in Nat : now = writes'
  BY <1>3, Touched
<1>5. PICK w : w = [v EXCEPT !.phase = "done", !.at = now]
  OBVIOUS
<1>6. w \in SaveRow /\ w.form = v.form /\ w.at = now
  BY <1>1, <1>5 DEF DeskTypes, SaveRow
<1>7. saves' = (saves \ {v}) \cup {w}
  BY <1>4, <1>5 DEF Apply
<1>8. saves' \subseteq SaveRow
  BY <1>1, <1>6, <1>7 DEF DeskTypes
<1>9. Written(w.form, w.at)'
  BY <1>2, <1>3, <1>4, <1>6, Touched DEF Written
<1>10. \A u \in saves' :
         /\ u.form \in FormsOf(open) /\ (u.phase = "done" => Written(u.form, u.at)')
         /\ u.form = "operational" => shown["operational"].status = "ready"
  <2> SUFFICES ASSUME NEW u \in saves'
               PROVE  /\ u.form \in FormsOf(open) /\ (u.phase = "done" => Written(u.form, u.at)')
                      /\ u.form = "operational" => shown["operational"].status = "ready"
    OBVIOUS
  <2>1. CASE u = w
    BY <1>1, <1>6, <1>9, <2>1 DEF WritesMade, ReadOnce, Written
  <2>2. CASE u \in saves
    <3>1. PICK f, n : f = u.form /\ n = u.at
      OBVIOUS
    <3>2. n \in Nat /\ f \in FormsOf(open) /\ (u.phase = "done" => Written(f, n))
      BY <1>1, <2>2, <3>1 DEF DeskTypes, SaveRow, WritesMade
    <3>3. u.phase = "done" => Written(f, n)'
      BY <1>3, <3>2, Touched DEF Written
    <3> QED BY <1>1, <2>2, <3>1, <3>2, <3>3 DEF ReadOnce, Written
  <2> QED BY <1>7, <2>1, <2>2
<1>11. UNCHANGED <<open, turn, picked, shown, loads, forms, sent, told>>
  BY DEF Apply
<1> QED BY <1>3, <1>8, <1>10, <1>11, TouchKeeps

LEMMA ElsewhereKeeps ==
  ASSUME DeskInv, NEW q, Elsewhere(q)
  PROVE  DeskInv'
<1>1. DeskTypes /\ WritesMade /\ ReadOnce /\ Touch(q)
  BY DEF DeskInv, Elsewhere
<1>2. saves' = saves /\ saves' \subseteq SaveRow
  BY <1>1 DEF Elsewhere, DeskTypes
<1>3. \A u \in saves' :
         /\ u.form \in FormsOf(open) /\ (u.phase = "done" => Written(u.form, u.at)')
         /\ u.form = "operational" => shown["operational"].status = "ready"
  <2> SUFFICES ASSUME NEW u \in saves
               PROVE  /\ u.form \in FormsOf(open) /\ (u.phase = "done" => Written(u.form, u.at)')
                      /\ u.form = "operational" => shown["operational"].status = "ready"
    BY <1>2
  <2>1. PICK f, n : f = u.form /\ n = u.at
    OBVIOUS
  <2>2. n \in Nat /\ f \in FormsOf(open) /\ (u.phase = "done" => Written(f, n))
    BY <1>1, <2>1 DEF DeskTypes, SaveRow, WritesMade
  <2>3. u.phase = "done" => Written(f, n)'
    BY <1>1, <2>2, Touched DEF Written
  <2> QED BY <1>1, <2>1, <2>2, <2>3 DEF ReadOnce, Written
<1>4. UNCHANGED <<open, turn, picked, shown, loads, forms, sent, told>>
  BY DEF Elsewhere
<1> QED BY <1>1, <1>2, <1>3, <1>4, TouchKeeps

(* Sections start over: what was asked for them before is of an earlier turn.  What the    *)
(* page is told meanwhile concerns tables that only these sections show.               *)
LEMMA StartOver ==
  ASSUME DeskInv, NEW gone \in SUBSET open, "operational" \notin gone,
         NEW asked \in SUBSET gone, NEW keep \in SUBSET loads,
         loads' = keep \cup Asked(asked, picked'),
         turn' = Turned(gone), shown' = Unready(gone), UNCHANGED <<open, written, writes>>,
         DOMAIN picked' = open, \A s \in gone : picked'[s] \in Topic,
         \A s \in open \ gone : picked'[s] = picked[s],
         told' \in [Table -> Nat], \A t \in Table : told'[t] <= written[t],
         \A s \in open \ gone : \A t \in TablesOf(s) : told'[t] = told[t],
         sent' \in Nat, saves' \subseteq SaveRow,
         DOMAIN forms' = FormsOf(open), \A f \in FormsOf(open) : forms'[f] \in FormRow,
         \A v \in saves' :
           /\ v.form \in FormsOf(open) /\ (v.phase = "done" => Written(v.form, v.at))
           /\ v.form = "operational" => shown["operational"].status = "ready",
         "newWorker" \in FormsOf(open) => Written("newWorker", forms'["newWorker"].notice)
  PROVE  DeskInv'
<1>1. DeskTypes /\ WritesMade /\ ReadOnce
  BY DEF DeskInv
<1> gone \subseteq open /\ asked \subseteq gone /\ keep \subseteq loads
  OBVIOUS
<1>0. /\ \A s \in open : turn[s] \in Nat
      /\ \A s \in open : picked[s] \in Topic
      /\ \A s \in open : shown[s] \in ShownRow
  BY <1>1 DEF DeskTypes
<1>2. /\ DOMAIN turn' = open
      /\ \A s \in gone : turn'[s] = turn[s] + 1
      /\ \A s \in open \ gone : turn'[s] = turn[s]
      /\ \A s \in open : turn'[s] \in Nat
  BY <1>0 DEF Turned
<1>3. PICK loading \in ShownRow : loading = Loading /\ loading.status = "loading"
  BY LoadingTyped
<1>4. shown' = [s \in open |-> IF s \in gone THEN loading ELSE shown[s]]
  BY <1>3 DEF Unready
<1>5. \A s \in open : picked'[s] \in Topic
  BY <1>0
<1>6. \A m \in loads' : m \in keep \/ \E s \in asked : m = Request(s, turn'[s], picked'[s])
  BY <1>2 DEF Asked
<1>7. ASSUME NEW s \in asked, NEW m, m = Request(s, turn'[s], picked'[s])
      PROVE  m \in ReadRow /\ ReadFor(m)' /\ m.section # "operational"
  <2>1. PICK n \in Nat, x \in Topic : n = turn'[s] /\ x = picked'[s]
    BY <1>2, <1>5
  <2>2. m = Request(s, n, x)
    BY <1>7, <2>1
  <2>3. m \in ReadRow /\ m.section = s /\ m.turn = n /\ m.about = x /\ DOMAIN m.got = {}
    BY <1>1, <2>2, Asking
  <2> QED BY <2>1, <2>3 DEF ReadFor, NoOlder
<1>8. ASSUME NEW m \in keep
      PROVE  m \in ReadRow /\ ReadFor(m)'
  <2>1. m \in ReadRow /\ ReadFor(m) /\ m.section \in open /\ m.turn \in Nat
    BY <1>1 DEF DeskTypes, DeskInv, ReadFor, ReadRow
  <2>2. CASE m.section \in gone
    <3>1. m.turn < turn'[m.section]
      BY <1>0, <1>2, <2>1, <2>2 DEF ReadFor
    <3> QED BY <1>2, <2>1, <3>1 DEF ReadFor
  <2>3. CASE m.section \notin gone
    <3>1. \A t \in DOMAIN m.got : told'[t] = told[t]
      BY <2>1, <2>3 DEF ReadFor
    <3> QED BY <1>2, <2>1, <2>3, <3>1 DEF ReadFor, NoOlder
  <2> QED BY <2>2, <2>3
<1>9. \A m \in loads' : m \in ReadRow /\ ReadFor(m)'
  BY <1>6, <1>7, <1>8
<1>10. \A s \in open' : ShownFor(s)'
  <2> SUFFICES ASSUME NEW s \in open PROVE ShownFor(s)'
    OBVIOUS
  <2>1. CASE s \in gone
    BY <1>3, <1>4, <2>1 DEF ShownFor
  <2>2. CASE s \notin gone
    <3>1. ShownFor(s) /\ shown'[s] = shown[s] /\ picked'[s] = picked[s]
      BY <1>4, <2>2 DEF DeskInv
    <3>2. shown[s].status = "ready" => \A t \in DOMAIN shown[s].got : told'[t] = told[t]
      BY <2>2, <3>1 DEF ShownFor
    <3> QED BY <3>1, <3>2 DEF ShownFor, NoOlder
  <2> QED BY <2>1, <2>2
<1>11. \A s \in open : shown'[s] \in ShownRow
  BY <1>0, <1>3, <1>4
<1>12. DeskTypes'
  BY <1>1, <1>2, <1>4, <1>5, <1>9, <1>11 DEF DeskTypes
<1>13. WritesMade'
  BY <1>1 DEF WritesMade, Written
<1>14. ReadOnce'
  <2>1. \A m \in loads' : m.section = "operational" => m \in loads
    BY <1>6, <1>7
  <2>2. "operational" \in open => shown'["operational"] = shown["operational"]
    BY <1>4
  <2>3. \A v \in saves' : v.form = "operational" => "operational" \in open
    <3>1. Forms["operational"].at = "operational"
      BY DEF Forms, OperationalForm
    <3> QED BY <1>1, <3>1, PageOpen
  <2> QED BY <1>1, <2>1, <2>2, <2>3 DEF ReadOnce
<1> QED BY <1>9, <1>10, <1>12, <1>13, <1>14 DEF DeskInv

(* The same steps when nobody is told anything and no form changes. *)
LEMMA StartOverQuietly ==
  ASSUME DeskInv, NEW gone \in SUBSET open, "operational" \notin gone,
         NEW asked \in SUBSET gone, NEW keep \in SUBSET loads,
         loads' = keep \cup Asked(asked, picked'),
         turn' = Turned(gone), shown' = Unready(gone),
         UNCHANGED <<open, written, writes, told, sent, saves, forms>>,
         DOMAIN picked' = open, \A s \in gone : picked'[s] \in Topic,
         \A s \in open \ gone : picked'[s] = picked[s]
  PROVE  DeskInv'
<1>1. DeskTypes /\ WritesMade /\ ReadOnce
  BY DEF DeskInv
<1>2. told' \in [Table -> Nat] /\ sent' \in Nat /\ saves' \subseteq SaveRow /\ DOMAIN forms' = FormsOf(open)
  BY <1>1 DEF DeskTypes
<1>3. \A f \in FormsOf(open) : forms'[f] \in FormRow
  BY <1>1 DEF DeskTypes
<1>4. /\ \A t \in Table : told'[t] <= written[t]
      /\ \A s \in open \ gone : \A t \in TablesOf(s) : told'[t] = told[t]
      /\ \A v \in saves' : v.form \in FormsOf(open) /\ (v.phase = "done" => Written(v.form, v.at))
      /\ "newWorker" \in FormsOf(open) => Written("newWorker", forms'["newWorker"].notice)
  BY <1>1 DEF WritesMade
<1>5. \A v \in saves' :
        /\ v.form \in FormsOf(open) /\ (v.phase = "done" => Written(v.form, v.at))
        /\ v.form = "operational" => shown["operational"].status = "ready"
  BY <1>1, <1>4 DEF ReadOnce
<1> QED BY <1>2, <1>3, <1>4, <1>5, StartOver

LEMMA PickKeeps ==
  ASSUME DeskInv, NEW s \in About, NEW x \in Topic, Pick(s, x)
  PROVE  DeskInv'
<1>1. DeskTypes /\ s \in open /\ s # "operational"
  BY DEF DeskInv, Pick, About
<1>2. DOMAIN picked = open /\ picked' = [picked EXCEPT ![s] = x]
  BY <1>1 DEF DeskTypes, Pick
<1>3. PICK gone \in SUBSET open : gone = {s}
  BY <1>1
<1>4. /\ turn' = Turned(gone) /\ shown' = Unready(gone)
      /\ UNCHANGED <<open, written, writes, told, sent, saves, forms>>
  BY <1>3 DEF Pick
<1>5. /\ DOMAIN picked' = open /\ \A y \in gone : picked'[y] \in Topic
      /\ \A y \in open \ gone : picked'[y] = picked[y]
  BY <1>2, <1>3
<1>6. CASE x = Nothing
  <2>1. PICK keep \in SUBSET loads : keep = {l \in loads : l.section # s}
    OBVIOUS
  <2>2. loads' = keep \cup Asked({}, picked')
    BY <1>6, <2>1 DEF Pick, Asked
  <2> QED BY <1>1, <1>3, <1>4, <1>5, <2>1, <2>2, StartOverQuietly
<1>7. CASE x # Nothing
  <2>1. loads' = loads \cup Asked(gone, picked')
    BY <1>3, <1>7 DEF Pick
  <2> QED BY <1>1, <1>3, <1>4, <1>5, <2>1, StartOverQuietly
<1> QED BY <1>6, <1>7

LEMMA PollKeeps ==
  ASSUME DeskInv, Poll
  PROVE  DeskInv'
<1>1. PICK gone \in SUBSET open : gone = {"live"}
  BY DEF Poll
<1>2. /\ turn' = Turned(gone) /\ shown' = Unready(gone) /\ loads' = loads \cup Asked(gone, picked')
      /\ UNCHANGED <<open, written, writes, told, sent, saves, forms, picked>>
  BY <1>1 DEF Poll, Asked
<1>3. DOMAIN picked = open /\ \A s \in open : picked[s] \in Topic
  BY DEF DeskInv, DeskTypes
<1> QED BY <1>1, <1>2, <1>3, StartOverQuietly

(* v: what is being answered, or the notice of a new worker that is dismissed. *)
LEMMA ReloadKeeps ==
  ASSUME DeskInv, NEW v, v.form \in FormsOf(open), v.form # "operational", v.at \in Nat,
         Written(v.form, v.at), Reload(v)
  PROVE  DeskInv'
<1>1. DeskTypes /\ WritesMade /\ ReadOnce
  BY DEF DeskInv
<1>2. PICK asked \in SUBSET open : asked = Versioned \cap open
  OBVIOUS
<1>3. PICK gone \in SUBSET open : gone = asked \cup (open \cap {"visits"})
  OBVIOUS
<1>4. /\ loads' = loads \cup Asked(asked, picked') /\ turn' = Turned(gone) /\ shown' = Unready(gone)
      /\ UNCHANGED <<open, written, writes, picked, sent>>
  BY <1>2, <1>3 DEF Reload, Asked
<1>5. "operational" \notin gone /\ asked \in SUBSET gone
  BY <1>2, <1>3 DEF Versioned
<1>6. DOMAIN picked = open /\ \A s \in open : picked[s] \in Topic
  BY <1>1 DEF DeskTypes
<1>7. PICK now, touched : now \in Nat /\ now = v.at /\ touched = Forms[v.form].writes
  OBVIOUS
<1>8. told' = [t \in Table |-> IF t \in touched THEN now ELSE told[t]]
  BY <1>7 DEF Reload, Told
<1>9. told' \in [Table -> Nat] /\ \A t \in Table : told'[t] <= written[t]
  <2>1. \A t \in Table : told[t] \in Nat /\ told[t] <= written[t]
    BY <1>1 DEF DeskTypes, WritesMade
  <2>2. \A t \in Table \cap touched : now <= written[t]
    BY <1>7 DEF Written
  <2> QED BY <1>7, <1>8, <2>1, <2>2
<1>10. \A s \in open \ gone : \A t \in TablesOf(s) : told'[t] = told[t]
  <2> SUFFICES ASSUME NEW s \in open \ gone, NEW t \in TablesOf(s) PROVE told'[t] = told[t]
    OBVIOUS
  <2>1. t \notin touched
    BY <1>1, <1>2, <1>3, <1>7, PageOpen
  <2>2. t \in Table
    BY <1>1, PageOpen, ReadsTables
  <2> QED BY <1>8, <2>1, <2>2
<1>11. DOMAIN forms = FormsOf(open) /\ \A f \in FormsOf(open) : forms[f] \in FormRow
  BY <1>1 DEF DeskTypes
<1>12. PICK blank \in FormRow : blank = Blank /\ blank.notice = 0
  BY BlankForm
<1>13. PICK built : built = Rebuilt(asked)
  OBVIOUS
<1>14. /\ DOMAIN built = FormsOf(open)
       /\ \A f \in FormsOf(open) : built[f] = blank \/ built[f] = forms[f]
  BY <1>11, <1>12, <1>13 DEF Rebuilt
<1>15. forms' = [built EXCEPT ![v.form] = IF v.mine \/ v.form \in Closable THEN blank ELSE @]
  BY <1>2, <1>12, <1>13 DEF Reload
<1>16. /\ DOMAIN forms' = FormsOf(open)
       /\ \A f \in FormsOf(open) : forms'[f] = blank \/ forms'[f] = forms[f]
  BY <1>14, <1>15
<1>17. \A f \in FormsOf(open) : forms'[f] \in FormRow
  BY <1>11, <1>12, <1>16
<1>18. "newWorker" \in FormsOf(open) => Written("newWorker", forms'["newWorker"].notice)
  <2>1. Written("newWorker", 0)
    BY NothingWritten DEF Forms
  <2> QED BY <1>1, <1>12, <1>16, <2>1 DEF WritesMade
<1>19. \A w \in saves' : w \in SaveRow /\ \E u \in saves : w.form = u.form /\ w.phase = u.phase /\ w.at = u.at
  <2>1. ASSUME NEW u, u \in SaveRow, NEW mine \in BOOLEAN, NEW w, w = [u EXCEPT !.mine = mine]
        PROVE  w \in SaveRow /\ w.form = u.form /\ w.phase = u.phase /\ w.at = u.at
    BY <2>1 DEF SaveRow
  <2>2. \A w \in Orphaned(asked) :
          w \in SaveRow /\ \E u \in saves : w.form = u.form /\ w.phase = u.phase /\ w.at = u.at
    <3> SUFFICES ASSUME NEW u \in saves, NEW w,
                        w = [u EXCEPT !.mine = @ /\ ~(u.form \in Inside /\ Forms[u.form].at \in asked)]
                 PROVE  w \in SaveRow /\ w.form = u.form /\ w.phase = u.phase /\ w.at = u.at
      BY DEF Orphaned
    <3>1. PICK mine \in BOOLEAN : mine = (u.mine /\ ~(u.form \in Inside /\ Forms[u.form].at \in asked))
      OBVIOUS
    <3>2. w = [u EXCEPT !.mine = mine] /\ u \in SaveRow
      BY <1>1, <3>1 DEF DeskTypes
    <3> QED BY <2>1, <3>2
  <2>3. PICK orphaned : orphaned = Orphaned(asked)
    OBVIOUS
  <2>4. saves' = {[w EXCEPT !.mine = @ /\ ~(w.form = v.form /\ v.form \in Closable)] :
                    w \in {u \in orphaned : u.id # v.id}}
    BY <1>2, <2>3 DEF Reload
  <2> SUFFICES ASSUME NEW u \in orphaned, NEW w,
                      w = [u EXCEPT !.mine = @ /\ ~(u.form = v.form /\ v.form \in Closable)]
               PROVE  w \in SaveRow /\ w.form = u.form /\ w.phase = u.phase /\ w.at = u.at
    BY <2>2, <2>3, <2>4
  <2>5. PICK mine \in BOOLEAN : mine = (u.mine /\ ~(u.form = v.form /\ v.form \in Closable))
    OBVIOUS
  <2>6. w = [u EXCEPT !.mine = mine] /\ u \in SaveRow
    BY <2>2, <2>3, <2>5
  <2> QED BY <2>1, <2>6
<1>20. \A w \in saves' :
         /\ w.form \in FormsOf(open) /\ (w.phase = "done" => Written(w.form, w.at))
         /\ w.form = "operational" => shown["operational"].status = "ready"
  BY <1>1, <1>19 DEF WritesMade, ReadOnce
<1>21. sent' \in Nat /\ saves' \subseteq SaveRow
  BY <1>1, <1>4, <1>19 DEF DeskTypes
<1> QED BY <1>4, <1>5, <1>6, <1>9, <1>10, <1>16, <1>17, <1>18, <1>20, <1>21, StartOver

LEMMA SavedKeeps ==
  ASSUME DeskInv, NEW v \in saves, Saved(v)
  PROVE  DeskInv'
<1>1. v.form \in FormsOf(open) /\ v.at \in Nat /\ Written(v.form, v.at)
  BY DEF Saved, DeskInv, DeskTypes, WritesMade, SaveRow
<1>2. v.form # "operational" /\ Reload(v)
  BY DEF Saved
<1> QED BY <1>1, <1>2, ReloadKeeps

LEMMA DismissKeeps ==
  ASSUME DeskInv, Dismiss
  PROVE  DeskInv'
<1>1. "newWorker" \in FormsOf(open)
  BY DEF Dismiss, DeskInv, DeskTypes
<1>2. PICK n \in Nat : n = forms["newWorker"].notice
  BY <1>1 DEF DeskInv, DeskTypes, FormRow
<1>3. Written("newWorker", n)
  BY <1>1, <1>2 DEF DeskInv, WritesMade
<1>4. PICK v : v = [id |-> 0, form |-> "newWorker", mine |-> TRUE, at |-> n]
  OBVIOUS
<1>5. v.form = "newWorker" /\ v.at = n
  BY <1>4
<1>6. Reload(v)
  BY <1>2, <1>4 DEF Dismiss
<1> QED BY <1>1, <1>2, <1>3, <1>5, <1>6, ReloadKeeps

LEMMA OperationalSavedKeeps ==
  ASSUME DeskInv, NEW v \in saves, OperationalSaved(v)
  PROVE  DeskInv'
<1>1. DeskTypes /\ WritesMade /\ ReadOnce
  BY DEF DeskInv
<1>2. v.form = "operational" /\ "operational" \in FormsOf(open) /\ v \in SaveRow /\ v.phase = "done"
  BY <1>1 DEF OperationalSaved, WritesMade, DeskTypes
<1>3. "operational" \in open /\ shown["operational"].status = "ready"
  <2>1. Forms["operational"].at = "operational"
    BY DEF Forms, OperationalForm
  <2> QED BY <1>1, <1>2, <2>1, PageOpen DEF ReadOnce
<1>4. \A l \in loads : l.section # "operational"
  BY <1>1, <1>3 DEF ReadOnce
<1>5. PICK now, touched : now \in Nat /\ now = v.at /\ touched = OperationalForm.writes
  BY <1>2 DEF SaveRow
<1>6. touched = Forms["operational"].writes
  BY <1>5 DEF Forms
<1>7. \A t \in Table \cap touched : now <= written[t]
  BY <1>1, <1>2, <1>5, <1>6 DEF WritesMade, Written
<1>8. told' = [t \in Table |-> IF t \in touched THEN now ELSE told[t]]
  BY <1>5 DEF OperationalSaved, Told
<1>9. told' \in [Table -> Nat] /\ \A t \in Table : told'[t] <= written[t]
  <2>1. \A t \in Table : told[t] \in Nat /\ told[t] <= written[t]
    BY <1>1 DEF DeskTypes, WritesMade
  <2> QED BY <1>5, <1>7, <1>8, <2>1
<1>10. \A s \in open \ {"operational"} : \A t \in TablesOf(s) : told'[t] = told[t]
  <2> SUFFICES ASSUME NEW s \in open \ {"operational"}, NEW t \in TablesOf(s) PROVE told'[t] = told[t]
    OBVIOUS
  <2>1. t \notin touched
    BY <1>1, <1>2, <1>6, PageOpen
  <2>2. t \in Table
    BY <1>1, PageOpen, ReadsTables
  <2> QED BY <1>8, <2>1, <2>2
<1>11. PICK was \in ShownRow : was = shown["operational"]
  BY <1>1, <1>3 DEF DeskTypes
<1>12. PICK got : got = [t \in DOMAIN was.got |-> IF t \in touched THEN now ELSE was.got[t]]
  OBVIOUS
<1>13. PICK row : row = [was EXCEPT !.got = got]
  OBVIOUS
<1>14. shown' = [shown EXCEPT !["operational"] = row]
  BY <1>5, <1>11, <1>12, <1>13 DEF OperationalSaved
<1>15. /\ was.status = "ready" /\ was.about = picked["operational"] /\ NoOlder(was.got)
       /\ DOMAIN was.got \subseteq TablesOf("operational")
  BY <1>3, <1>11 DEF DeskInv, ShownFor
<1>16. DOMAIN got = DOMAIN was.got /\ DOMAIN got \subseteq Table
  BY <1>1, <1>3, <1>12, <1>15, PageOpen, ReadsTables
<1>17. got \in Versions
  <2>1. \A t \in DOMAIN was.got : was.got[t] \in Nat
    BY <1>11 DEF ShownRow, Versions
  <2>2. got \in [DOMAIN was.got -> Nat]
    BY <1>5, <1>12, <2>1
  <2> QED BY <1>16, <2>2 DEF Versions
<1>18. row \in ShownRow /\ row.status = "ready" /\ row.about = was.about /\ row.got = got
  BY <1>11, <1>13, <1>15, <1>17 DEF ShownRow
<1>19. \A t \in DOMAIN got : got[t] >= told'[t]
  <2> SUFFICES ASSUME NEW t \in DOMAIN got PROVE got[t] >= told'[t]
    OBVIOUS
  <2>1. CASE t \in touched
    BY <1>5, <1>8, <1>12, <1>16, <2>1
  <2>2. CASE t \notin touched
    BY <1>8, <1>12, <1>15, <1>16, <2>2 DEF NoOlder
  <2> QED BY <2>1, <2>2
<1>20. /\ DOMAIN shown = open /\ \A s \in open : shown[s] \in ShownRow /\ ShownFor(s)
       /\ UNCHANGED <<open, written, writes, turn, picked, loads, sent>>
  BY <1>1 DEF DeskInv, DeskTypes, OperationalSaved
<1>21. /\ DOMAIN shown' = open /\ \A s \in open : shown'[s] \in ShownRow
       /\ shown'["operational"] = row /\ \A s \in open \ {"operational"} : shown'[s] = shown[s]
  BY <1>3, <1>14, <1>18, <1>20
<1>22. \A s \in open' : ShownFor(s)'
  <2> SUFFICES ASSUME NEW s \in open PROVE ShownFor(s)'
    BY <1>20
  <2>1. CASE s = "operational"
    BY <1>15, <1>16, <1>18, <1>19, <1>20, <1>21, <2>1 DEF ShownFor, NoOlder
  <2>2. CASE s # "operational"
    <3>1. shown[s].status = "ready" => \A t \in DOMAIN shown[s].got : told'[t] = told[t]
      BY <1>10, <1>20, <2>2 DEF ShownFor
    <3> QED BY <1>20, <1>21, <2>2, <3>1 DEF ShownFor, NoOlder
  <2> QED BY <2>1, <2>2
<1>23. \A l \in loads' : ReadFor(l)'
  <2> SUFFICES ASSUME NEW l \in loads PROVE ReadFor(l)'
    BY <1>20
  <2>1. ReadFor(l) /\ \A t \in DOMAIN l.got : told'[t] = told[t]
    BY <1>4, <1>10 DEF DeskInv, ReadFor
  <2> QED BY <1>20, <2>1 DEF ReadFor, NoOlder
<1>24. PICK blank \in FormRow : blank = Blank
  BY BlankForm
<1>25. /\ DOMAIN forms' = FormsOf(open) /\ \A f \in FormsOf(open) : forms'[f] \in FormRow
       /\ \A f \in FormsOf(open) \ {"operational"} : forms'[f] = forms[f]
  <2>1. forms' = [forms EXCEPT !["operational"] = blank]
    BY <1>24 DEF OperationalSaved
  <2>2. DOMAIN forms = FormsOf(open) /\ \A f \in FormsOf(open) : forms[f] \in FormRow
    BY <1>1 DEF DeskTypes
  <2> QED BY <1>24, <2>1, <2>2
<1>26. saves' \subseteq saves
  BY DEF OperationalSaved
<1>27. DeskTypes'
  BY <1>1, <1>9, <1>20, <1>21, <1>25, <1>26 DEF DeskTypes
<1>28. WritesMade'
  BY <1>1, <1>9, <1>20, <1>25, <1>26 DEF WritesMade, Written
<1>29. ReadOnce'
  BY <1>1, <1>4, <1>18, <1>20, <1>21, <1>26 DEF ReadOnce
<1> QED BY <1>22, <1>23, <1>27, <1>28, <1>29 DEF DeskInv

LEMMA SignedOutKeeps ==
  ASSUME DeskInv, NEW v \in saves, SignedOut(v)
  PROVE  DeskInv'
<1>1. DeskTypes /\ WritesMade
  BY DEF DeskInv
<1>2. open' = {} /\ loads' = {} /\ saves' = {} /\ UNCHANGED <<written, writes, sent, lost, told>>
  BY DEF SignedOut
<1>3. DOMAIN turn' = {} /\ DOMAIN picked' = {} /\ DOMAIN shown' = {} /\ DOMAIN forms' = {}
  BY NothingRead DEF SignedOut
<1>4. FormsOf(open') = {}
  BY <1>2 DEF FormsOf
<1>5. DeskTypes'
  BY <1>1, <1>2, <1>3, <1>4 DEF DeskTypes
<1>6. WritesMade'
  BY <1>1, <1>2, <1>4 DEF WritesMade
<1>7. ReadOnce'
  BY <1>2 DEF ReadOnce
<1> QED BY <1>2, <1>5, <1>6, <1>7 DEF DeskInv

LEMMA DeskBegins ==
  ASSUME DeskInit
  PROVE  DeskInv
<1>1. open \in Opened /\ open \subseteq DOMAIN Queries
  BY PageAssumption DEF DeskInit
<1>2. PICK loading \in ShownRow : loading = Loading /\ loading.status = "loading"
  BY LoadingTyped
<1>3. /\ turn = [s \in open |-> 1] /\ picked = [s \in open |-> Nothing] /\ shown = [s \in open |-> loading]
      /\ written = [t \in Table |-> 0] /\ told = written /\ writes = 0 /\ saves = {} /\ sent = 0
  BY <1>2 DEF DeskInit
<1>4. PICK blank \in FormRow : blank = Blank /\ blank.notice = 0
  BY BlankForm
<1>5. forms = [f \in FormsOf(open) |-> blank]
  BY <1>4 DEF DeskInit
<1>6. \A l \in loads : /\ l \in ReadRow /\ l.section \in open /\ l.turn = 1 /\ l.about = Nothing
                       /\ DOMAIN l.got = {} /\ l = Request(l.section, 1, Nothing)
  <2> SUFFICES ASSUME NEW s \in open, NEW l, l = Request(s, 1, Nothing)
               PROVE  /\ l \in ReadRow /\ l.section \in open /\ l.turn = 1 /\ l.about = Nothing
                      /\ DOMAIN l.got = {} /\ l = Request(l.section, 1, Nothing)
    BY DEF DeskInit, AskedAtFirst
  <2> QED BY <1>1, NothingRead DEF Request, ReadRow, Topic
<1>7. DeskTypes
  <2>1. \A s \in open : turn[s] \in Nat /\ picked[s] \in Topic /\ shown[s] \in ShownRow
    BY <1>3 DEF Topic
  <2>2. \A f \in FormsOf(open) : forms[f] \in FormRow
    BY <1>4, <1>5
  <2>3. loads \subseteq ReadRow
    BY <1>6
  <2> QED BY <1>1, <1>3, <1>5, <2>1, <2>2, <2>3 DEF DeskTypes
<1>8. WritesMade
  BY <1>3, <1>4, <1>5 DEF WritesMade, Written
<1>9. \A l \in loads : ReadFor(l)
  BY <1>3, <1>6 DEF ReadFor, NoOlder
<1>10. \A s \in open : ShownFor(s)
  BY <1>2, <1>3 DEF ShownFor
<1>11. ReadOnce
  BY <1>2, <1>3, <1>6 DEF ReadOnce
<1> QED BY <1>7, <1>8, <1>9, <1>10, <1>11 DEF DeskInv

LEMMA DeskKeeps == DeskInv /\ [DeskNext]_deskVars => DeskInv'
<1> SUFFICES ASSUME DeskInv, [DeskNext]_deskVars PROVE DeskInv'
  OBVIOUS
<1>1. CASE UNCHANGED deskVars
  BY <1>1 DEF deskVars, DeskInv, DeskTypes, WritesMade, Written, ReadFor, ShownFor, ReadOnce, NoOlder
<1>2. CASE \E l \in loads : Query(l) \/ Answered(l) \/ LoadFails(l)
  BY <1>2, Queried, AnsweredKeeps, LoadFailsKeeps
<1>3. CASE \E s \in About, x \in Subject \cup {Nothing} : Pick(s, x)
  BY <1>3, PickKeeps DEF Topic
<1>4. CASE Poll
  BY <1>4, PollKeeps
<1>5. CASE \E f \in DOMAIN forms : Submit(f)
  BY <1>5, SubmitKeeps
<1>6. CASE \E v \in saves :
             \/ Apply(v) \/ SaveFails(v) \/ Saved(v) \/ OperationalSaved(v) \/ WorkerCreated(v)
             \/ SignedOut(v)
  BY <1>6, ApplyKeeps, SaveFailsKeeps, SavedKeeps, OperationalSavedKeeps, WorkerCreatedKeeps,
     SignedOutKeeps
<1>7. CASE \E l \in loads : Unanswered(l) /\ Elsewhere(Queries[l.section][l.asked])
  BY <1>7, ElsewhereKeeps
<1>8. CASE Dismiss
  BY <1>8, DismissKeeps
<1>9. CASE \E f \in Closable : CloseForm(f)
  BY <1>9, CloseFormKeeps
<1> QED BY <1>1, <1>2, <1>3, <1>4, <1>5, <1>6, <1>7, <1>8, <1>9 DEF DeskNext

(* What a section of the open page shows as ready is about what is picked and no older     *)
(* than the last save the page was told of, however reads, polls, picks and saves overlap.   *)
THEOREM NoSlowAnswerWins == DeskSpec => []ShownIsCurrent
<1>1. DeskInit => DeskInv
  BY DeskBegins
<1>2. DeskInv /\ [DeskNext]_deskVars => DeskInv'
  BY DeskKeeps
<1>3. DeskInv => ShownIsCurrent
  BY DEF DeskInv, ShownFor, NoOlder, ShownIsCurrent
<1> QED BY <1>1, <1>2, <1>3, PTL DEF DeskSpec
=============================================================================
