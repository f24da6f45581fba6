------------------------------- MODULE TrackLog -------------------------------
(***************************************************************************)
(* What ingestion derives from the points of one open WORK session: the       *)
(* day's distance, the overlay of a trip, the geofence visits and the log of    *)
(* crossings and speeding stretches.  Batches arrive late, out of order and      *)
(* more than once, and everything is recomputed from the stored points: the      *)
(* properties say what the office reads whatever the grouping and the order of   *)
(* the uploads.  The log is only added to, so it may hold more than the points    *)
(* now on record would log: see OneEventPerStretch.                            *)
(*                                                                         *)
(* Abstractions.  A request is one step; requests that race, the admission of   *)
(* a point and the sampling floor are TrackingSessions.  The session starts at 0  *)
(* and the fences stay as they are.  A command is dated by the device, so the      *)
(* server's clock decides nothing here and is left out.                         *)
(***************************************************************************)
EXTENDS RouteAnalysis, Bags

CONSTANTS
  Fence,          \* centres of the organization's active geofences
  Readings,       \* what a fix may read
  TripTimes,      \* when a trip may start and end
  MaxPoints,      \* points ever stored
  MaxBatch        \* points in an upload

ASSUME TrackLogAssumption ==
  /\ Fence \subseteq Int /\ Fence # {}
  /\ Readings \subseteq [pos: Int, speed: Nat \cup {Null}, accuracy: Nat]
  /\ TripTimes \subseteq Time /\ MaxPoints \in Nat /\ MaxBatch \in Nat

VARIABLES
  track,      \* the session's location_points
  tagged,     \* the instants of those that carry the trip
  visits,     \* the session's geofence_visits
  log,        \* its tracking_events: how often each was recorded
  trip        \* the worker's driver_trip

vars == <<track, tagged, visits, log, trip>>

TripRuns == trip.start # Null /\ trip.end = Null

Init ==
  /\ track = [t \in {} |-> Null] /\ tagged = {}
  /\ visits = {} /\ log = EmptyBag
  /\ trip = [start |-> Null, end |-> Null]

Event(type, fence, at) == [type |-> type, fence |-> fence, at |-> at]
Logged(e) == BagIn(e, log)
---------------------------------------------------------------------------
(* syncVisits: rows are created, updated, and deleted when no longer supported.   *)
SameVisit(v, w) == v.fence = w.fence /\ v.in = w.in
Entered(computed) == {v \in computed : ~\E w \in visits : SameVisit(v, w)}
NewlyClosed(computed) ==
  {v \in computed : v.out # Null /\ \E w \in visits : SameVisit(v, w) /\ w.out = Null}
Orphans(computed) == {w \in visits : ~\E v \in computed : SameVisit(v, w)}
Remaining(computed) == {v \in computed : \E w \in visits : SameVisit(v, w)}

MutKeepOrphans(computed) ==
  visits' = Entered(computed) \cup Remaining(computed) \cup Orphans(computed)

SyncVisits(computed) == visits' = Entered(computed) \cup Remaining(computed)

MutLogEntriesOnly(computed) == {Event("GEOFENCE_ENTER", v.fence, v.in) : v \in Entered(computed)}

(* deriveGeofenceVisits                                                       *)
Crossings(computed) ==
  {Event("GEOFENCE_ENTER", v.fence, v.in) : v \in Entered(computed)} \cup
  {Event("GEOFENCE_EXIT", v.fence, v.out) :
     v \in NewlyClosed(computed) \cup {w \in Entered(computed) : w.out # Null}}

MutLogEveryTime(alerts) == {Event("SPEED_EXCEEDED", Null, a.from) : a \in alerts}

(* deriveSpeedAlerts                                                         *)
NewAlerts(alerts) ==
  {e \in {Event("SPEED_EXCEEDED", Null, a.from) : a \in alerts} : ~Logged(e)}

(* tripForTimestamp of the trip openTripForSession finds                        *)
Overlay(instants) == IF TripRuns THEN {t \in instants : t >= trip.start} ELSE {}

(* appendMany skips an instant the session already holds.                       *)
Appended(batch) ==
  [t \in DOMAIN track \cup DOMAIN batch |-> IF t \in DOMAIN track THEN track[t] ELSE batch[t]]

Ingest(batch) ==
  LET all == Appended(batch)
      computed == DetectVisits(all, Fence)
      carried == tagged \cup Overlay(DOMAIN batch \ DOMAIN track)
  IN
  /\ \A t \in DOMAIN batch \cap DOMAIN track : batch[t] = track[t]   \* sent again
  /\ Cardinality(DOMAIN all) <= MaxPoints
  /\ track' = all
  /\ tagged' = carried
  /\ SyncVisits(computed)
  /\ log' = log (+) SetToBag(Crossings(computed)) (+) SetToBag(NewAlerts(DetectAlerts(all)))
  /\ UNCHANGED trip

(* An upload is a stretch of the device's queue.                                 *)
Batches ==
  UNION {[d[1]..d[2] -> Readings] : d \in
           {d \in Time \X Time : d[1] <= d[2] /\ d[2] - d[1] < MaxBatch}}
---------------------------------------------------------------------------
StartTrip(at) ==
  /\ trip.start = Null
  /\ trip' = [trip EXCEPT !.start = at]
  /\ UNCHANGED <<track, tagged, visits, log>>

(* endTrip, dated by the device.                                               *)
EndTrip(at) ==
  /\ TripRuns
  /\ trip.start <= at
  /\ trip' = [trip EXCEPT !.end = at]
  /\ UNCHANGED <<track, tagged, visits, log>>

Next ==
  \/ \E batch \in Batches : Ingest(batch)
  \/ \E at \in TripTimes : StartTrip(at) \/ EndTrip(at)

Spec == Init /\ [][Next]_vars
---------------------------------------------------------------------------
(* Properties.                                                               *)

Within(f) == {t \in Usable(track) : Dist(track[t].pos, f) <= FenceRadius}
Beyond(f) == {t \in Usable(track) : Dist(track[t].pos, f) > FenceRadius + Hysteresis}

(* The points of P from which a run long enough to be believed starts, all in P.      *)
Sustained(P) ==
  LET S == Usable(track) IN
  {t \in P : \E c \in S : c - t >= Debounce /\ \A u \in S : t <= u /\ u <= c => u \in P}

(* The visit rows of the session are those its points support, whatever batches  *)
(* brought them: a visit begins and ends with a sustained crossing, no sustained  *)
(* departure is missed inside it, every sustained presence lies in a visit, and    *)
(* a row the points stopped supporting is gone.                                *)
VisitsSupported ==
  \A f \in Fence :
    LET rows == {v \in visits : v.fence = f}
        stays == Sustained(Within(f))
        departures == Sustained(Beyond(f))
        During(v, t) == v.in <= t /\ (v.out = Null \/ t < v.out)
    IN
    /\ \A v \in rows :
         /\ v.in \in stays
         /\ v.out # Null => v.out \in departures
         /\ \A t \in departures : ~During(v, t)
    /\ \A t \in stays : \E v \in rows : During(v, t)

(* Every visit on record has had its arrival logged at its entry, and every one    *)
(* that ended a departure after it, although a batch logs only the difference it    *)
(* makes and may bring a visit already closed, reopen or remove one.              *)
CrossingsLogged ==
  \A v \in visits :
    /\ Logged(Event("GEOFENCE_ENTER", v.fence, v.in))
    /\ v.out # Null => \E e \in BagToSet(log) :
         e.type = "GEOFENCE_EXIT" /\ e.fence = v.fence /\ e.at > v.in

(* The start of every stretch the points now show has its event, however late its     *)
(* points came, and is logged once however often it is recomputed; two stretches     *)
(* are a cooldown apart.                                                         *)
AlertsLogged ==
  LET alerts == DetectAlerts(track) IN
  /\ \A a \in alerts : Logged(Event("SPEED_EXCEEDED", Null, a.from))
  /\ \A e \in BagToSet(log) : e.type = "SPEED_EXCEEDED" => log[e] = 1
  /\ \A a, b \in alerts :
       /\ a.to - a.from >= MinSustained
       /\ a.from < b.from => b.from - a.to >= Cooldown

(* A fix good enough to judge a speed by shows one over the limit: its own reading,     *)
(* or how far it lies from some earlier fix.                                       *)
Speeding(points, t) ==
  /\ t \in DOMAIN points /\ points[t].accuracy <= SpeedAccuracy
  /\ \E u \in {Null} \cup {x \in DOMAIN points : x < t} :
       KnowsSpeed(points, t, u) /\ Exceeds(points, t, u)

(* The log tells of nothing no fix shows: also an event of a visit that is gone, or of   *)
(* a start that later points moved, is dated at a stored fix inside the fence,        *)
(* outside it, or over the limit.                                                *)
EventsGrounded ==
  \A e \in BagToSet(log) :
    \/ e.type = "GEOFENCE_ENTER" /\ e.at \in Within(e.fence)
    \/ e.type = "GEOFENCE_EXIT" /\ e.at \in Beyond(e.fence)
    \/ e.type = "SPEED_EXCEEDED" /\ Speeding(track, e.at)

(* What the office reads of a session, in whatever order and batches the phone delivered *)
(* its points: the visits are those the points support, nothing the points show is     *)
(* missing from the log, and what the log holds beyond that was once seen by a fix.     *)
LogHonest == VisitsSupported /\ CrossingsLogged /\ AlertsLogged /\ EventsGrounded

(* A stretch of speeding has one event, as the repository says (tracking-state.ts:40,  *)
(* tracking-commands.ts:595).  Not so: the event is looked up by its start, and a late   *)
(* batch that moves the start gives the stretch a second.                          *)
OneEventPerStretch ==
  \A a \in DetectAlerts(track) : \A d, e \in BagToSet(log) :
    /\ d.type = "SPEED_EXCEEDED" /\ e.type = "SPEED_EXCEEDED"
    /\ {d.at, e.at} \subseteq a.from..a.to
    => d = e

(* The line is not drawn across a gap the list beside the map reports.  Not so:     *)
(* a silence is a gap from Stale on, and breaks the line only beyond MaxGap.       *)
GapsNeverDrawn ==
  \A gap \in Gaps(DOMAIN track, 0, MaxTime) : \A s \in Drawn(track) :
    ~(s[1] <= gap[1] /\ gap[2] <= s[2])

(* Whenever a batch arrives, what it brings of the time of a trip is the trip's.  Not  *)
(* so: a batch that comes after the trip has ended is tagged with none.               *)
BatchSplits ==
  [][trip.end # Null =>
       \A t \in DOMAIN track' \ DOMAIN track :
         trip.start <= t /\ t < trip.end => t \in tagged']_vars

(* The line shown and the distance printed beside it agree: what is drawn beyond  *)
(* jitter is travelled, nothing is drawn faster than a vehicle can go, and a stop   *)
(* is a stretch without silence whose points all lie near its first.             *)
RouteHonest ==
  LET S == Usable(track)
      steps == Steps(S)
      travelled == Travelled(track)
      drawn == Drawn(track)
  IN
  /\ travelled \subseteq drawn
  /\ S # {} => Distance(track) <= MaxSpeed * (Max(S) - Min(S))
  /\ \A s \in drawn :
       /\ Span(s) <= MaxGap /\ Length(track, s) <= MaxSpeed * Span(s)
       /\ s \notin travelled => Length(track, s) < MinSegment
  /\ \A x \in Stops(track) :
       /\ \A t \in S \cap (x.from..x.to) : Dist(track[t].pos, track[x.from].pos) <= StopRadius
       /\ \A s \in steps : x.from <= s[1] /\ s[2] <= x.to => ~Silent(s)
=============================================================================
