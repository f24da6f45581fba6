---------------------------- MODULE RouteAnalysis ----------------------------
(***************************************************************************)
(* packages/tracking: what a set of stored points says about a journey.      *)
(*                                                                         *)
(* A track is a function from the instants at which its points were taken,     *)
(* one point for an instant (location_points' unique index), so sorting a     *)
(* list is the order of its domain.                                          *)
(*                                                                         *)
(* Abstractions.  Positions lie on a line, and the great-circle distance is    *)
(* the distance on it; a fence is named by its centre.  An accuracy is a       *)
(* number, the larger the vaguer.  The centre of a stop and the peak of a      *)
(* speeding stretch decide nothing and are left out.                         *)
(***************************************************************************)
EXTENDS Integers, FiniteSets, FiniteSetsExt

CONSTANTS
  MaxTime,                          \* instants are 0..MaxTime
  MaxAccuracy, SpeedAccuracy,       \* the vaguest point used, for a speed
  MaxSpeed, MinSegment, MaxGap,     \* DEFAULT_DISTANCE_OPTIONS
  StopRadius, MinStop,              \* DEFAULT_STOP_OPTIONS, MIN_STOP_SECONDS
  Stale,                            \* DEFAULT_THRESHOLDS
  FenceRadius, Hysteresis, Debounce,  \* a fence and DEFAULT_GEOFENCE_OPTIONS
  Limit, MinSustained, Cooldown     \* DEFAULT_SPEED_ALERT_OPTIONS

(* By default a crossing has to last 90 s, and what counts as jitter is 10 m, less than *)
(* the 60 m a vehicle may cover between two instants.                             *)
ASSUME RouteAssumption ==
  /\ {MaxTime, MaxAccuracy, SpeedAccuracy, MaxSpeed, MinSegment, MaxGap, StopRadius, MinStop,
      Stale, FenceRadius, Hysteresis, Debounce, Limit, MinSustained, Cooldown} \subseteq Nat
  /\ Debounce > 0 /\ MinSegment <= MaxSpeed

Null == -1
Time == 0..MaxTime
---------------------------------------------------------------------------
(* Helpers.                                                                  *)

Dist(p, q) == IF p > q THEN p - q ELSE q - p

(* Neighbours in a set of instants.                                           *)
Steps(S) == {s \in S \X S : s[1] < s[2] /\ \A u \in S : u <= s[1] \/ u >= s[2]}
Span(step) == step[2] - step[1]
Length(track, step) == Dist(track[step[1]].pos, track[step[2]].pos)

MutKeepVague(track) == DOMAIN track

(* usableTrackPoints                                                         *)
Usable(track) == {t \in DOMAIN track : track[t].accuracy <= MaxAccuracy}
---------------------------------------------------------------------------
(* computeTrackDistance: a step is silent, a jitter, a teleport or travelled.  *)

Silent(step) == Span(step) > MaxGap
Moves(track, step) == ~Silent(step) /\ Length(track, step) >= MinSegment
Teleports(track, step) == Moves(track, step) /\ Length(track, step) > MaxSpeed * Span(step)
Travelled(track) ==
  {s \in Steps(Usable(track)) : Moves(track, s) /\ ~Teleports(track, s)}

Distance(track) == MapThenSumSet(LAMBDA s : Length(track, s), Travelled(track))

MutDrawTeleports(track) == {s[1] : s \in {x \in Steps(Usable(track)) : Silent(x)}}

(* reconstruct: the line is drawn through the usable points, broken after these. *)
BreakAfter(track) ==
  {s[1] : s \in {x \in Steps(Usable(track)) : Silent(x) \/ Teleports(track, x)}}
Drawn(track) == {s \in Steps(Usable(track)) : s[1] \notin BreakAfter(track)}

(* detectStops: every point belongs to the cluster of an anchor, its first.     *)
Anchor(track) ==
  LET S == Usable(track)
      of[t \in S] ==
        IF t = Min(S) THEN t
        ELSE LET p == Max({u \in S : u < t})
                 a == of[p]
             IN IF Dist(track[a].pos, track[t].pos) > StopRadius \/ t - p > MaxGap
                  THEN t ELSE a
  IN of

MutRollingAnchor(track) ==
  LET S == Usable(track)
      of[t \in S] ==
        IF t = Min(S) THEN t
        ELSE LET p == Max({u \in S : u < t})
             IN IF Dist(track[p].pos, track[t].pos) > StopRadius \/ t - p > MaxGap
                  THEN t ELSE of[p]
  IN {x \in {[from |-> a, to |-> Max({t \in S : of[t] = a})] : a \in {of[t] : t \in S}} :
        x.to > x.from /\ x.to - x.from >= MinStop}

Stops(track) ==
  LET of == Anchor(track)
      stop(a) == [from |-> a, to |-> Max({t \in DOMAIN of : of[t] = a})]
  IN {x \in {stop(a) : a \in {of[t] : t \in DOMAIN of}} :
        x.to > x.from /\ x.to - x.from >= MinStop}

(* findTrackingGaps of an interval without pauses.                             *)
Gaps(instants, start, end) ==
  LET steps == IF instants = {} THEN {<<start, end>>}
               ELSE {<<start, Min(instants)>>, <<Max(instants), end>>} \cup Steps(instants)
  IN {s \in steps : Span(s) >= Stale}

---------------------------------------------------------------------------
(* visitsForFence.  A belief holds until a crossing has been observed for       *)
(* Debounce; `pending` is the point that first contradicted it.                *)

Unvisited == [inside |-> FALSE, pending |-> Null, opened |-> Null, visits |-> {}]

Observed(track, t, fence, inside) ==
  Dist(track[t].pos, fence) <= FenceRadius + (IF inside THEN Hysteresis ELSE 0)

Confirm(belief) ==
  IF belief.inside
    THEN [Unvisited EXCEPT !.visits =
            belief.visits \cup {[in |-> belief.opened, out |-> belief.pending]}]
    ELSE [belief EXCEPT !.inside = TRUE, !.opened = belief.pending, !.pending = Null]

MutPendingSurvives(track, fence, belief, t) ==
  IF t \notin Usable(track) \/ Observed(track, t, fence, belief.inside) = belief.inside
    THEN belief
  ELSE IF belief.pending = Null THEN [belief EXCEPT !.pending = t]
  ELSE IF t - belief.pending < Debounce THEN belief
  ELSE Confirm(belief)

Revise(track, fence, belief, t) ==
  IF t \notin Usable(track) THEN belief
  ELSE IF Observed(track, t, fence, belief.inside) = belief.inside
    THEN [belief EXCEPT !.pending = Null]
  ELSE IF belief.pending = Null THEN [belief EXCEPT !.pending = t]
  ELSE IF t - belief.pending < Debounce THEN belief
  ELSE Confirm(belief)

VisitsForFence(track, fence) ==
  LET after[t \in -1..MaxTime] ==
        IF t = -1 THEN Unvisited ELSE Revise(track, fence, after[t - 1], t)
      last == after[MaxTime]
  IN last.visits \cup
       (IF last.inside THEN {[in |-> last.opened, out |-> Null]} ELSE {})

(* detectGeofenceVisits                                                      *)
DetectVisits(track, fences) ==
  UNION {{[fence |-> f, in |-> v.in, out |-> v.out] : v \in VisitsForFence(track, f)} :
           f \in fences}
---------------------------------------------------------------------------
(* detectSpeedAlerts                                                         *)

Unalerted == [from |-> Null, to |-> Null, previous |-> Null, ended |-> Null, alerts |-> {}]

(* speedKphAt: what the receiver measured, or the distance from the last point.  *)
KnowsSpeed(track, t, previous) == track[t].speed # Null \/ previous # Null
Exceeds(track, t, previous) ==
  IF track[t].speed # Null THEN track[t].speed > Limit
  ELSE Dist(track[previous].pos, track[t].pos) > Limit * (t - previous)

MutNoCooldown(w) ==
  IF w.from # Null /\ w.to - w.from >= MinSustained
    THEN [w EXCEPT !.alerts = @ \cup {[from |-> w.from, to |-> w.to]},
                   !.ended = w.to, !.from = Null, !.to = Null]
    ELSE [w EXCEPT !.from = Null, !.to = Null]

Flush(w) ==
  IF /\ w.from # Null /\ w.to - w.from >= MinSustained
     /\ w.ended = Null \/ w.from - w.ended >= Cooldown
    THEN [w EXCEPT !.alerts = @ \cup {[from |-> w.from, to |-> w.to]},
                   !.ended = w.to, !.from = Null, !.to = Null]
    ELSE [w EXCEPT !.from = Null, !.to = Null]

Watch(track, w, t) ==
  LET seen == [w EXCEPT !.previous = t] IN
  IF t \notin DOMAIN track \/ track[t].accuracy > SpeedAccuracy THEN w
  ELSE IF ~KnowsSpeed(track, t, w.previous) THEN seen
  ELSE IF ~Exceeds(track, t, w.previous) THEN Flush(seen)
  ELSE [seen EXCEPT !.from = IF w.from = Null THEN t ELSE @, !.to = t]

DetectAlerts(track) ==
  LET after[t \in -1..MaxTime] ==
        IF t = -1 THEN Unalerted ELSE Watch(track, after[t - 1], t)
  IN Flush(after[MaxTime]).alerts
=============================================================================
