-------------------------- MODULE TrackingSessions --------------------------
(***************************************************************************)
(* The server's side of location tracking for one worker: the WORK session   *)
(* that opens and closes with a shift, and the ingestion of the batches a    *)
(* device uploads meanwhile.                                                 *)
(*                                                                         *)
(* A request is several statements of a READ COMMITTED transaction: what it   *)
(* reads is committed by then, the rows it inserts are seen by others when it *)
(* commits, and an insert of a key another transaction has inserted waits for *)
(* that transaction.  Reads whose separation changes no outcome are merged.   *)
(*                                                                         *)
(* Abstractions.  The distance, the gaps, the geofence visits and the speed   *)
(* alerts of a session are functions of the points they are computed from:    *)
(* `measured` is that set.  Trips, which tag points and may own a session,    *)
(* tracking events and device telemetry are left out.                        *)
(***************************************************************************)
EXTENDS Integers, FiniteSets

CONSTANTS
  Request,          \* requests the server handles at once
  MaxCollectors,    \* collectors that ever take a fix
  MaxSessions,      \* tracking sessions ever opened
  MaxTime,          \* bound on the clock
  Skew,             \* how far a device's clock may run ahead
  Tolerance,        \* CLOCK_SKEW_TOLERANCE_SECONDS
  MinInterval,      \* the organization's sampling floor
  MaxBacklog,       \* how far back a shift's start or end may be dated
  Unfit             \* instants whose fix the request schema refuses

ASSUME TrackingAssumption ==
  /\ MaxCollectors \in Nat /\ MaxSessions \in Nat /\ MaxTime \in Nat
  /\ Skew \in Nat /\ Tolerance \in Nat /\ MaxBacklog \in Nat
  /\ MinInterval \in Nat \ {0}

Null == -1
Time == 0..MaxTime
Stamp == 0..(MaxTime + Skew)
Collector == 1..MaxCollectors
SessionId == 1..MaxSessions

(* A queued point is named by the collector that took it and the device's time *)
(* of the fix; a stored row holds the time it was admitted at.                 *)
Point == [by: Collector, at: Stamp]
Row == [point: Point, at: Time]
SessionRow == [start: Time \cup {Null}, end: Time \cup {Null}]
NotOpened == [start |-> Null, end |-> Null]

VARIABLES
  tsession,   \* tracking_sessions
  stored,     \* location_points, by session
  measured,   \* the points a session's totals were computed from
  req,        \* requests being served
  now         \* the server's clock

serverVars == <<tsession, stored, measured, req, now>>
tables == <<tsession, stored, measured>>

RequestState ==
  [phase: {"idle", "arrived", "admitted", "appended", "closing", "done", "failed"},
   batch: SUBSET Point, session: SessionId \cup {0},
   rows: SUBSET Row,      \* rows to insert, then the rows inserted
   listed: SUBSET Row,    \* listForSession
   at: Time]              \* when a close is dated
Idle == [phase |-> "idle", batch |-> {}, session |-> 0, rows |-> {}, listed |-> {},
         at |-> 0]

ServerTypeOK ==
  /\ tsession \in [SessionId -> SessionRow]
  /\ stored \in [SessionId -> SUBSET Row]
  /\ measured \in [SessionId -> SUBSET Row]
  /\ req \in [Request -> RequestState]
  /\ now \in Time

ServerInit ==
  /\ tsession = [s \in SessionId |-> NotOpened]
  /\ stored = [s \in SessionId |-> {}]
  /\ measured = [s \in SessionId |-> {}]
  /\ req = [r \in Request |-> Idle]
  /\ now = 0
---------------------------------------------------------------------------
(* Helpers.                                                                  *)

IsOpen(s) == tsession[s].start # Null /\ tsession[s].end = Null
OpenSessions == {s \in SessionId : IsOpen(s)}

(* resolveOccurredAt of a shift command                                       *)
OccurredAt == {t \in Time : t <= now /\ t >= now - MaxBacklog}

Goto(r, q) == req' = [req EXCEPT ![r] = q]
Remember(r, q) == Goto(r, q) /\ UNCHANGED <<tables, now>>

(* Queue order: a collector's seq starts at the time it was created.           *)
Older(p, q) == p.by < q.by \/ (p.by = q.by /\ p.at < q.at)

(* admitPoints of the module: the window of the session, and the clamp.        *)
InWindow(p, start) == p.at >= start - Tolerance /\ p.at <= now + Tolerance

Clamp(t, start) == IF t < start THEN start ELSE IF t > now THEN now ELSE t

Admitted(batch, start) ==
  {[point |-> p, at |-> Clamp(p.at, start)] : p \in {q \in batch : InWindow(q, start)}}

(* admitPoints of packages/tracking, the sampling floor: in order of time, a    *)
(* row is kept when MinInterval has passed since the last one kept.            *)
Thin(rows, from) ==
  LET kept[t \in -1..MaxTime] ==       \* the last instant kept up to t
        IF t = -1 THEN from
        ELSE IF (\E x \in rows : x.at = t)
                /\ (kept[t - 1] = Null \/ t - kept[t - 1] >= MinInterval) THEN t
        ELSE kept[t - 1]
  IN {x \in rows :
        /\ kept[x.at] = x.at /\ kept[x.at - 1] # x.at
        /\ \A y \in rows : y.at = x.at => ~Older(y.point, x.point)}

LastPointAt(rows) ==
  IF rows = {} THEN Null
  ELSE CHOOSE t \in {x.at : x \in rows} : \A y \in rows : y.at <= t

(* Points newer than the last one stored are live, the others a replay.        *)
AboveFloor(rows, last) ==
  LET live == {x \in rows : last = Null \/ x.at > last}
  IN Thin(live, last) \cup Thin(rows \ live, Null)
---------------------------------------------------------------------------
(* The session of a shift.  That no other is open is read first and decided by *)
(* tracking_sessions_one_open_work_per_worker.                                *)

OpenSession(at) ==
  /\ at \in OccurredAt
  /\ OpenSessions = {}
  /\ \E s \in SessionId :
       /\ \A o \in SessionId : tsession[o] = NotOpened <=> o >= s
       /\ tsession' = [tsession EXCEPT ![s].start = at]
  /\ UNCHANGED <<stored, measured, req, now>>

(* closeSessionForShift and closeSession up to its write                       *)
CloseRead(r, at) ==
  /\ req[r] = Idle
  /\ at \in OccurredAt
  /\ \E s \in OpenSessions :
       /\ at >= tsession[s].start
       /\ Remember(r, [Idle EXCEPT !.phase = "closing", !.session = s, !.at = at,
                                   !.listed = stored[s]])

MutCloseTwice(r) ==
  LET q == req[r] IN
  /\ q.phase = "closing"
  /\ tsession' = [tsession EXCEPT ![q.session].end = q.at]
  /\ measured' = [measured EXCEPT ![q.session] = q.listed]
  /\ Goto(r, Idle)
  /\ UNCHANGED <<stored, now>>

(* sessions.close filters on endedAt IS NULL; a second close writes nothing.   *)
CloseWrite(r) ==
  LET q == req[r] IN
  /\ q.phase = "closing"
  /\ IF IsOpen(q.session)
       THEN /\ tsession' = [tsession EXCEPT ![q.session].end = q.at]
            /\ measured' = [measured EXCEPT ![q.session] = q.listed]
       ELSE UNCHANGED <<tsession, measured>>
  /\ Goto(r, Idle)
  /\ UNCHANGED <<stored, now>>
---------------------------------------------------------------------------
(* Ingestion.                                                                *)

Receive(r, batch) ==
  /\ req[r] = Idle
  /\ batch # {}
  /\ \A p \in batch : p.at <= now + Skew
  /\ Remember(r, [Idle EXCEPT !.phase = "arrived", !.batch = batch])

(* The schema, resolveSession and ingest up to the sampling floor.             *)
Admit(r) ==
  LET q == req[r] IN
  /\ q.phase = "arrived"
  /\ \A p \in q.batch : p.at \notin Unfit
  /\ \E s \in OpenSessions :
       Remember(r, [q EXCEPT !.phase = "admitted", !.session = s,
                      !.rows = AboveFloor(Admitted(q.batch, tsession[s].start),
                                          LastPointAt(stored[s]))])

Reject(r) ==
  LET q == req[r] IN
  /\ q.phase = "arrived"
  /\ OpenSessions = {} \/ \E p \in q.batch : p.at \in Unfit
  /\ Remember(r, [Idle EXCEPT !.phase = "failed"])

Instants(rows) == {x.at : x \in rows}

MutAppendDuplicates(r) ==
  LET q == req[r] IN
  /\ q.phase = "admitted"
  /\ Remember(r, [q EXCEPT !.phase = "appended",
                           !.listed = stored[q.session] \cup q.rows])

MutMeasureSkipped(r) ==
  LET q == req[r] IN
  /\ q.phase = "admitted"
  /\ Remember(r, [q EXCEPT !.phase = "appended",
                           !.rows = {x \in @ : x.at \notin Instants(stored[q.session])},
                           !.listed = stored[q.session] \cup q.rows])

(* createMany with skipDuplicates, and listForSession.                         *)
Append(r) ==
  LET q == req[r]
      new == {x \in q.rows : x.at \notin Instants(stored[q.session])}
  IN
  /\ q.phase = "admitted"
  /\ \A o \in Request :
       req[o].phase = "appended" /\ req[o].session = q.session =>
         Instants(new) \cap Instants(req[o].rows) = {}
  /\ Remember(r, [q EXCEPT !.phase = "appended", !.rows = new,
                           !.listed = stored[q.session] \cup new])

(* updateLiveState, which does not look whether the session is still open, and *)
(* the commit.                                                               *)
Commit(r) ==
  LET q == req[r] IN
  /\ q.phase = "appended"
  /\ stored' = [stored EXCEPT ![q.session] = @ \cup q.rows]
  /\ measured' = [measured EXCEPT ![q.session] = q.listed]
  /\ Goto(r, [Idle EXCEPT !.phase = "done"])
  /\ UNCHANGED <<tsession, now>>

(* The transaction or its process is lost.                                    *)
Abort(r) ==
  \/ /\ req[r].phase \in {"arrived", "admitted", "appended"}
     /\ Remember(r, [Idle EXCEPT !.phase = "failed"])
  \/ /\ req[r].phase = "closing"
     /\ Remember(r, Idle)

(* The answer has arrived, or nobody waits for it.                             *)
Answered(r) == req[r].phase \in {"done", "failed"} /\ Remember(r, Idle)

Tick ==
  /\ now < MaxTime
  /\ now' = now + 1
  /\ UNCHANGED <<tables, req>>

ServeIngest(r) == Admit(r) \/ Reject(r) \/ Append(r) \/ Commit(r)

ServerNext ==
  \/ Tick
  \/ \E t \in Time : OpenSession(t)
  \/ \E r \in Request :
       \/ \E t \in Time : CloseRead(r, t)
       \/ CloseWrite(r)
       \/ \E batch \in SUBSET Point : Receive(r, batch)
       \/ ServeIngest(r) \/ Abort(r) \/ Answered(r)

ServerSpec == ServerInit /\ [][ServerNext]_serverVars
---------------------------------------------------------------------------
(* Properties.                                                               *)

(* However often a fix is sent again, and by however many requests at once,     *)
(* its session holds it once, and holds one point for an instant.              *)
StoredOnce ==
  \A s \in SessionId : \A x, y \in stored[s] :
    x.point = y.point \/ x.at = y.at => x = y

(* No fix is moved to a time its device never claimed: a stored point lies in   *)
(* the session and within the clock tolerance of the fix.                      *)
NeverFabricated ==
  \A s \in SessionId : \A x \in stored[s] :
    /\ tsession[s].start # Null
    /\ tsession[s].start <= x.at /\ x.at <= now
    /\ x.at <= x.point.at + Tolerance /\ x.point.at <= x.at + Tolerance

(* What a session's totals count is stored: a batch that failed, and a point    *)
(* that was skipped as a duplicate, adds no distance.                          *)
MeasuredIsStored == \A s \in SessionId : measured[s] \subseteq stored[s]

(* Closing is idempotent under a race: the first end stands.                   *)
ClosedOnce ==
  [][\A s \in SessionId : tsession[s].end # Null => tsession'[s] = tsession[s]]_serverVars

(* No point is stored against a closed session.  Not so: a batch admitted before   *)
(* the close may commit after it.                                            *)
NoPointAfterClose ==
  [][\A s \in SessionId : tsession[s].end # Null => stored'[s] = stored[s]]_serverVars
=============================================================================
