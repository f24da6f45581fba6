----------------------------- MODULE Workplace -----------------------------
(***************************************************************************)
(* Work areas, the positions in them and the people standing on them: the   *)
(* office's routes under /admin/areas and /admin/positions beside the        *)
(* workers' commands.                                                       *)
(*                                                                         *)
(* Nothing here is one transaction.  A worker's command reads the position's  *)
(* row, then counts who is on it, decides, and only then opens its           *)
(* transaction; the office reads or counts, then updates by id.  Each read    *)
(* and each write is a step of a request, and requests interleave.            *)
(*                                                                         *)
(* Abstractions.  The shift around a position session, and two commands of    *)
(* one worker at once, belong to ShiftCommands: here a worker's session is    *)
(* what stands on the position.  Names, codes and kinds are left out: what    *)
(* refuses a create for its code is a way of giving up.  There is one site.   *)
(***************************************************************************)
EXTENDS Eligibility, FiniteSets

CONSTANTS
  Area, Request,
  Nobody, Nowhere, NoArea,
  Limit,            \* [Position -> the capacities the office enters for it, Null among them]
  MaxTime, MaxBacklog

ASSUME WorkplaceAssumption ==
  /\ MaxTime \in Nat /\ MaxBacklog \in Nat /\ Time = 0 .. MaxTime
  /\ \A p \in Position : Limit[p] \subseteq (Nat \ {0}) \cup {Null}
  /\ Nowhere \notin Position /\ NoArea \notin Area /\ Nobody \notin Worker
  /\ IsFiniteSet(Request) /\ IsFiniteSet(Worker)

VARIABLES
  area,      \* the status of each work area, "NONE" before it exists
  position,  \* position rows
  stands,    \* each worker's open position session
  req,       \* requests being served
  now,
  peak       \* history: the most people each position has ever allowed at once

floor == <<area, position, stands>>
workplaceVars == <<area, position, stands, req, now, peak>>

NoRow == [status |-> "NONE", area |-> NoArea, capacity |-> Null]
Away == [position |-> Nowhere, since |-> 0]

RowType == [status : {"NONE", "ACTIVE", "ARCHIVED"}, area : Area \cup {NoArea},
            capacity : (UNION {Limit[p] : p \in Position}) \cup {Null}]

RequestType ==
  [cmd : {"none", "take", "archiveArea", "create", "move", "archivePosition"},
   phase : {"idle", "rule", "write"},
   worker : Worker \cup {Nobody}, position : Position \cup {Nowhere},
   area : Area \cup {NoArea}, row : RowType, at : Time]

Idle == [cmd |-> "none", phase |-> "idle", worker |-> Nobody, position |-> Nowhere,
         area |-> NoArea, row |-> NoRow, at |-> 0]

WorkplaceTypeOK ==
  /\ area \in [Area -> {"NONE", "ACTIVE", "ARCHIVED"}]
  /\ position \in [Position -> RowType]
  /\ stands \in [Worker -> [position : Position \cup {Nowhere}, since : Time]]
  /\ req \in [Request -> RequestType]
  /\ now \in Time
  /\ peak \in [Position -> Nat]

OnPosition(p) == {w \in Worker : stands[w].position = p}
Occupancy(p) == Cardinality(OnPosition(p))

(* An unlimited position allows everybody.                                    *)
Room(capacity) == IF capacity = Null THEN Cardinality(Worker) ELSE capacity

WorkplaceInit ==
  /\ area = [a \in Area |-> "NONE"]
  /\ position = [p \in Position |-> NoRow]
  /\ stands = [w \in Worker |-> Away]
  /\ req = [r \in Request |-> Idle]
  /\ now = 0
  /\ peak = [p \in Position |-> 0]
---------------------------------------------------------------------------
Ask(r, q) == req[r] = Idle /\ req' = [req EXCEPT ![r] = q] /\ UNCHANGED <<floor, now, peak>>
Done(r) == req' = [req EXCEPT ![r] = Idle] /\ UNCHANGED now
Pending(r, cmd) == req[r].cmd = cmd /\ req[r].phase = "write"

(* A refusal, a unique index, a lost connection: the request changes nothing.   *)
GiveUp(r) == req[r] # Idle /\ Done(r) /\ UNCHANGED <<floor, peak>>

Tick == now < MaxTime /\ now' = now + 1 /\ UNCHANGED <<floor, req, peak>>

(* The instant a device states is accepted up to MaxBacklog back.              *)
OccurredAt == {at \in Time : at <= now /\ at + MaxBacklog >= now}
---------------------------------------------------------------------------
(* Workers: startShift with a position, changePosition and beginDriving.       *)

ReadRule(r, w, p, at) ==
  /\ position[p].status # "NONE"
  /\ Ask(r, [Idle EXCEPT !.cmd = "take", !.phase = "rule", !.worker = w, !.position = p,
                         !.row = position[p], !.at = at])

(* Mutant of Decide: the rules as of the server's clock, not of the action.       *)
DecideAsOfNow(r) ==
  LET q == req[r] IN
  /\ q.cmd = "take" /\ q.phase = "rule"
  /\ AssertEligible(q.worker, q.position, q.row, Occupancy(q.position), now)
  /\ req' = [req EXCEPT ![r].phase = "write", ![r].row = NoRow]
  /\ UNCHANGED <<floor, now, peak>>

(* toRule's count comes after the row, the decision after both.               *)
Decide(r) ==
  LET q == req[r] IN
  /\ q.cmd = "take" /\ q.phase = "rule"
  /\ AssertEligible(q.worker, q.position, q.row, Occupancy(q.position), q.at)
  /\ req' = [req EXCEPT ![r].phase = "write", ![r].row = NoRow]
  /\ UNCHANGED <<floor, now, peak>>

(* One transaction: planPositionChange, the old session closed, the new opened. *)
OpenSession(r) ==
  LET q == req[r] IN
  /\ Pending(r, "take")
  /\ stands[q.worker].position # q.position
  /\ stands[q.worker].position # Nowhere => q.at >= stands[q.worker].since
  /\ stands' = [stands EXCEPT ![q.worker] = [position |-> q.position, since |-> q.at]]
  /\ Done(r)
  /\ UNCHANGED <<area, position, peak>>

(* The shift ends, or the trip of a driving position does.                     *)
Leave(w) ==
  /\ stands[w] # Away
  /\ stands' = [stands EXCEPT ![w] = Away]
  /\ UNCHANGED <<area, position, req, now, peak>>
---------------------------------------------------------------------------
(* The office: areas.                                                        *)

CreateArea(a) ==
  /\ area[a] = "NONE"
  /\ area' = [area EXCEPT ![a] = "ACTIVE"]
  /\ UNCHANGED <<position, stands, req, now, peak>>

(* Renaming writes no status; only archiving looks first.                      *)
ReactivateArea(a) ==
  /\ area[a] = "ARCHIVED"
  /\ area' = [area EXCEPT ![a] = "ACTIVE"]
  /\ UNCHANGED <<position, stands, req, now, peak>>

ActiveIn(a) == {p \in Position : position[p].area = a /\ position[p].status = "ACTIVE"}

CountPositions(r, a) ==
  /\ area[a] # "NONE"
  /\ ActiveIn(a) = {}
  /\ Ask(r, [Idle EXCEPT !.cmd = "archiveArea", !.phase = "write", !.area = a])

ArchiveArea(r) ==
  /\ Pending(r, "archiveArea")
  /\ area' = [area EXCEPT ![req[r].area] = "ARCHIVED"]
  /\ Done(r)
  /\ UNCHANGED <<position, stands, peak>>
---------------------------------------------------------------------------
(* The office: positions.  Creating one and moving one both look for an active  *)
(* area first.                                                               *)

FindArea(r, cmd, p, a, capacity) ==
  /\ area[a] = "ACTIVE"
  /\ cmd = "create" <=> position[p].status = "NONE"
  /\ Ask(r, [Idle EXCEPT !.cmd = cmd, !.phase = "write", !.position = p, !.area = a,
                         !.row.capacity = capacity])

CreatePosition(r) ==
  LET q == req[r] IN
  /\ Pending(r, "create")
  /\ position[q.position].status = "NONE"
  /\ position' = [position EXCEPT ![q.position] =
       [status |-> "ACTIVE", area |-> q.area, capacity |-> q.row.capacity]]
  /\ peak' = [peak EXCEPT ![q.position] = Room(q.row.capacity)]
  /\ Done(r)
  /\ UNCHANGED <<area, stands>>

MovePosition(r) ==
  LET q == req[r] IN
  /\ Pending(r, "move")
  /\ position' = [position EXCEPT ![q.position].area = q.area]
  /\ Done(r)
  /\ UNCHANGED <<area, stands, peak>>

(* A new limit is written whoever is on the position.                          *)
SetCapacity(p, capacity) ==
  /\ position[p].status # "NONE"
  /\ position' = [position EXCEPT ![p].capacity = capacity]
  /\ peak' = [peak EXCEPT ![p] = IF Room(capacity) > @ THEN Room(capacity) ELSE @]
  /\ UNCHANGED <<area, stands, req, now>>

CountSessions(r, p) ==
  /\ position[p].status # "NONE"
  /\ OnPosition(p) = {}
  /\ Ask(r, [Idle EXCEPT !.cmd = "archivePosition", !.phase = "write", !.position = p])

ArchivePosition(r) ==
  /\ Pending(r, "archivePosition")
  /\ position' = [position EXCEPT ![req[r].position].status = "ARCHIVED"]
  /\ Done(r)
  /\ UNCHANGED <<area, stands, peak>>

(* Making a position active again asks nothing of the area it is in.           *)
ReactivatePosition(p) ==
  /\ position[p].status = "ARCHIVED"
  /\ position' = [position EXCEPT ![p].status = "ACTIVE"]
  /\ UNCHANGED <<area, stands, req, now, peak>>
---------------------------------------------------------------------------
WorkerStep(r) ==
  \/ \E w \in Worker, p \in Position, at \in OccurredAt : ReadRule(r, w, p, at)
  \/ Decide(r) \/ OpenSession(r)

OfficeStep(r) ==
  \/ \E a \in Area : CountPositions(r, a)
  \/ \E p \in Position, a \in Area : \/ FindArea(r, "move", p, a, Null)
                                      \/ \E c \in Limit[p] : FindArea(r, "create", p, a, c)
  \/ \E p \in Position : CountSessions(r, p)
  \/ ArchiveArea(r) \/ CreatePosition(r) \/ MovePosition(r) \/ ArchivePosition(r)

WorkplaceNext ==
  \/ Tick
  \/ \E r \in Request : WorkerStep(r) \/ OfficeStep(r) \/ GiveUp(r)
  \/ \E w \in Worker : Leave(w)
  \/ \E a \in Area : CreateArea(a) \/ ReactivateArea(a)
  \/ \E p \in Position : ReactivatePosition(p) \/ \E c \in Limit[p] : SetCapacity(p, c)

WorkplaceSpec == WorkplaceInit /\ [][WorkplaceNext]_workplaceVars
---------------------------------------------------------------------------
(* Properties.                                                               *)

(* assertEligible counts before the transaction and nothing counts again, so   *)
(* workers deciding at once may overbook a position.  How far that can go: not  *)
(* past the largest limit the position ever had by more than the number of      *)
(* other requests in flight, since whoever counts afterwards is refused.        *)
OverbookingBounded ==
  \A p \in Position :
    OnPosition(p) # {} => Occupancy(p) + 1 <= peak[p] + Cardinality(Request)

(* Whoever stands on a position was entitled to it at the instant their session  *)
(* begins - not merely when the request arrived or when it was written: an       *)
(* offline action dated back, and a decision that waits for its transaction,     *)
(* must not use a qualification that had lapsed or slip past a denial.           *)
EntitledAtStart ==
  \A w \in Worker :
    LET p == stands[w].position  t == stands[w].since IN
    p # Nowhere =>
      /\ ~ Overridden(w, p, t, "DENY")
      /\ \/ Overridden(w, p, t, "ALLOW")
         \/ ChangeMode[p] = "INSTANT"
         \/ /\ ChangeMode[p] = "QUALIFICATION_REQUIRED"
            /\ \A k \in Required[p] : Expiry[w][k] # Missing /\ ~ Lapsed(w, k, t)

(* An area is archived only when no position in it is active (admin.ts: archiving *)
(* it "would hide the position a worker is standing on from every picker").      *)
(* Not so: a position may be made active again inside an archived area.          *)
NoActivePositionHidden ==
  \A p \in Position : position[p].status = "ACTIVE" => area[position[p].area] = "ACTIVE"

(* A position is archived only when nobody is on it (admin.ts: "leave a shift    *)
(* that cannot be closed against anything").  Not so: the count and the update    *)
(* are two statements, and so are the decision and the session.                  *)
NobodyOnArchived ==
  \A w \in Worker : stands[w].position # Nowhere => position[stands[w].position].status = "ACTIVE"
=============================================================================
