---------------------------- MODULE Office_proofs ----------------------------
(***************************************************************************)
(* Theorems about the office: who stands where on Workplace's floor,           *)
(* Organization's audit trail and settings, and what Commerce answers from its   *)
(* copies of the tables, for every set of people, positions, requests and readers.  *)
(***************************************************************************)
EXTENDS Workplace, Organization, Commerce, SequenceTheorems, FiniteSetTheorems, TLAPS

---------------------------------------------------------------------------
(* Workplace.                                                                *)

LEMMA IdleTyped == Idle \in RequestType
BY WorkplaceAssumption DEF Idle, RequestType, NoRow, RowType

LEMMA RoomIsNatural ==
  ASSUME NEW capacity \in (UNION {Limit[p] : p \in Position}) \cup {Null}
  PROVE  Room(capacity) \in Nat
BY WorkplaceAssumption, FS_CardinalityType DEF Room

LEMMA AskTyped ==
  ASSUME WorkplaceTypeOK, NEW r \in Request, NEW q \in RequestType, Ask(r, q)
  PROVE  WorkplaceTypeOK'
BY DEF Ask, WorkplaceTypeOK, floor

LEMMA DoneTyped ==
  ASSUME WorkplaceTypeOK, NEW r \in Request, Done(r)
  PROVE  req' \in [Request -> RequestType] /\ now' \in Time
BY IdleTyped DEF Done, WorkplaceTypeOK

LEMMA WorkerStepTyped ==
  ASSUME WorkplaceTypeOK, NEW r \in Request, WorkerStep(r)
  PROVE  WorkplaceTypeOK'
<1>1. CASE \E w \in Worker, p \in Position, at \in OccurredAt : ReadRule(r, w, p, at)
  <2>1. PICK w \in Worker, p \in Position, at \in OccurredAt : ReadRule(r, w, p, at)
    BY <1>1
  <2> DEFINE q == [Idle EXCEPT !.cmd = "take", !.phase = "rule", !.worker = w, !.position = p,
                               !.row = position[p], !.at = at]
  <2>2. at \in Time /\ position[p] \in RowType
    BY DEF OccurredAt, WorkplaceTypeOK
  <2>3. q \in RequestType
    BY <2>2, IdleTyped DEF Idle, RequestType
  <2> QED BY <2>1, <2>3, AskTyped DEF ReadRule
<1>2. CASE Decide(r)
  BY <1>2, IdleTyped DEF Decide, WorkplaceTypeOK, floor, RequestType, Idle
<1>3. CASE OpenSession(r)
  <2>1. req[r] \in RequestType /\ req[r].position \in Position \cup {Nowhere}
    BY DEF WorkplaceTypeOK, RequestType
  <2> QED BY <1>3, <2>1, DoneTyped DEF OpenSession, WorkplaceTypeOK, RequestType
<1> QED BY <1>1, <1>2, <1>3 DEF WorkerStep

LEMMA OfficeStepTyped ==
  ASSUME WorkplaceTypeOK, NEW r \in Request, OfficeStep(r)
  PROVE  WorkplaceTypeOK'
<1>1. CASE \E a \in Area : CountPositions(r, a)
  <2>1. PICK a \in Area : CountPositions(r, a)
    BY <1>1
  <2>2. [Idle EXCEPT !.cmd = "archiveArea", !.phase = "write", !.area = a] \in RequestType
    BY IdleTyped DEF Idle, RequestType
  <2> QED BY <2>1, <2>2, AskTyped DEF CountPositions
<1>2. ASSUME NEW p \in Position, NEW a \in Area, NEW cmd \in {"create", "move"},
             NEW c \in Limit[p] \cup {Null}, FindArea(r, cmd, p, a, c)
      PROVE  WorkplaceTypeOK'
  <2>1. [Idle EXCEPT !.cmd = cmd, !.phase = "write", !.position = p, !.area = a,
                     !.row.capacity = c] \in RequestType
    <3>1. c \in (UNION {Limit[x] : x \in Position}) \cup {Null}
      OBVIOUS
    <3> QED BY <3>1, IdleTyped DEF Idle, RequestType, NoRow, RowType
  <2> QED BY <1>2, <2>1, AskTyped DEF FindArea
<1>3. CASE \E p \in Position : CountSessions(r, p)
  <2>1. PICK p \in Position : CountSessions(r, p)
    BY <1>3
  <2>2. [Idle EXCEPT !.cmd = "archivePosition", !.phase = "write", !.position = p] \in RequestType
    BY IdleTyped DEF Idle, RequestType
  <2> QED BY <2>1, <2>2, AskTyped DEF CountSessions
<1> USE DEF WorkplaceTypeOK
<1> DEFINE q == req[r]
<1>4. q \in RequestType /\ q.row \in RowType /\ q.area \in Area \cup {NoArea}
  BY DEF RequestType
<1>5. CASE ArchiveArea(r)
  BY <1>5, DoneTyped DEF ArchiveArea
<1>6. CASE CreatePosition(r)
  <2>1. Room(q.row.capacity) \in Nat
    BY <1>4, RoomIsNatural DEF RowType
  <2>2. [status |-> "ACTIVE", area |-> q.area, capacity |-> q.row.capacity] \in RowType
    BY <1>4 DEF RowType
  <2> QED BY <1>6, <2>1, <2>2, DoneTyped DEF CreatePosition
<1>7. CASE MovePosition(r)
  BY <1>4, <1>7, DoneTyped DEF MovePosition, RowType
<1>8. CASE ArchivePosition(r)
  BY <1>4, <1>8, DoneTyped DEF ArchivePosition, RowType
<1> QED BY <1>1, <1>2, <1>3, <1>5, <1>6, <1>7, <1>8 DEF OfficeStep

LEMMA SetCapacityTyped ==
  ASSUME WorkplaceTypeOK, NEW p \in Position, NEW c \in Limit[p], SetCapacity(p, c)
  PROVE  WorkplaceTypeOK'
<1>1. c \in (UNION {Limit[x] : x \in Position}) \cup {Null}
  OBVIOUS
<1>2. Room(c) \in Nat
  BY <1>1, RoomIsNatural
<1> QED BY <1>1, <1>2 DEF SetCapacity, WorkplaceTypeOK, RowType

LEMMA NextTyped ==
  ASSUME WorkplaceTypeOK, [WorkplaceNext]_workplaceVars
  PROVE  WorkplaceTypeOK'
<1> USE DEF WorkplaceTypeOK
<1>1. CASE Tick
  BY <1>1, WorkplaceAssumption DEF Tick, floor
<1>2. ASSUME NEW r \in Request, GiveUp(r)
      PROVE  WorkplaceTypeOK'
  BY <1>2, DoneTyped DEF GiveUp, floor
<1>3. ASSUME NEW w \in Worker, Leave(w)
      PROVE  WorkplaceTypeOK'
  BY <1>3, WorkplaceAssumption DEF Leave, Away
<1>4. ASSUME NEW a \in Area, CreateArea(a) \/ ReactivateArea(a)
      PROVE  WorkplaceTypeOK'
  BY <1>4 DEF CreateArea, ReactivateArea
<1>5. ASSUME NEW p \in Position, ReactivatePosition(p)
      PROVE  WorkplaceTypeOK'
  BY <1>5 DEF ReactivatePosition, RowType
<1>6. CASE UNCHANGED workplaceVars
  BY <1>6 DEF workplaceVars
<1> QED BY <1>1, <1>2, <1>3, <1>4, <1>5, <1>6, WorkerStepTyped, OfficeStepTyped, SetCapacityTyped
        DEF WorkplaceNext

(* Every table of the floor and every request being served keeps its type.       *)
THEOREM WorkplaceTypeCorrect == WorkplaceSpec => []WorkplaceTypeOK
<1>1. WorkplaceInit => WorkplaceTypeOK
  BY WorkplaceAssumption, IdleTyped
  DEF WorkplaceInit, WorkplaceTypeOK, NoRow, RowType, Away
<1> QED BY <1>1, NextTyped, PTL DEF WorkplaceSpec
---------------------------------------------------------------------------
(* Who stands where was entitled to it.  The decision is about the instant the    *)
(* action states and that instant travels with the request, so what has to be     *)
(* kept is that a request past its decision is entitled at its own instant.       *)

Entitled(w, p, t) ==
  /\ ~ Overridden(w, p, t, "DENY")
  /\ \/ Overridden(w, p, t, "ALLOW")
     \/ ChangeMode[p] = "INSTANT"
     \/ /\ ChangeMode[p] = "QUALIFICATION_REQUIRED"
        /\ \A k \in Required[p] : Expiry[w][k] # Missing /\ ~ Lapsed(w, k, t)

Decided(q) == q.cmd = "take" /\ q.phase = "write"

DecidedAreEntitled ==
  \A r \in Request : Decided(req[r]) =>
    /\ req[r].worker \in Worker /\ req[r].position \in Position
    /\ Entitled(req[r].worker, req[r].position, req[r].at)

ReadNameSomebody ==
  \A r \in Request : req[r].cmd = "take" =>
    req[r].worker \in Worker /\ req[r].position \in Position

EntitledInv == WorkplaceTypeOK /\ ReadNameSomebody /\ DecidedAreEntitled /\ EntitledAtStart

(* The order of the rules leaves no other way to an allowed answer: whatever the  *)
(* row and the count, who is found eligible is entitled.                        *)
LEMMA EligibleAreEntitled ==
  ASSUME NEW w \in Worker, NEW p \in Position, NEW row, NEW occupancy, NEW at,
         AssertEligible(w, p, row, occupancy, at)
  PROVE  Entitled(w, p, at)
<1>1. ChangeMode[p] \in {"INSTANT", "QUALIFICATION_REQUIRED", "SUPERVISOR_APPROVAL"}
  BY EligibilityAssumption
<1>2. ~ Overridden(w, p, at, "DENY")
  BY DEF AssertEligible, ResolveEligibility, Allowed
<1>3. CASE Overridden(w, p, at, "ALLOW") \/ ChangeMode[p] = "INSTANT"
  BY <1>2, <1>3 DEF Entitled
<1>4. CASE ~ (Overridden(w, p, at, "ALLOW") \/ ChangeMode[p] = "INSTANT")
  <2>1. CheckQualifications(w, p, at) = "QUALIFICATION_SATISFIED"
        /\ ChangeMode[p] # "SUPERVISOR_APPROVAL"
    BY <1>2, <1>4 DEF AssertEligible, ResolveEligibility, Allowed, CheckQualifications
  <2>2. \A k \in Required[p] : Expiry[w][k] # Missing /\ ~ Lapsed(w, k, at)
    BY <2>1 DEF CheckQualifications
  <2> QED BY <1>1, <1>2, <1>4, <2>1, <2>2 DEF Entitled
<1> QED BY <1>3, <1>4

LEMMA EntitledAtStartIsEntitled ==
  EntitledAtStart <=> \A w \in Worker : stands[w].position # Nowhere =>
                        Entitled(w, stands[w].position, stands[w].since)
BY DEF EntitledAtStart, Entitled

(* A request that starts, or one dropped, decides nothing.                        *)
LEMMA UndecidedKeepsEntitled ==
  ASSUME EntitledInv, NEW r \in Request, NEW q, req' = [req EXCEPT ![r] = q], UNCHANGED stands,
         ~ Decided(q), q.cmd = "take" => q.worker \in Worker /\ q.position \in Position,
         WorkplaceTypeOK'
  PROVE  EntitledInv'
<1>1. ReadNameSomebody'
  BY DEF EntitledInv, ReadNameSomebody, WorkplaceTypeOK
<1>2. DecidedAreEntitled'
  BY DEF EntitledInv, DecidedAreEntitled, WorkplaceTypeOK, Decided, Entitled
<1>3. EntitledAtStart'
  BY DEF EntitledInv, EntitledAtStart, Overridden, InForce, Lapsed
<1> QED BY <1>1, <1>2, <1>3 DEF EntitledInv

LEMMA SameRequestsKeepEntitled ==
  ASSUME EntitledInv, UNCHANGED <<stands, req>>, WorkplaceTypeOK'
  PROVE  EntitledInv'
BY DEF EntitledInv, ReadNameSomebody, DecidedAreEntitled, EntitledAtStart,
       Decided, Entitled, Overridden, InForce, Lapsed

LEMMA DecideKeepsEntitled ==
  ASSUME EntitledInv, NEW r \in Request, Decide(r), WorkplaceTypeOK'
  PROVE  EntitledInv'
<1> DEFINE q == req[r]
<1>1. q.worker \in Worker /\ q.position \in Position
  BY DEF EntitledInv, ReadNameSomebody, Decide
<1>2. Entitled(q.worker, q.position, q.at)
  BY <1>1, EligibleAreEntitled DEF Decide
<1>3. UNCHANGED stands /\ \A x \in Request :
        /\ req'[x].cmd = req[x].cmd /\ req'[x].worker = req[x].worker
        /\ req'[x].position = req[x].position /\ req'[x].at = req[x].at
        /\ x # r => req'[x] = req[x]
  BY DEF Decide, EntitledInv, WorkplaceTypeOK, RequestType, floor
<1>4. ReadNameSomebody'
  BY <1>3 DEF EntitledInv, ReadNameSomebody
<1>5. DecidedAreEntitled'
  BY <1>1, <1>2, <1>3 DEF EntitledInv, DecidedAreEntitled, Decided, Entitled
<1>6. EntitledAtStart'
  BY <1>3 DEF EntitledInv, EntitledAtStart, Overridden, InForce, Lapsed
<1> QED BY <1>4, <1>5, <1>6 DEF EntitledInv

LEMMA OpenKeepsEntitled ==
  ASSUME EntitledInv, NEW r \in Request, OpenSession(r), WorkplaceTypeOK'
  PROVE  EntitledInv'
<1> DEFINE q == req[r]
<1>1. /\ q.worker \in Worker /\ q.position \in Position
      /\ Entitled(q.worker, q.position, q.at)
  BY DEF EntitledInv, DecidedAreEntitled, Decided, OpenSession, Pending
<1>2. /\ stands'[q.worker] = [position |-> q.position, since |-> q.at]
      /\ \A w \in Worker : w # q.worker => stands'[w] = stands[w]
      /\ req'[r] = Idle
      /\ \A x \in Request : x # r => req'[x] = req[x]
  BY <1>1 DEF OpenSession, Done, EntitledInv, WorkplaceTypeOK
<1>3. Idle.cmd = "none"
  BY DEF Idle
<1>4. ReadNameSomebody'
  BY <1>2, <1>3 DEF EntitledInv, ReadNameSomebody
<1>5. DecidedAreEntitled'
  BY <1>2, <1>3 DEF EntitledInv, DecidedAreEntitled, Decided, Entitled
<1>6. \A w \in Worker : stands'[w].position # Nowhere =>
        Entitled(w, stands'[w].position, stands'[w].since)
  BY <1>1, <1>2, EntitledAtStartIsEntitled DEF EntitledInv
<1>7. EntitledAtStart'
  BY <1>6 DEF EntitledAtStart, Entitled
<1> QED BY <1>4, <1>5, <1>7 DEF EntitledInv

LEMMA OfficeKeepsEntitled ==
  ASSUME EntitledInv, NEW r \in Request, OfficeStep(r), WorkplaceTypeOK'
  PROVE  EntitledInv'
<1> DEFINE Starts(q) == req' = [req EXCEPT ![r] = q] /\ UNCHANGED stands /\ q.cmd # "take"
<1>1. \E q : Starts(q)
  <2>1. CASE \E a \in Area : CountPositions(r, a)
    <3>1. PICK a \in Area : CountPositions(r, a)
      BY <2>1
    <3> DEFINE q == [Idle EXCEPT !.cmd = "archiveArea", !.phase = "write", !.area = a]
    <3>2. Starts(q)
      BY <3>1 DEF CountPositions, Ask, Idle, floor
    <3> QED BY <3>2
  <2>2. ASSUME NEW p \in Position, NEW a \in Area, NEW cmd \in {"create", "move"}, NEW c,
               FindArea(r, cmd, p, a, c)
        PROVE  \E q : Starts(q)
    <3> DEFINE q == [Idle EXCEPT !.cmd = cmd, !.phase = "write", !.position = p, !.area = a,
                                 !.row.capacity = c]
    <3>1. Starts(q)
      BY <2>2 DEF FindArea, Ask, Idle, floor
    <3> QED BY <3>1
  <2>3. CASE \E p \in Position : CountSessions(r, p)
    <3>1. PICK p \in Position : CountSessions(r, p)
      BY <2>3
    <3> DEFINE q == [Idle EXCEPT !.cmd = "archivePosition", !.phase = "write", !.position = p]
    <3>2. Starts(q)
      BY <3>1 DEF CountSessions, Ask, Idle, floor
    <3> QED BY <3>2
  <2>4. CASE ArchiveArea(r) \/ CreatePosition(r) \/ MovePosition(r) \/ ArchivePosition(r)
    <3>1. Starts(Idle)
      BY <2>4 DEF ArchiveArea, CreatePosition, MovePosition, ArchivePosition, Done, Idle
    <3> QED BY <3>1
  <2> QED BY <2>1, <2>2, <2>3, <2>4 DEF OfficeStep
<1>2. PICK q : Starts(q)
  BY <1>1
<1> QED BY <1>2, UndecidedKeepsEntitled DEF Decided

LEMMA ReadRuleKeepsEntitled ==
  ASSUME EntitledInv, NEW r \in Request, NEW w \in Worker, NEW p \in Position, NEW at,
         ReadRule(r, w, p, at), WorkplaceTypeOK'
  PROVE  EntitledInv'
<1> DEFINE q == [Idle EXCEPT !.cmd = "take", !.phase = "rule", !.worker = w, !.position = p,
                             !.row = position[p], !.at = at]
<1>1. req' = [req EXCEPT ![r] = q] /\ UNCHANGED stands
  BY DEF ReadRule, Ask, floor
<1>2. ~ Decided(q) /\ q.worker \in Worker /\ q.position \in Position
  BY DEF Decided, Idle
<1> QED BY <1>1, <1>2, UndecidedKeepsEntitled

LEMMA NextKeepsEntitled ==
  ASSUME EntitledInv, [WorkplaceNext]_workplaceVars
  PROVE  EntitledInv'
<1>1. WorkplaceTypeOK'
  BY NextTyped DEF EntitledInv
<1>2. ASSUME NEW r \in Request, WorkerStep(r)
      PROVE  EntitledInv'
  BY <1>1, <1>2, ReadRuleKeepsEntitled, DecideKeepsEntitled, OpenKeepsEntitled DEF WorkerStep
<1>3. ASSUME NEW r \in Request, GiveUp(r)
      PROVE  EntitledInv'
  <2>1. req' = [req EXCEPT ![r] = Idle] /\ UNCHANGED stands
    BY <1>3 DEF GiveUp, Done, floor
  <2>2. Idle.cmd # "take"
    BY DEF Idle
  <2> QED BY <1>1, <2>1, <2>2, UndecidedKeepsEntitled DEF Decided
<1>4. ASSUME NEW w \in Worker, Leave(w)
      PROVE  EntitledInv'
  <2>1. /\ stands'[w].position = Nowhere
        /\ \A x \in Worker : x # w => stands'[x] = stands[x]
        /\ UNCHANGED req
    BY <1>4 DEF Leave, EntitledInv, WorkplaceTypeOK, Away
  <2>2. ReadNameSomebody' /\ DecidedAreEntitled'
    BY <2>1 DEF EntitledInv, ReadNameSomebody, DecidedAreEntitled, Decided, Entitled
  <2>3. EntitledAtStart'
    BY <2>1 DEF EntitledInv, EntitledAtStart, Overridden, InForce, Lapsed
  <2> QED BY <1>1, <2>2, <2>3 DEF EntitledInv
<1>5. CASE Tick
  <2>1. UNCHANGED <<stands, req>>
    BY <1>5 DEF Tick, floor
  <2> QED BY <1>1, <2>1, SameRequestsKeepEntitled
<1>6. ASSUME NEW a \in Area, CreateArea(a) \/ ReactivateArea(a)
      PROVE  EntitledInv'
  <2>1. UNCHANGED <<stands, req>>
    BY <1>6 DEF CreateArea, ReactivateArea
  <2> QED BY <1>1, <2>1, SameRequestsKeepEntitled
<1>7. ASSUME NEW p \in Position, NEW c, ReactivatePosition(p) \/ SetCapacity(p, c)
      PROVE  EntitledInv'
  <2>1. UNCHANGED <<stands, req>>
    BY <1>7 DEF ReactivatePosition, SetCapacity
  <2> QED BY <1>1, <2>1, SameRequestsKeepEntitled
<1>8. CASE UNCHANGED workplaceVars
  <2>1. UNCHANGED <<stands, req>>
    BY <1>8 DEF workplaceVars
  <2> QED BY <1>1, <2>1, SameRequestsKeepEntitled
<1> QED BY <1>1, <1>2, <1>3, <1>4, <1>5, <1>6, <1>7, <1>8, OfficeKeepsEntitled DEF WorkplaceNext

(* Whoever stands on a position was entitled to it at the instant their session   *)
(* begins, however the worker's requests, the office's and the clock interleave.  *)
THEOREM StandingIsEntitled == WorkplaceSpec => []EntitledAtStart
<1>1. WorkplaceInit => EntitledInv
  <2> SUFFICES ASSUME WorkplaceInit PROVE EntitledInv
    OBVIOUS
  <2>1. WorkplaceTypeOK
    BY WorkplaceAssumption, IdleTyped
    DEF WorkplaceInit, WorkplaceTypeOK, NoRow, RowType, Away
  <2>2. ReadNameSomebody /\ DecidedAreEntitled
    BY DEF WorkplaceInit, ReadNameSomebody, DecidedAreEntitled, Decided, Idle
  <2>3. EntitledAtStart
    BY DEF WorkplaceInit, EntitledAtStart, Away
  <2> QED BY <2>1, <2>2, <2>3 DEF EntitledInv
<1>2. EntitledInv => EntitledAtStart
  BY DEF EntitledInv
<1> QED BY <1>1, <1>2, NextKeepsEntitled, PTL DEF WorkplaceSpec
---------------------------------------------------------------------------
(* How far a position can be overbooked.  The people on it are not bounded by an   *)
(* inductive formula of their own: what is bounded is the people on it together    *)
(* with the requests already decided in its favour, which are the people to come.  *)

Takers(p) == {r \in Request : Decided(req[r]) /\ req[r].position = p}

Within(on, takers, limit) ==
  \/ on = {} /\ takers = {}
  \/ Request # {} /\ Cardinality(Worker) <= limit
  \/ Cardinality(on) + Cardinality(takers) + 1 <= limit + Cardinality(Request)

LEMMA Counted ==
  ASSUME NEW on \in SUBSET Worker, NEW takers \in SUBSET Request
  PROVE  /\ IsFiniteSet(on) /\ Cardinality(on) \in Nat /\ Cardinality(on) <= Cardinality(Worker)
         /\ IsFiniteSet(takers) /\ Cardinality(takers) \in Nat
         /\ Cardinality(takers) <= Cardinality(Request)
         /\ Cardinality(Worker) \in Nat /\ Cardinality(Request) \in Nat
<1>1. IsFiniteSet(Worker) /\ IsFiniteSet(Request)
  BY WorkplaceAssumption
<1>2. on \subseteq Worker /\ takers \subseteq Request
  OBVIOUS
<1>3. IsFiniteSet(on) /\ Cardinality(on) <= Cardinality(Worker)
  BY <1>1, <1>2, FS_Subset
<1>4. IsFiniteSet(takers) /\ Cardinality(takers) <= Cardinality(Request)
  BY <1>1, <1>2, FS_Subset
<1> QED BY <1>1, <1>3, <1>4, FS_CardinalityType

LEMMA WithinIsBounded ==
  ASSUME NEW on \in SUBSET Worker, NEW takers \in SUBSET Request, NEW limit \in Nat,
         Within(on, takers, limit), on # {}
  PROVE  Cardinality(on) + 1 <= limit + Cardinality(Request)
<1>1. Request # {} => Cardinality(Request) > 0
  BY WorkplaceAssumption, FS_EmptySet, Counted
<1> QED BY <1>1, Counted DEF Within

LEMMA FewerAreWithin ==
  ASSUME NEW on \in SUBSET Worker, NEW takers \in SUBSET Request, NEW limit \in Nat,
         NEW on2 \in SUBSET on, NEW takers2 \in SUBSET takers, NEW limit2 \in Nat,
         limit <= limit2, Within(on, takers, limit)
  PROVE  Within(on2, takers2, limit2)
<1>1. Cardinality(on2) <= Cardinality(on) /\ Cardinality(takers2) <= Cardinality(takers)
  BY Counted, FS_Subset
<1>2. Cardinality(on2) \in Nat /\ Cardinality(takers2) \in Nat
  <2>1. on2 \in SUBSET Worker /\ takers2 \in SUBSET Request
    OBVIOUS
  <2> QED BY <2>1, Counted
<1>3. CASE on = {} /\ takers = {}
  BY <1>3 DEF Within
<1>4. CASE Request # {} /\ Cardinality(Worker) <= limit
  BY <1>4, Counted DEF Within
<1>5. CASE Cardinality(on) + Cardinality(takers) + 1 <= limit + Cardinality(Request)
  BY <1>1, <1>2, <1>5, Counted DEF Within
<1> QED BY <1>3, <1>4, <1>5 DEF Within

(* Whoever counted fewer than the limit then is one of the requests in flight.     *)
LEMMA OneMoreTaker ==
  ASSUME NEW on \in SUBSET Worker, NEW takers \in SUBSET Request, NEW limit \in Nat,
         NEW r \in Request, r \notin takers, NEW room \in Nat, room <= limit,
         Cardinality(on) < room \/ room = Cardinality(Worker)
  PROVE  Within(on, takers \cup {r}, limit)
<1>1. CASE room = Cardinality(Worker)
  BY <1>1 DEF Within
<1>2. CASE Cardinality(on) < room
  <2>1. Cardinality(takers \cup {r}) = Cardinality(takers) + 1
    BY Counted, FS_AddElement
  <2>2. takers \cup {r} \in SUBSET Request
    OBVIOUS
  <2>3. Cardinality(takers \cup {r}) <= Cardinality(Request)
    BY <2>2, Counted
  <2> QED BY <1>2, <2>1, <2>3, Counted DEF Within
<1> QED BY <1>1, <1>2

LEMMA TakerStands ==
  ASSUME NEW on \in SUBSET Worker, NEW takers \in SUBSET Request, NEW limit \in Nat,
         NEW r \in takers, NEW w \in Worker, w \notin on, Within(on, takers, limit)
  PROVE  Within(on \cup {w}, takers \ {r}, limit)
<1>1. Cardinality(on \cup {w}) = Cardinality(on) + 1
  BY Counted, FS_AddElement
<1>2. Cardinality(takers \ {r}) = Cardinality(takers) - 1
  BY Counted, FS_RemoveElement
<1> QED BY <1>1, <1>2, Counted DEF Within
---------------------------------------------------------------------------
Exists(p) == position[p].status # "NONE"

(* Requests name positions that exist, and nobody stands on one that does not.     *)
AskedOfAPosition ==
  /\ \A r \in Request : req[r].cmd \in {"take", "move", "archivePosition"} =>
       req[r].position \in Position /\ Exists(req[r].position)
  /\ \A p \in Position : OnPosition(p) # {} => Exists(p)

(* The peak is at least what the row allows, and what a request read of it.        *)
PeaksCover ==
  /\ \A p \in Position : Exists(p) => Room(position[p].capacity) <= peak[p]
  /\ \A r \in Request : req[r].cmd = "take" =>
       /\ req[r].worker \in Worker
       /\ req[r].phase = "rule" => Room(req[r].row.capacity) <= peak[req[r].position]

CrowdsWithin == \A p \in Position : Within(OnPosition(p), Takers(p), peak[p])

CrowdInv == WorkplaceTypeOK /\ AskedOfAPosition /\ PeaksCover /\ CrowdsWithin

LEMMA CrowdTyped ==
  ASSUME WorkplaceTypeOK, NEW p \in Position
  PROVE  /\ OnPosition(p) \in SUBSET Worker /\ Takers(p) \in SUBSET Request
         /\ peak[p] \in Nat /\ Room(position[p].capacity) \in Nat
<1>1. position[p].capacity \in (UNION {Limit[x] : x \in Position}) \cup {Null}
  BY DEF WorkplaceTypeOK, RowType
<1> QED BY <1>1, RoomIsNatural DEF WorkplaceTypeOK, OnPosition, Takers

(* All that a step other than a decision or a session may do: rows appear and      *)
(* change, never below the peak and never back to nothing; people leave; requests   *)
(* start or end.                                                             *)
LEMMA QuietKeepsCrowd ==
  ASSUME CrowdInv, WorkplaceTypeOK',
         \A p \in Position : Exists(p) => Exists(p)' /\ peak[p] <= peak'[p],
         \A p \in Position : Exists(p)' => Room(position'[p].capacity) <= peak'[p],
         \A w \in Worker : stands'[w] = stands[w] \/ stands'[w] = Away,
         \A r \in Request : req'[r] # req[r] =>
           /\ ~ Decided(req'[r])
           /\ req'[r].cmd \in {"take", "move", "archivePosition"} =>
                req'[r].position \in Position /\ Exists(req'[r].position)
           /\ req'[r].cmd = "take" =>
                req'[r].worker \in Worker /\ Room(req'[r].row.capacity) <= peak[req'[r].position]
  PROVE  CrowdInv'
<1>1. WorkplaceTypeOK /\ AskedOfAPosition /\ PeaksCover /\ CrowdsWithin
  BY DEF CrowdInv
<1>2. ASSUME NEW p \in Position
      PROVE  OnPosition(p)' \subseteq OnPosition(p) /\ Takers(p)' \subseteq Takers(p)
  <2>1. p # Nowhere
    BY WorkplaceAssumption
  <2>2. OnPosition(p)' \subseteq OnPosition(p)
    BY <2>1 DEF OnPosition, Away
  <2>3. Takers(p)' \subseteq Takers(p)
    BY DEF Takers
  <2> QED BY <2>2, <2>3
<1>3. AskedOfAPosition'
  BY <1>1, <1>2 DEF AskedOfAPosition
<1>4. PeaksCover'
  <2>1. ASSUME NEW r \in Request, req'[r].cmd = "take"
        PROVE  /\ req'[r].worker \in Worker
               /\ req'[r].phase = "rule" => Room(req'[r].row.capacity) <= peak'[req'[r].position]
    <3>1. PICK p \in Position :
            p = req'[r].position /\ Exists(p) /\ req'[r].worker \in Worker
      BY <1>1, <2>1 DEF AskedOfAPosition, PeaksCover
    <3>2. peak[p] <= peak'[p] /\ peak[p] \in Nat /\ peak'[p] \in Nat
      BY <3>1 DEF CrowdInv, WorkplaceTypeOK
    <3>3. ASSUME req'[r].phase = "rule"
          PROVE  Room(req'[r].row.capacity) <= peak[p]
      <4>1. CASE req'[r] = req[r]
        BY <1>1, <2>1, <3>1, <3>3, <4>1 DEF PeaksCover
      <4>2. CASE req'[r] # req[r]
        BY <2>1, <3>1, <4>2
      <4> QED BY <4>1, <4>2
    <3>4. Room(req'[r].row.capacity) \in Nat
      <4>1. req'[r].row.capacity \in (UNION {Limit[x] : x \in Position}) \cup {Null}
        BY DEF WorkplaceTypeOK, RequestType, RowType
      <4> QED BY <4>1, RoomIsNatural
    <3> QED BY <3>1, <3>2, <3>3, <3>4
  <2> QED BY <2>1 DEF PeaksCover, Room, Exists
<1>5. ASSUME NEW p \in Position
      PROVE  Within(OnPosition(p), Takers(p), peak[p])'
  <2>1. Within(OnPosition(p)', Takers(p)', peak'[p])
    <3>1. /\ Within(OnPosition(p), Takers(p), peak[p])
          /\ OnPosition(p) \in SUBSET Worker /\ Takers(p) \in SUBSET Request /\ peak[p] \in Nat
      BY <1>1, CrowdTyped DEF CrowdsWithin
    <3>2. peak'[p] \in Nat
      BY DEF WorkplaceTypeOK
    <3>3. CASE Exists(p)
      BY <1>2, <3>1, <3>2, <3>3, FewerAreWithin
    <3>4. CASE ~ Exists(p)
      <4>1. OnPosition(p) = {} /\ Takers(p) = {}
        BY <1>1, <3>4 DEF AskedOfAPosition, Takers, Decided
      <4> QED BY <1>2, <4>1 DEF Within
    <3> QED BY <3>3, <3>4
  <2> QED BY <2>1 DEF Within
<1>6. CrowdsWithin'
  BY <1>5 DEF CrowdsWithin
<1> QED BY <1>3, <1>4, <1>6 DEF CrowdInv

LEMMA DecideKeepsCrowd ==
  ASSUME CrowdInv, NEW r \in Request, Decide(r), WorkplaceTypeOK'
  PROVE  CrowdInv'
<1>1. WorkplaceTypeOK /\ AskedOfAPosition /\ PeaksCover /\ CrowdsWithin
  BY DEF CrowdInv
<1> DEFINE q == req[r]  room == Room(q.row.capacity)
<1>2. PICK p \in Position :
      /\ p = q.position /\ q.cmd = "take" /\ q.phase = "rule"
      /\ ~ Full(q.row.capacity, Occupancy(p))
      /\ room <= peak[p]
  <2>1. q.cmd = "take" /\ q.phase = "rule"
        /\ AssertEligible(q.worker, q.position, q.row, Occupancy(q.position), q.at)
    BY DEF Decide
  <2>2. ~ Full(q.row.capacity, Occupancy(q.position))
    BY <2>1 DEF AssertEligible, ResolveEligibility, Allowed
  <2> QED BY <1>1, <2>1, <2>2 DEF AskedOfAPosition, PeaksCover
<1>3. room \in Nat /\ OnPosition(p) \in SUBSET Worker /\ Takers(p) \in SUBSET Request
      /\ peak[p] \in Nat
  <2>1. q.row.capacity \in (UNION {Limit[x] : x \in Position}) \cup {Null}
    BY <1>1 DEF WorkplaceTypeOK, RequestType, RowType
  <2> QED BY <1>1, <1>2, <2>1, RoomIsNatural, CrowdTyped
<1>4. Occupancy(p) < room \/ room = Cardinality(Worker)
  BY <1>2, <1>3, Counted DEF Full, Room, Occupancy
<1>5. /\ UNCHANGED <<area, position, stands, peak>>
      /\ Decided(req'[r]) /\ req'[r].position = p /\ req'[r].worker = q.worker
      /\ req'[r].cmd = "take"
      /\ \A x \in Request : x # r => req'[x] = req[x]
  BY <1>1, <1>2 DEF Decide, WorkplaceTypeOK, RequestType, floor, Decided
<1>6. Takers(p)' = Takers(p) \cup {r} /\ r \notin Takers(p)
  BY <1>2, <1>5 DEF Takers, Decided
<1>7. \A x \in Position : OnPosition(x)' = OnPosition(x) /\ (x # p => Takers(x)' = Takers(x))
  BY <1>2, <1>5 DEF Takers, OnPosition, Decided
<1>8. Within(OnPosition(p), Takers(p) \cup {r}, peak[p])
  BY <1>2, <1>3, <1>4, <1>6, OneMoreTaker DEF Occupancy
<1>9. CrowdsWithin'
  BY <1>1, <1>2, <1>5, <1>6, <1>7, <1>8 DEF CrowdsWithin, Within
<1>10. AskedOfAPosition'
  BY <1>1, <1>2, <1>5, <1>7 DEF AskedOfAPosition, Exists
<1>11. PeaksCover'
  BY <1>1, <1>2, <1>5 DEF PeaksCover, Exists, Room, Decided
<1> QED BY <1>9, <1>10, <1>11 DEF CrowdInv

LEMMA OpenKeepsCrowd ==
  ASSUME CrowdInv, NEW r \in Request, OpenSession(r), WorkplaceTypeOK'
  PROVE  CrowdInv'
<1>1. WorkplaceTypeOK /\ AskedOfAPosition /\ PeaksCover /\ CrowdsWithin
  BY DEF CrowdInv
<1>2. PICK p \in Position, w \in Worker :
        /\ req[r].position = p /\ req[r].worker = w
        /\ r \in Takers(p) /\ w \notin OnPosition(p) /\ Exists(p)
  BY <1>1 DEF OpenSession, Pending, AskedOfAPosition, PeaksCover, Takers, Decided, OnPosition
<1>3. /\ UNCHANGED <<area, position, peak>>
      /\ stands'[w].position = p
      /\ \A x \in Worker : x # w => stands'[x] = stands[x]
      /\ req'[r].cmd = "none"
      /\ \A x \in Request : x # r => req'[x] = req[x]
  BY <1>1, <1>2 DEF OpenSession, Done, Idle, WorkplaceTypeOK
<1>4. OnPosition(p)' = OnPosition(p) \cup {w} /\ Takers(p)' = Takers(p) \ {r}
  BY <1>2, <1>3 DEF OnPosition, Takers, Decided
<1>5. \A x \in Position : x # p => OnPosition(x)' \subseteq OnPosition(x) /\ Takers(x)' = Takers(x)
  BY <1>2, <1>3 DEF OnPosition, Takers, Decided
<1>6. ASSUME NEW x \in Position
      PROVE  Within(OnPosition(x)', Takers(x)', peak[x])
  <2>1. /\ OnPosition(x) \in SUBSET Worker /\ Takers(x) \in SUBSET Request /\ peak[x] \in Nat
        /\ Within(OnPosition(x), Takers(x), peak[x])
    BY <1>1, CrowdTyped DEF CrowdsWithin
  <2>2. CASE x = p
    <3>1. Within(OnPosition(p) \cup {w}, Takers(p) \ {r}, peak[p])
      BY <1>2, <2>1, <2>2, TakerStands
    <3> QED BY <1>4, <2>2, <3>1
  <2>3. CASE x # p
    BY <1>5, <2>1, <2>3, FewerAreWithin
  <2> QED BY <2>2, <2>3
<1>7. CrowdsWithin'
  BY <1>3, <1>6 DEF CrowdsWithin, Within
<1>8. AskedOfAPosition'
  BY <1>1, <1>2, <1>3, <1>4, <1>5 DEF AskedOfAPosition, Exists
<1>9. PeaksCover'
  BY <1>1, <1>3 DEF PeaksCover, Exists, Room
<1> QED BY <1>7, <1>8, <1>9 DEF CrowdInv

LEMMA OfficeKeepsCrowd ==
  ASSUME CrowdInv, NEW r \in Request, OfficeStep(r), WorkplaceTypeOK'
  PROVE  CrowdInv'
<1> USE DEF CrowdInv
<1> DEFINE Starts(q) ==
      /\ req' = [req EXCEPT ![r] = q] /\ UNCHANGED stands /\ q.cmd # "take"
      /\ q.cmd \in {"move", "archivePosition"} => q.position \in Position /\ Exists(q.position)
<1>1. ASSUME NEW q, Starts(q), UNCHANGED <<position, peak>>
      PROVE  CrowdInv'
  <2>1. \A x \in Request : req'[x] # req[x] => x = r /\ req'[x] = q
    BY <1>1 DEF WorkplaceTypeOK
  <2>2. \A p \in Position : (Exists(p)' <=> Exists(p)) /\ peak[p] <= peak'[p]
    BY <1>1 DEF Exists, WorkplaceTypeOK
  <2>3. \A p \in Position : Exists(p)' => Room(position'[p].capacity) <= peak'[p]
    BY <1>1 DEF Exists, PeaksCover
  <2> QED BY <1>1, <2>1, <2>2, <2>3, QuietKeepsCrowd DEF Decided
<1>2. CASE \E a \in Area : CountPositions(r, a)
  <2>1. PICK a \in Area : CountPositions(r, a)
    BY <1>2
  <2> DEFINE q == [Idle EXCEPT !.cmd = "archiveArea", !.phase = "write", !.area = a]
  <2>2. Starts(q) /\ UNCHANGED <<position, peak>>
    BY <2>1 DEF CountPositions, Ask, Idle, floor
  <2> QED BY <1>1, <2>2
<1>3. ASSUME NEW p \in Position, NEW a \in Area, NEW cmd \in {"create", "move"}, NEW c,
             FindArea(r, cmd, p, a, c)
      PROVE  CrowdInv'
  <2> DEFINE q == [Idle EXCEPT !.cmd = cmd, !.phase = "write", !.position = p, !.area = a,
                               !.row.capacity = c]
  <2>1. q.cmd = cmd /\ q.position = p
    BY DEF Idle
  <2>2. Starts(q) /\ UNCHANGED <<position, peak>>
    BY <1>3, <2>1 DEF FindArea, Ask, floor, Exists
  <2> QED BY <1>1, <2>2
<1>4. CASE \E p \in Position : CountSessions(r, p)
  <2>1. PICK p \in Position : CountSessions(r, p)
    BY <1>4
  <2> DEFINE q == [Idle EXCEPT !.cmd = "archivePosition", !.phase = "write", !.position = p]
  <2>2. q.cmd = "archivePosition" /\ q.position = p
    BY DEF Idle
  <2>3. Starts(q) /\ UNCHANGED <<position, peak>>
    BY <2>1, <2>2 DEF CountSessions, Ask, floor, Exists
  <2> QED BY <1>1, <2>3
<1>5. Idle.cmd = "none"
  BY DEF Idle
<1>6. CASE ArchiveArea(r)
  <2>1. Starts(Idle) /\ UNCHANGED <<position, peak>>
    BY <1>5, <1>6 DEF ArchiveArea, Done
  <2> QED BY <1>1, <2>1
<1>7. ASSUME NEW p \in Position, Starts(Idle),
             position'[p].status # "NONE",
             \A x \in Position : x # p => position'[x] = position[x] /\ peak'[x] = peak[x],
             Exists(p) => peak[p] <= peak'[p],
             Room(position'[p].capacity) <= peak'[p]
      PROVE  CrowdInv'
  <2>1. \A x \in Request : req'[x] # req[x] => x = r /\ req'[x] = Idle
    BY <1>7 DEF WorkplaceTypeOK
  <2>2. \A x \in Position : Exists(x) => Exists(x)' /\ peak[x] <= peak'[x]
    BY <1>7 DEF Exists, WorkplaceTypeOK
  <2>3. \A x \in Position : Exists(x)' => Room(position'[x].capacity) <= peak'[x]
    BY <1>7 DEF Exists, PeaksCover
  <2> QED BY <1>5, <1>7, <2>1, <2>2, <2>3, QuietKeepsCrowd DEF Decided
<1>8. CASE CreatePosition(r)
  <2>1. PICK p \in Position \cup {Nowhere} : p = req[r].position
    BY DEF WorkplaceTypeOK, RequestType
  <2>2. CASE p = Nowhere
    <3>1. UNCHANGED <<position, peak>> /\ Starts(Idle)
      BY <1>5, <1>8, <2>1, <2>2, WorkplaceAssumption DEF CreatePosition, Done, WorkplaceTypeOK
    <3> QED BY <1>1, <3>1
  <2>3. CASE p \in Position
    <3>1. /\ ~ Exists(p)
          /\ position'[p].status = "ACTIVE" /\ position'[p].capacity = req[r].row.capacity
          /\ peak'[p] = Room(req[r].row.capacity)
      BY <1>8, <2>1, <2>3 DEF CreatePosition, WorkplaceTypeOK, Exists
    <3>2. Room(position'[p].capacity) \in Nat
      BY <2>3, CrowdTyped, RoomIsNatural DEF WorkplaceTypeOK, RowType
    <3>3. \A x \in Position : x # p => position'[x] = position[x] /\ peak'[x] = peak[x]
      BY <1>8, <2>1, <2>3 DEF CreatePosition, WorkplaceTypeOK
    <3>4. Starts(Idle)
      BY <1>5, <1>8 DEF CreatePosition, Done
    <3> QED BY <1>7, <2>3, <3>1, <3>2, <3>3, <3>4
  <2> QED BY <2>2, <2>3
<1>9. CASE MovePosition(r) \/ ArchivePosition(r)
  <2>1. PICK p \in Position : p = req[r].position /\ Exists(p)
    BY <1>9 DEF MovePosition, ArchivePosition, Pending, AskedOfAPosition
  <2>2. /\ position'[p].status # "NONE" /\ position'[p].capacity = position[p].capacity
        /\ UNCHANGED peak
    BY <1>9, <2>1 DEF MovePosition, ArchivePosition, WorkplaceTypeOK, RowType, Exists
  <2>3. \A x \in Position : x # p => position'[x] = position[x]
    BY <1>9, <2>1 DEF MovePosition, ArchivePosition, WorkplaceTypeOK
  <2>4. Starts(Idle)
    BY <1>5, <1>9 DEF MovePosition, ArchivePosition, Done
  <2>5. Room(position[p].capacity) <= peak[p] /\ peak[p] \in Nat
    BY <2>1 DEF PeaksCover, WorkplaceTypeOK
  <2> QED BY <1>7, <2>1, <2>2, <2>3, <2>4, <2>5
<1> QED BY <1>2, <1>3, <1>4, <1>6, <1>8, <1>9 DEF OfficeStep

LEMMA ReadRuleKeepsCrowd ==
  ASSUME CrowdInv, NEW r \in Request, NEW w \in Worker, NEW p \in Position, NEW at,
         ReadRule(r, w, p, at), WorkplaceTypeOK'
  PROVE  CrowdInv'
<1> DEFINE q == [Idle EXCEPT !.cmd = "take", !.phase = "rule", !.worker = w, !.position = p,
                             !.row = position[p], !.at = at]
<1>1. /\ UNCHANGED <<position, peak, stands>> /\ Exists(p)
      /\ \A x \in Request : req'[x] # req[x] => x = r /\ req'[x] = q
  BY DEF ReadRule, Ask, floor, CrowdInv, WorkplaceTypeOK, Exists
<1>2. /\ ~ Decided(q) /\ q.worker = w /\ q.position = p /\ q.row = position[p]
  BY DEF Decided, Idle
<1>3. \A x \in Position : (Exists(x)' <=> Exists(x)) /\ peak[x] <= peak'[x]
  BY <1>1 DEF Exists, CrowdInv, WorkplaceTypeOK
<1>4. \A x \in Position : Exists(x)' => Room(position'[x].capacity) <= peak'[x]
  BY <1>1 DEF Exists, PeaksCover, CrowdInv
<1>5. Room(q.row.capacity) <= peak[q.position]
  BY <1>1, <1>2 DEF PeaksCover, CrowdInv
<1> QED BY <1>1, <1>2, <1>3, <1>4, <1>5, QuietKeepsCrowd

LEMMA SetCapacityKeepsCrowd ==
  ASSUME CrowdInv, NEW p \in Position, NEW c \in Limit[p], SetCapacity(p, c), WorkplaceTypeOK'
  PROVE  CrowdInv'
<1>1. c \in (UNION {Limit[x] : x \in Position}) \cup {Null}
  OBVIOUS
<1>2. Room(c) \in Nat /\ \A x \in Position : peak[x] \in Nat
  BY <1>1, RoomIsNatural DEF CrowdInv, WorkplaceTypeOK
<1>3. /\ UNCHANGED <<stands, req>> /\ Exists(p)
      /\ position'[p].status = position[p].status /\ position'[p].capacity = c
      /\ Room(c) <= peak'[p] /\ peak[p] <= peak'[p]
      /\ \A x \in Position : x # p => position'[x] = position[x] /\ peak'[x] = peak[x]
  BY <1>2 DEF SetCapacity, CrowdInv, WorkplaceTypeOK, RowType, Exists
<1>4. \A x \in Position : (Exists(x)' <=> Exists(x)) /\ peak[x] <= peak'[x]
  BY <1>2, <1>3 DEF Exists
<1>5. \A x \in Position : Exists(x)' => Room(position'[x].capacity) <= peak'[x]
  BY <1>3 DEF Exists, PeaksCover, CrowdInv
<1> QED BY <1>3, <1>4, <1>5, QuietKeepsCrowd

LEMMA NextKeepsCrowd ==
  ASSUME CrowdInv, [WorkplaceNext]_workplaceVars
  PROVE  CrowdInv'
<1>1. WorkplaceTypeOK'
  BY NextTyped DEF CrowdInv
<1>2. ASSUME UNCHANGED peak, \A p \in Position : Exists(p)' <=> Exists(p),
             \A p \in Position : position'[p].capacity = position[p].capacity,
             \A w \in Worker : stands'[w] = stands[w] \/ stands'[w] = Away,
             \A r \in Request : req'[r] = req[r] \/ req'[r] = Idle
      PROVE  CrowdInv'
  <2>1. \A p \in Position : peak[p] <= peak'[p]
    BY <1>2 DEF CrowdInv, WorkplaceTypeOK
  <2>2. \A p \in Position : Exists(p)' => Room(position'[p].capacity) <= peak'[p]
    BY <1>2 DEF PeaksCover, CrowdInv
  <2>3. Idle.cmd = "none"
    BY DEF Idle
  <2> QED BY <1>1, <1>2, <2>1, <2>2, <2>3, QuietKeepsCrowd DEF Decided
<1>3. ASSUME NEW r \in Request, WorkerStep(r)
      PROVE  CrowdInv'
  BY <1>1, <1>3, ReadRuleKeepsCrowd, DecideKeepsCrowd, OpenKeepsCrowd DEF WorkerStep
<1>4. ASSUME NEW r \in Request, GiveUp(r)
      PROVE  CrowdInv'
  BY <1>2, <1>4 DEF GiveUp, Done, floor, CrowdInv, WorkplaceTypeOK, Exists
<1>5. ASSUME NEW w \in Worker, Leave(w)
      PROVE  CrowdInv'
  BY <1>2, <1>5 DEF Leave, CrowdInv, WorkplaceTypeOK, Exists
<1>6. CASE Tick
  BY <1>2, <1>6 DEF Tick, floor, Exists
<1>7. ASSUME NEW a \in Area, CreateArea(a) \/ ReactivateArea(a)
      PROVE  CrowdInv'
  BY <1>2, <1>7 DEF CreateArea, ReactivateArea, Exists
<1>8. ASSUME NEW p \in Position, ReactivatePosition(p)
      PROVE  CrowdInv'
  BY <1>2, <1>8 DEF ReactivatePosition, CrowdInv, WorkplaceTypeOK, RowType, Exists
<1>9. CASE UNCHANGED workplaceVars
  BY <1>2, <1>9 DEF workplaceVars, Exists
<1> QED BY <1>1, <1>3, <1>4, <1>5, <1>6, <1>7, <1>8, <1>9, OfficeKeepsCrowd,
           SetCapacityKeepsCrowd DEF WorkplaceNext

(* However many requests decide on one count before any of them is written, a     *)
(* position never holds more people than the most it ever allowed and the other   *)
(* requests that can be in flight.                                             *)
THEOREM OverbookingIsBounded == WorkplaceSpec => []OverbookingBounded
<1>1. WorkplaceInit => CrowdInv
  <2> SUFFICES ASSUME WorkplaceInit PROVE CrowdInv
    OBVIOUS
  <2>1. WorkplaceTypeOK
    BY WorkplaceAssumption, IdleTyped
    DEF WorkplaceInit, WorkplaceTypeOK, NoRow, RowType, Away
  <2>2. \A p \in Position : OnPosition(p) = {} /\ Takers(p) = {} /\ ~ Exists(p)
    BY WorkplaceAssumption
    DEF WorkplaceInit, OnPosition, Takers, Decided, Idle, Exists, NoRow, Away
  <2>3. AskedOfAPosition /\ PeaksCover
    BY <2>2 DEF WorkplaceInit, AskedOfAPosition, PeaksCover, Idle
  <2>4. CrowdsWithin
    BY <2>2 DEF CrowdsWithin, Within
  <2> QED BY <2>1, <2>3, <2>4 DEF CrowdInv
<1>2. CrowdInv => OverbookingBounded
  BY CrowdTyped, WithinIsBounded DEF CrowdInv, CrowdsWithin, OverbookingBounded, Occupancy
<1> QED BY <1>1, <1>2, NextKeepsCrowd, PTL DEF WorkplaceSpec

-----------------------------------------------------------------------------
(* Organization.  A row of the audit trail is written last, from what the       *)
(* request remembers, so the strengthening says which of its effects a request   *)
(* in a phase has made.  Effects are only ever added.                         *)

ChangeState ==
  [cmd: {"none", "upload", "select", "delete", "rename"},
   phase: {"new", "over", "create", "select", "delete", "rename", "audit"},
   file: File \cup {Nothing}, logo: LogoId \cup {NoLogo},
   activate: BOOLEAN, reused: BOOLEAN,
   before: Name \cup {Nothing}, after: Name \cup {Nothing}]

Made(c, q, es) ==
  /\ q.phase = "create" => q.cmd = "upload" /\ ~q.reused
  /\ q.phase = "select" => q.cmd \in {"upload", "select"}
  /\ q.phase \in {"delete", "rename"} => q.cmd = q.phase
  /\ q.phase = "audit" => q.cmd # "none"
  /\ q.phase \in {"select", "audit"} /\ q.cmd = "upload" /\ ~q.reused =>
       Effect(c, "stored", q.logo) \in es
  /\ q.phase = "audit" =>
       /\ q.cmd = "upload" /\ q.activate => Effect(c, "chosen", q.logo) \in es
       /\ q.cmd = "select" => Effect(c, "chosen", q.logo) \in es
       /\ q.cmd = "delete" => Effect(c, "deleted", q.logo) \in es
       /\ q.cmd = "rename" => Effect(c, "renamed", q.after) \in es

(* What a row of the audit trail tells. *)
Told(row, es) ==
  /\ row.action \in {"logo_uploaded", "logo_reused", "logo_selected", "logo_deleted",
                     "organization.updated"}
  /\ row.action = "logo_uploaded" => Effect(row.by, "stored", row.logo) \in es
  /\ row.action \in {"logo_uploaded", "logo_reused"} /\ row.activated =>
       Effect(row.by, "chosen", row.logo) \in es
  /\ row.action = "logo_selected" => Effect(row.by, "chosen", row.logo) \in es
  /\ row.action = "logo_deleted" => Effect(row.by, "deleted", row.logo) \in es
  /\ row.action = "organization.updated" => Effect(row.by, "renamed", row.after) \in es

OrganizationInv ==
  /\ creq \in [Change -> ChangeState]
  /\ name \in Name /\ nextId \in Nat \ {0} /\ DOMAIN logos \subseteq LogoId
  /\ \A c \in Change : Made(c, creq[c], effects)
  /\ \A row \in audit : Told(row, effects)

LEMMA FreshTyped ==
  /\ Fresh \in ChangeState /\ Over \in ChangeState
  /\ \A c, es : Made(c, Fresh, es) /\ Made(c, Over, es)
<1>1. Fresh \in ChangeState /\ Over \in ChangeState
  BY DEF Fresh, Over, ChangeState
<1>2. ASSUME NEW c, NEW es PROVE Made(c, Fresh, es) /\ Made(c, Over, es)
  BY DEF Made, Fresh, Over
<1> QED BY <1>1, <1>2

(* What is so of a request stays so while others add to the effects.            *)
LEMMA OthersMade ==
  ASSUME creq \in [Change -> ChangeState], \A c \in Change : Made(c, creq[c], effects),
         effects \subseteq effects',
         NEW c \in Change, NEW q \in ChangeState, Goes(c, q), Made(c, q, effects')
  PROVE  /\ creq' \in [Change -> ChangeState]
         /\ \A d \in Change : Made(d, creq'[d], effects')
<1>1. creq' \in [Change -> ChangeState] /\ creq'[c] = q
      /\ \A d \in Change \ {c} : creq'[d] = creq[d]
  BY DEF Goes
<1>2. ASSUME NEW d \in Change \ {c} PROVE Made(d, creq[d], effects')
  <2>1. Made(d, creq[d], effects)
    OBVIOUS
  <2> QED BY <2>1 DEF Made
<1> QED BY <1>1, <1>2

LEMMA StillTold ==
  ASSUME NEW row, NEW es, NEW more, es \subseteq more, Told(row, es)
  PROVE  Told(row, more)
BY DEF Told

LEMMA OrganizationReads ==
  ASSUME OrganizationInv, NEW c \in Change, NEW q \in ChangeState, Made(c, q, effects),
         Goes(c, q), UNCHANGED <<rows, effects, settingsVars>>
  PROVE  OrganizationInv'
<1>1. UNCHANGED <<name, logos, audit, nextId, effects>>
  BY DEF rows
<1>2. /\ creq' \in [Change -> ChangeState]
      /\ \A d \in Change : Made(d, creq'[d], effects')
  BY <1>1, OthersMade DEF OrganizationInv
<1> QED BY <1>1, <1>2 DEF OrganizationInv

LEMMA OrganizationWrites ==
  ASSUME OrganizationInv, NEW c \in Change, NEW q \in ChangeState, Made(c, q, effects'),
         Goes(c, q), effects \subseteq effects', UNCHANGED audit,
         name' \in Name, nextId' \in Nat \ {0}, DOMAIN logos' \subseteq LogoId
  PROVE  OrganizationInv'
<1>1. /\ creq' \in [Change -> ChangeState]
      /\ \A d \in Change : Made(d, creq'[d], effects')
  BY OthersMade DEF OrganizationInv
<1>2. \A row \in audit' : Told(row, effects')
  BY StillTold DEF OrganizationInv
<1> QED BY <1>1, <1>2 DEF OrganizationInv

LEMMA OrganizationBegins ==
  ASSUME OrganizationInv, NEW c \in Change, Begin(c)
  PROVE  OrganizationInv'
<1>1. CASE \E f \in File, activate \in BOOLEAN : FindByChecksum(c, f, activate)
  <2>1. PICK f \in File, activate \in BOOLEAN : FindByChecksum(c, f, activate)
    BY <1>1
  <2>2. PICK b : b = [Fresh EXCEPT !.cmd = "upload", !.file = f, !.activate = activate]
    OBVIOUS
  <2>3. PICK q : /\ Read(c, q)
                 /\ \/ q = [b EXCEPT !.phase = "create"]
                    \/ \E l \in Stored(f) :
                         q = [b EXCEPT !.phase = IF activate THEN "select" ELSE "audit",
                                       !.logo = l, !.reused = TRUE]
    BY <2>1, <2>2 DEF FindByChecksum
  <2>4. /\ b \in ChangeState /\ b.cmd = "upload" /\ b.activate = activate /\ ~b.reused
    BY <2>2 DEF Fresh, ChangeState
  <2>5. Stored(f) \subseteq LogoId
    BY DEF Stored, OrganizationInv
  <2>6. /\ q \in ChangeState /\ q.cmd = "upload"
        /\ \/ q.phase = "create" /\ ~q.reused
           \/ q.phase = "select" /\ q.reused
           \/ q.phase = "audit" /\ q.reused /\ ~q.activate
    BY <2>3, <2>4, <2>5 DEF ChangeState
  <2>7. Made(c, q, effects)
    BY <2>6 DEF Made
  <2> QED BY <2>3, <2>6, <2>7, OrganizationReads DEF Read
<1>2. CASE \E l \in LogoId \cup {NoLogo} : FindOwned(c, l)
  <2>1. PICK l \in LogoId \cup {NoLogo} : FindOwned(c, l)
    BY <1>2
  <2>2. PICK q : q = [Fresh EXCEPT !.cmd = "select", !.phase = "select", !.logo = l]
    OBVIOUS
  <2>3. q \in ChangeState /\ Made(c, q, effects)
    BY <2>2 DEF Fresh, ChangeState, Made
  <2> QED BY <2>1, <2>2, <2>3, OrganizationReads DEF FindOwned, Read
<1>3. CASE \E l \in LogoId : FindToDelete(c, l)
  <2>1. PICK l \in LogoId : FindToDelete(c, l)
    BY <1>3
  <2>2. PICK q : q = [Fresh EXCEPT !.cmd = "delete", !.phase = "delete", !.logo = l]
    OBVIOUS
  <2>3. q \in ChangeState /\ Made(c, q, effects)
    BY <2>2 DEF Fresh, ChangeState, Made
  <2> QED BY <2>1, <2>2, <2>3, OrganizationReads DEF FindToDelete, Read
<1>4. CASE \E n \in Name \cup {Nothing} : ReadName(c, n)
  <2>1. PICK n \in Name \cup {Nothing} : ReadName(c, n)
    BY <1>4
  <2>2. PICK q : q = [Fresh EXCEPT !.cmd = "rename", !.phase = "rename", !.before = name,
                                   !.after = n]
    OBVIOUS
  <2>3. q \in ChangeState /\ Made(c, q, effects)
    BY <2>2 DEF Fresh, ChangeState, Made, OrganizationInv
  <2> QED BY <2>1, <2>2, <2>3, OrganizationReads DEF ReadName, Read
<1> QED BY <1>1, <1>2, <1>3, <1>4 DEF Begin

LEMMA OrganizationGoesOn ==
  ASSUME OrganizationInv, NEW c \in Change, GoOn(c)
  PROVE  OrganizationInv'
<1>1. PICK q \in ChangeState : q = creq[c]
  BY DEF OrganizationInv
<1>2. Made(c, q, effects) /\ nextId \in Nat \ {0} /\ name \in Name /\ DOMAIN logos \subseteq LogoId
  BY <1>1 DEF OrganizationInv
<1>3. CASE CreateLogo(c)
  <2>1. PICK v : v = [q EXCEPT !.phase = IF q.activate THEN "select" ELSE "audit", !.logo = nextId]
    OBVIOUS
  <2>2. /\ q.phase = "create" /\ nextId <= MaxLogos /\ Goes(c, v)
        /\ effects' = effects \cup {Effect(c, "stored", nextId)}
        /\ nextId' = nextId + 1 /\ DOMAIN logos' = DOMAIN logos \cup {nextId}
        /\ UNCHANGED <<name, audit>>
    BY <1>1, <1>3, <2>1 DEF CreateLogo, At
  <2>3. DOMAIN logos' \subseteq LogoId /\ nextId \in LogoId /\ nextId' \in Nat \ {0}
    <3>1. nextId >= 1
      BY DEF OrganizationInv
    <3> QED BY <1>2, <2>2, <3>1, OrganizationAssumption DEF LogoId
  <2>4. /\ v \in ChangeState /\ v.cmd = "upload" /\ ~v.reused /\ v.logo = nextId
        /\ v.activate = q.activate
        /\ v.phase = IF q.activate THEN "select" ELSE "audit"
    BY <1>2, <2>1, <2>2, <2>3 DEF Made, ChangeState
  <2>5. Made(c, v, effects')
    BY <2>2, <2>4 DEF Made
  <2> QED BY <1>2, <2>2, <2>3, <2>4, <2>5, OrganizationWrites
<1>4. CASE SelectLogo(c)
  <2>1. PICK v : v = [q EXCEPT !.phase = "audit"]
    OBVIOUS
  <2>2. /\ q.phase = "select" /\ Goes(c, v)
        /\ effects' = effects \cup {Effect(c, "chosen", q.logo)}
        /\ UNCHANGED <<name, logos, audit, nextId>>
    BY <1>1, <1>4, <2>1 DEF SelectLogo, At
  <2>3. /\ v \in ChangeState /\ v.cmd = q.cmd /\ v.reused = q.reused /\ v.logo = q.logo
        /\ v.phase = "audit" /\ q.cmd \in {"upload", "select"}
    BY <1>2, <2>1, <2>2 DEF Made, ChangeState
  <2>4. Made(c, v, effects')
    BY <1>2, <2>2, <2>3 DEF Made
  <2> QED BY <1>2, <2>2, <2>3, <2>4, OrganizationWrites
<1>5. CASE DeleteLogo(c)
  <2>1. PICK v : v = [q EXCEPT !.phase = "audit"]
    OBVIOUS
  <2>2. /\ q.phase = "delete" /\ Goes(c, v)
        /\ effects' = effects \cup {Effect(c, "deleted", q.logo)}
        /\ DOMAIN logos' = DOMAIN logos \ {q.logo}
        /\ UNCHANGED <<name, audit, nextId>>
    BY <1>1, <1>5, <2>1 DEF DeleteLogo, At
  <2>3. /\ v \in ChangeState /\ v.cmd = "delete" /\ v.logo = q.logo /\ v.phase = "audit"
    BY <1>2, <2>1, <2>2 DEF Made, ChangeState
  <2>4. Made(c, v, effects')
    BY <2>2, <2>3 DEF Made
  <2> QED BY <1>2, <2>2, <2>3, <2>4, OrganizationWrites
<1>6. CASE Rename(c)
  <2>1. PICK named : named = IF q.after = Nothing THEN name ELSE q.after
    OBVIOUS
  <2>2. PICK v : v = [q EXCEPT !.phase = "audit", !.after = named]
    OBVIOUS
  <2>3. /\ q.phase = "rename" /\ Goes(c, v)
        /\ effects' = effects \cup {Effect(c, "renamed", named)}
        /\ name' = named
        /\ UNCHANGED <<logos, audit, nextId>>
    BY <1>1, <1>6, <2>1, <2>2 DEF Rename, At
  <2>4. named \in Name
    BY <1>1, <1>2, <2>1 DEF ChangeState
  <2>5. /\ v \in ChangeState /\ v.cmd = "rename" /\ v.after = named /\ v.phase = "audit"
    BY <1>2, <2>2, <2>3, <2>4 DEF Made, ChangeState
  <2>6. Made(c, v, effects')
    BY <2>3, <2>5 DEF Made
  <2> QED BY <1>2, <2>3, <2>4, <2>5, <2>6, OrganizationWrites
<1>7. CASE RecordAudit(c)
  <2>1. /\ q.phase = "audit" /\ audit' = audit \cup {AuditRow(c)} /\ Goes(c, Over)
        /\ UNCHANGED <<name, logos, chosen, nextId, effects>>
    BY <1>1, <1>7 DEF RecordAudit, At
  <2>2. PICK row : row = AuditRow(c)
    OBVIOUS
  <2>3. /\ row.by = c /\ row.after = q.after /\ row.logo = q.logo /\ row.activated = q.activate
        /\ q.cmd = "upload" /\ q.reused => row.action = "logo_reused"
        /\ q.cmd = "upload" /\ ~q.reused => row.action = "logo_uploaded"
        /\ q.cmd = "select" => row.action = "logo_selected"
        /\ q.cmd = "delete" => row.action = "logo_deleted"
        /\ q.cmd = "rename" => row.action = "organization.updated"
    BY <1>1, <2>2 DEF AuditRow
  <2>4. q.cmd \in {"upload", "select", "delete", "rename"}
    BY <1>2, <2>1 DEF Made, ChangeState
  <2>5. Told(row, effects)
    BY <1>2, <2>1, <2>3, <2>4 DEF Told, Made
  <2>6. \A r \in audit' : Told(r, effects')
    BY <2>1, <2>2, <2>5 DEF OrganizationInv
  <2>7. /\ creq' \in [Change -> ChangeState]
        /\ \A d \in Change : Made(d, creq'[d], effects')
    BY <2>1, FreshTyped, OthersMade DEF OrganizationInv
  <2> QED BY <2>1, <2>6, <2>7 DEF OrganizationInv
<1>8. CASE Stop(c)
  BY <1>8, FreshTyped, OrganizationReads DEF Stop
<1> QED BY <1>3, <1>4, <1>5, <1>6, <1>7, <1>8 DEF GoOn

LEMMA OrganizationInitInv == OrganizationInit => OrganizationInv
<1> SUFFICES ASSUME OrganizationInit PROVE OrganizationInv
  OBVIOUS
<1>1. DOMAIN logos = {}
  BY DEF OrganizationInit
<1> QED BY <1>1, FreshTyped DEF OrganizationInit, OrganizationInv

LEMMA AlwaysOrganized == OrganizationSpec => []OrganizationInv
<1>1. OrganizationInv /\ [OrganizationNext]_organizationVars => OrganizationInv'
  <2> SUFFICES ASSUME OrganizationInv, [OrganizationNext]_organizationVars
               PROVE  OrganizationInv'
    OBVIOUS
  <2>1. CASE UNCHANGED organizationVars
    BY <2>1 DEF organizationVars, requestVars, rows, OrganizationInv
  <2>2. CASE SettingsNext
    <3>1. UNCHANGED requestVars
      BY <2>2 DEF SettingsNext, OpenForm, LeaveForm, EditField, SaveForm
    <3> QED BY <3>1 DEF requestVars, rows, OrganizationInv
  <2> QED BY <2>1, <2>2, OrganizationBegins, OrganizationGoesOn DEF OrganizationNext, RequestNext
<1> QED BY <1>1, OrganizationInitInv, PTL DEF OrganizationSpec

(* However many administrators' requests interleave, and whatever stops halfway, the  *)
(* audit trail tells of no upload, choice, deletion or rename that was not made.     *)
THEOREM AuditIsTrue == OrganizationSpec => []AuditNeverInvents
<1>1. OrganizationInv => AuditNeverInvents
  BY DEF OrganizationInv, AuditNeverInvents, Told
<1> QED BY <1>1, AlwaysOrganized, PTL

(* What a form shows of a setting nobody edited in it is what it was opened on.         *)
FormRow == [Field -> Value \cup {Cleared}]
FormState == [opened: FormRow, fields: FormRow, edited: SUBSET Field]
Faithful(form) == \A f \in OnForm : f \notin form.edited => form.fields[f] = form.opened[f]

SettingsInv ==
  /\ DOMAIN forms = Admin /\ PresentSettings \in FormRow
  /\ \A a \in Admin : forms[a] # NoForm => forms[a] \in FormState /\ Faithful(forms[a])

LEMMA FormGoes ==
  ASSUME SettingsInv, NEW a \in Admin, NEW form, forms' = [forms EXCEPT ![a] = form],
         PresentSettings' \in FormRow,
         form # NoForm => form \in FormState /\ Faithful(form)
  PROVE  SettingsInv'
<1>1. DOMAIN forms' = Admin /\ forms'[a] = form /\ \A b \in Admin \ {a} : forms'[b] = forms[b]
  BY DEF SettingsInv
<1>2. ASSUME NEW b \in Admin, forms'[b] # NoForm PROVE forms'[b] \in FormState /\ Faithful(forms'[b])
  BY <1>1, <1>2 DEF SettingsInv
<1> QED BY <1>1, <1>2 DEF SettingsInv, Faithful

LEMMA FormsKeep ==
  ASSUME SettingsInv, NEW a \in Admin,
         \/ OpenForm(a) \/ LeaveForm(a)
         \/ \E f \in OnForm, v \in Value \cup {Cleared} : EditField(a, f, v)
  PROVE  SettingsInv' /\ UNCHANGED settings
<1>1. UNCHANGED settings /\ PresentSettings' \in FormRow
  BY DEF OpenForm, LeaveForm, EditField, SettingsInv, PresentSettings
<1>2. CASE OpenForm(a)
  <2>1. PICK form : form = [opened |-> PresentSettings, fields |-> PresentSettings, edited |-> {}]
    OBVIOUS
  <2>2. forms' = [forms EXCEPT ![a] = form]
    BY <1>2, <2>1 DEF OpenForm
  <2>3. form \in FormState /\ Faithful(form)
    BY <2>1 DEF SettingsInv, FormState, Faithful
  <2> QED BY <1>1, <2>2, <2>3, FormGoes
<1>3. CASE LeaveForm(a)
  BY <1>1, <1>3, FormGoes DEF LeaveForm
<1>4. CASE \E f \in OnForm, v \in Value \cup {Cleared} : EditField(a, f, v)
  <2>1. PICK f \in OnForm, v \in Value \cup {Cleared} : EditField(a, f, v)
    BY <1>4
  <2>2. PICK old \in FormState : old = forms[a] /\ Faithful(old)
    BY <2>1 DEF EditField, SettingsInv
  <2>3. PICK row : row = [old.fields EXCEPT ![f] = v]
    OBVIOUS
  <2>4. row \in FormRow /\ \A g \in Field \ {f} : row[g] = old.fields[g]
    BY <2>3 DEF FormState, FormRow
  <2>5. PICK form : form = [opened |-> old.opened, fields |-> row, edited |-> old.edited \cup {f}]
    OBVIOUS
  <2>6. forms' = [forms EXCEPT ![a] = form]
    BY <2>1, <2>2, <2>3, <2>5 DEF EditField
  <2>7. form \in FormState
    BY <2>4, <2>5, OrganizationAssumption DEF FormState
  <2>8. Faithful(form)
    BY <2>2, <2>4, <2>5, OrganizationAssumption DEF Faithful
  <2> QED BY <1>1, <2>6, <2>7, <2>8, FormGoes
<1> QED BY <1>1, <1>2, <1>3, <1>4

LEMMA FormSaves ==
  ASSUME SettingsInv, NEW a \in Admin, SaveForm(a)
  PROVE  /\ SettingsInv'
         /\ \A f \in Field : PresentSettings'[f] # PresentSettings[f] =>
              /\ forms[a] # NoForm /\ f \in OnForm
              /\ PresentSettings'[f] = forms[a].fields[f]
              /\ f \notin forms[a].edited => PresentSettings'[f] = forms[a].opened[f]
<1>1. PICK old \in FormState : old = forms[a] /\ Faithful(old) /\ forms[a] # NoForm
  BY DEF SaveForm, SettingsInv
<1>2. PICK row : row = [f \in Field |-> IF f \in OnForm THEN old.fields[f] ELSE PresentSettings[f]]
  OBVIOUS
<1>3. row \in FormRow
  BY <1>1, <1>2 DEF SettingsInv, FormState, FormRow
<1>4. settings' = row
  BY <1>1, <1>2, OrganizationAssumption DEF SaveForm, DefinedOnly, Submitted
<1>5. PresentSettings' = row
  BY <1>3, <1>4, OrganizationAssumption DEF PresentSettings, FormRow
<1>6. SettingsInv'
  <2>1. CASE UNCHANGED forms
    BY <1>3, <1>5, <2>1 DEF SettingsInv, Faithful
  <2>2. CASE forms' = [forms EXCEPT ![a] = [opened |-> settings', fields |-> forms[a].fields,
                                            edited |-> {}]]
    <3>1. PICK form : form = [opened |-> row, fields |-> old.fields, edited |-> {}]
      OBVIOUS
    <3>2. forms' = [forms EXCEPT ![a] = form]
      BY <1>1, <1>4, <2>2, <3>1
    <3>3. form \in FormState
      BY <1>3, <3>1 DEF FormState
    <3>4. Faithful(form)
      BY <1>2, <3>1, OrganizationAssumption DEF Faithful
    <3> QED BY <1>3, <1>5, <3>2, <3>3, <3>4, FormGoes
  <2> QED BY <2>1, <2>2 DEF SaveForm
<1>7. ASSUME NEW f \in Field, row[f] # PresentSettings[f]
      PROVE  /\ f \in OnForm /\ row[f] = old.fields[f]
             /\ f \notin old.edited => row[f] = old.opened[f]
  BY <1>1, <1>2, <1>7 DEF Faithful
<1> QED BY <1>1, <1>5, <1>6, <1>7

(* However many administrators save the settings form beside each other: a save changes no   *)
(* setting the form does not show, and one nobody edited in it only back to what the form      *)
(* was opened on.                                                                *)
THEOREM SavesUndoAtMost == OrganizationSpec => SavesOnlyUndo
<1>1. OrganizationInit => SettingsInv
  <2> SUFFICES ASSUME OrganizationInit PROVE SettingsInv
    OBVIOUS
  <2>1. PresentSettings \in FormRow
    BY OrganizationAssumption DEF OrganizationInit, PresentSettings, SettingsRow, FormRow
  <2> QED BY <2>1 DEF OrganizationInit, SettingsInv
<1>2. SettingsInv /\ [OrganizationNext]_organizationVars => SettingsInv'
  <2> SUFFICES ASSUME SettingsInv, [OrganizationNext]_organizationVars PROVE SettingsInv'
    OBVIOUS
  <2>1. CASE UNCHANGED settingsVars
    BY <2>1 DEF settingsVars, SettingsInv, PresentSettings, Faithful
  <2>2. CASE SettingsNext
    BY <2>2, FormsKeep, FormSaves DEF SettingsNext
  <2>3. CASE RequestNext
    <3>1. UNCHANGED settingsVars
      BY <2>3 DEF RequestNext, Begin, GoOn, FindByChecksum, FindOwned, FindToDelete, ReadName, Read,
                  CreateLogo, SelectLogo, DeleteLogo, Rename, RecordAudit, Stop
    <3> QED BY <2>1, <3>1
  <2> QED BY <2>1, <2>2, <2>3 DEF OrganizationNext, organizationVars
<1>3. SettingsInv /\ [OrganizationNext]_organizationVars =>
        [\A f \in Field : PresentSettings'[f] # PresentSettings[f] =>
           \E a \in Admin :
             /\ forms[a] # NoForm /\ f \in OnForm
             /\ PresentSettings'[f] = forms[a].fields[f]
             /\ f \notin forms[a].edited => PresentSettings'[f] = forms[a].opened[f]]_settings
  <2> SUFFICES ASSUME SettingsInv, [OrganizationNext]_organizationVars, settings' # settings,
                      NEW f \in Field, PresentSettings'[f] # PresentSettings[f]
               PROVE  \E a \in Admin :
                        /\ forms[a] # NoForm /\ f \in OnForm
                        /\ PresentSettings'[f] = forms[a].fields[f]
                        /\ f \notin forms[a].edited => PresentSettings'[f] = forms[a].opened[f]
    OBVIOUS
  <2>1. PICK a \in Admin : SaveForm(a)
    <3>1. ~ UNCHANGED settingsVars
      BY DEF settingsVars
    <3>2. ~ RequestNext
      BY <3>1 DEF RequestNext, Begin, GoOn, FindByChecksum, FindOwned, FindToDelete, ReadName, Read,
                  CreateLogo, SelectLogo, DeleteLogo, Rename, RecordAudit, Stop
    <3>3. SettingsNext
      BY <3>1, <3>2 DEF OrganizationNext, organizationVars
    <3> QED BY <3>3, FormsKeep DEF SettingsNext
  <2> QED BY <2>1, FormSaves
<1> QED BY <1>1, <1>2, <1>3, PTL DEF OrganizationSpec, SavesOnlyUndo
-----------------------------------------------------------------------------
(* Commerce.  The strengthening says since when what a copy tells, or a request     *)
(* remembers, may have ceased to be so: never before the instant somebody looked for  *)
(* it.  An end is set once, to the clock of the moment.                              *)

Record == [country: {"BG", "FR"}, validated: BOOLEAN]
Grant == [enabled: BOOLEAN, blocked: BOOLEAN, expires: Expiries]
SoldRow ==
  [market: MarketCode, plan: {"starter"}, interval: {"MONTHLY"}, amount: Nat,
   status: {"ACTIVE", "GRANDFATHERED", "RETIRED"}]
Reads == {None} \cup (SUBSET MarketCode) \cup (SUBSET (1 .. MaxPrices)) \cup Grant

CallState ==
  [kind: {"none", "visitor", "quote", "feature"},
   step: {"new", "look", "fetch", "store", "decide", "tax", "over", "failed"},
   copy: Copy, start: Nat, at: Nat, signals: Signals \cup {Unasked.signals},
   read: Reads, markets: {None} \cup SUBSET MarketCode,
   country: {None, "BG", "FR"}, held: SUBSET Record, market: MarketCode \cup {None},
   price: 0 .. MaxPrices,
   treatment: {None, "yes", "no", "OUT_OF_SCOPE", "DEFERRED_TO_PROVIDER", "REVERSE_CHARGE",
               "STANDARD_RATE"}]

LEMMA Readable ==
  ASSUME NEW c
  PROVE  /\ c = None => c \in Reads
         /\ c \in SUBSET MarketCode => c \in Reads
         /\ c \in SUBSET (1 .. MaxPrices) => c \in Reads
         /\ c \in Grant => c \in Reads
BY Zenon DEF Reads

(* x was still so at t, or is so. *)
So(x, t) == ended[x] = Never \/ ended[x] >= t

(* The content c of a copy k was so at t or later.  A market that is not among the   *)
(* markets, though it was listed, is no longer active.                             *)
Since(k, c, t) ==
  /\ k = "markets" =>
       /\ c \in SUBSET MarketCode /\ "GLOBAL" \in c
       /\ \A m \in c : So(<<"market", m>>, t)
       /\ \A m \in Range(Listed) : m \notin c => ended[<<"market", m>>] # Never
  /\ k = "prices" =>
       /\ c \in SUBSET (1 .. MaxPrices) /\ c \subseteq 1 .. Len(prices)
       /\ \A n \in c : So(<<"price", n>>, t)
  /\ k = "grants" =>
       /\ c \in Grant /\ c.expires = grant.expires
       /\ c.enabled /\ ~c.blocked => So(<<"grant", 0>>, t)

World ==
  /\ active \in SUBSET MarketCode /\ record \in Record /\ grant \in Grant /\ clock \in Nat
  /\ prices \in Seq(SoldRow) /\ Len(prices) <= MaxPrices
  /\ ended \in [Ending -> Int]
  /\ \A m \in active : ended[<<"market", m>>] = Never
  /\ \A m \in Range(Listed) : m \notin active => ended[<<"market", m>>] # Never
  /\ \A n \in 1 .. Len(prices) : prices[n].status = "ACTIVE" => ended[<<"price", n>>] = Never
  /\ \A n \in 1 .. MaxPrices : n > Len(prices) => ended[<<"price", n>>] = Never
  /\ grant.enabled /\ ~grant.blocked => ended[<<"grant", 0>>] = Never

CopyState == [content: Reads, until: Int]
CopiesTell ==
  /\ copies \in [Copy -> CopyState]
  /\ \A k \in Copy : copies[k].until > clock =>
       copies[k].until - Ttl <= clock /\ Since(k, copies[k].content, copies[k].until - Ttl)

(* What a request knows is less than a lifetime older than itself. *)
Timely(q) ==
  /\ q.step # "new" => q.start <= clock
  /\ q.step = "new" => q.price = 0 /\ q.treatment # "yes"
  /\ q.step \in {"fetch", "store"} => q.start <= q.at /\ q.at <= clock
  /\ q.step = "store" => Since(q.copy, q.read, q.at)
  /\ q.step # "new" => (q.kind = "feature" <=> q.copy = "grants") /\ q.kind # "none"
  /\ q.step # "new" /\ q.copy = "prices" => Since("markets", q.markets, q.start - Ttl + 1)
  /\ q.step = "decide" => q.copy = "prices" /\ Since("prices", q.read, q.start - Ttl + 1)
  /\ q.step = "tax" => q.kind = "quote" /\ q.price # 0
  /\ q.price # 0 =>
       /\ q.price \in 1 .. Len(prices) /\ q.market \in MarketCode
       /\ So(<<"price", q.price>>, q.start - Ttl + 1) /\ So(<<"market", q.market>>, q.start - Ttl + 1)
  /\ q.kind = "feature" /\ q.treatment = "yes" =>
       /\ So(<<"grant", 0>>, q.start - Ttl + 1)
       /\ grant.expires = Never \/ grant.expires > q.start

(* The market is of a country the record held, or the fallback. *)
OfRecord(q) ==
  \E held \in q.held :
    \/ held.country \in Markets[q.market].countries
    \/ q.market = "GLOBAL" /\ Unclaimed(held.country)

(* Why a record may spare a sale the standard rate. *)
Spares(held) ==
  \/ held.validated /\ held.country # SellerCountry
  \/ held.country \notin EuCountry
  \/ Unclaimed(held.country)

Taxed(q) ==
  /\ q.treatment # "STANDARD_RATE" => \E held \in q.held : Spares(held)
  /\ q.treatment = "REVERSE_CHARGE" =>
       \E held \in q.held : held.validated /\ held.country \in EuCountry \ {SellerCountry}

(* What a quote rests on: a record it held during the request, the present one among them. *)
ByRecord(q) ==
  /\ q.step # "new" => record \in q.held
  /\ q.step = "new" => q.held = {}
  /\ q.country # None => \E held \in q.held : held.country = q.country
  /\ q.kind = "quote" /\ q.step \in {"fetch", "store", "decide"} /\ q.copy = "prices" =>
       q.country # None
  /\ q.kind = "quote" /\ q.price # 0 => OfRecord(q)
  /\ q.kind = "quote" /\ q.price # 0 /\ q.step = "over" => Taxed(q)

SellingInv ==
  /\ World
  /\ CopiesTell
  /\ calls \in [Caller -> CallState]
  /\ \A r \in Caller : Timely(calls[r]) /\ ByRecord(calls[r])

LEMMA Codes ==
  /\ \A m \in MarketCode : <<"market", m>> \in Ending
  /\ \A n \in 1 .. MaxPrices : <<"price", n>> \in Ending
  /\ <<"grant", 0>> \in Ending
  /\ Ttl \in Nat \ {0} /\ MaxPrices \in Nat /\ Expiries \subseteq Int /\ None # "yes"
  /\ Range(Listed) \subseteq MarketCode
<1>1. Listed \in Seq(MarketCode)
  BY CommerceAssumption DEF MarketCode
<1>2. Range(Listed) \subseteq MarketCode
  <2>1. DOMAIN Listed = 1 .. Len(Listed) /\ \A i \in 1 .. Len(Listed) : Listed[i] \in MarketCode
    BY <1>1, LenProperties, ElementOfSeq
  <2> QED BY <2>1 DEF Range
<1> QED BY <1>2, CommerceAssumption DEF Ending

LEMMA SinceEarlier ==
  ASSUME World, NEW k \in Copy, NEW c, NEW t \in Int, NEW u \in Int, u <= t, Since(k, c, t)
  PROVE  Since(k, c, u)
<1>1. ASSUME NEW x \in Ending, So(x, t) PROVE So(x, u)
  <2>1. ended[x] \in Int
    BY DEF World
  <2> QED BY <1>1, <2>1 DEF So
<1> QED BY <1>1, Codes DEF Since

(* An end is the present, and comes to what had none. *)
EndedMoves == \A x \in Ending : ended'[x] = ended[x] \/ (ended[x] = Never /\ ended'[x] = clock)

LEMMA SoStill ==
  ASSUME World, EndedMoves, NEW x \in Ending, NEW t \in Int, t <= clock, So(x, t)
  PROVE  So(x, t)'
BY DEF So, EndedMoves, World

LEMMA SinceStill ==
  ASSUME World, EndedMoves, Len(prices') >= Len(prices), Len(prices') \in Nat,
         grant'.expires = grant.expires,
         NEW k \in Copy, NEW c, NEW t \in Int, t <= clock, Since(k, c, t)
  PROVE  Since(k, c, t)'
<1>1. \A x \in Ending : So(x, t) => So(x, t)'
  BY SoStill
<1>2. \A x \in Ending : ended[x] # Never => ended'[x] # Never
  BY DEF EndedMoves, World, Never
<1>3. Len(prices) \in Nat
  BY LenProperties DEF World
<1> QED BY <1>1, <1>2, <1>3, Codes DEF Since

LEMMA TimelyStill ==
  ASSUME World, EndedMoves, Len(prices') >= Len(prices), Len(prices') \in Nat,
         grant'.expires = grant.expires, clock' \in Nat, clock' >= clock,
         NEW q \in CallState, Timely(q)
  PROVE  Timely(q)'
<1> USE Codes DEF CallState
<1>1. clock \in Nat /\ Len(prices) \in Nat /\ q.start \in Nat /\ q.at \in Nat /\ q.copy \in Copy
  BY LenProperties DEF World
<1> DEFINE t == q.start - Ttl + 1
<1>2. t \in Int /\ (q.step # "new" => t <= clock)
  BY <1>1 DEF Timely
<1>3. \A x \in Ending : So(x, t) /\ q.step # "new" => So(x, t)'
  BY <1>2, SoStill
<1>4. ASSUME NEW k \in Copy, NEW c, q.step # "new", Since(k, c, t) PROVE Since(k, c, t)'
  BY <1>2, <1>4, SinceStill
<1>5. ASSUME q.step = "store" PROVE Since(q.copy, q.read, q.at)'
  <2>1. q.at <= clock /\ Since(q.copy, q.read, q.at)
    BY <1>5 DEF Timely
  <2> QED BY <1>1, <2>1, SinceStill
<1>6. q.step # "new" /\ q.copy = "prices" => Since("markets", q.markets, t)'
  BY <1>4 DEF Timely, Copy
<1>7. q.step = "decide" => q.copy = "prices" /\ Since("prices", q.read, t)'
  BY <1>4 DEF Timely, Copy
<1>8. q.price # 0 =>
        /\ q.price \in 1 .. Len(prices') /\ q.market \in MarketCode
        /\ So(<<"price", q.price>>, t)' /\ So(<<"market", q.market>>, t)'
  <2>1. q.price # 0 => /\ q.step # "new" /\ q.price \in 1 .. Len(prices) /\ q.market \in MarketCode
                       /\ So(<<"price", q.price>>, t) /\ So(<<"market", q.market>>, t)
    BY DEF Timely
  <2>2. q.price \in 0 .. MaxPrices
    OBVIOUS
  <2> QED BY <1>1, <1>3, <2>1, <2>2
<1>9. q.kind = "feature" /\ q.treatment = "yes" =>
        /\ So(<<"grant", 0>>, t)'
        /\ grant'.expires = Never \/ grant'.expires > q.start
  <2>1. q.treatment = "yes" => q.step # "new"
    BY DEF Timely
  <2> QED BY <1>3, <2>1 DEF Timely
<1>10. /\ q.step # "new" => q.start <= clock'
       /\ q.step \in {"fetch", "store"} => q.start <= q.at /\ q.at <= clock'
  BY <1>1 DEF Timely
<1> QED BY <1>5, <1>6, <1>7, <1>8, <1>9, <1>10 DEF Timely

(* What a quote rests on stays when a record is added to what it held.               *)
LEMMA ByRecordStill ==
  ASSUME World, EndedMoves, NEW q \in CallState, ByRecord(q), Timely(q),
         NEW v \in CallState, v = [q EXCEPT !.held = v.held],
         q.held \subseteq v.held, q.held = {} => v.held = {},
         q.held # {} => record' \in v.held
  PROVE  ByRecord(v)'
<1>1. \A m \in MarketCode : ended[<<"market", m>>] # Never => ended'[<<"market", m>>] # Never
  BY Codes DEF EndedMoves, World, Never
<1>2. /\ v.step = q.step /\ v.kind = q.kind /\ v.country = q.country /\ v.copy = q.copy
      /\ v.market = q.market /\ v.price = q.price /\ v.treatment = q.treatment
  BY DEF CallState
<1>5. \A country : Unclaimed(country) => Unclaimed(country)'
  BY <1>1, Codes DEF Unclaimed
<1>3. q.kind = "quote" /\ q.price # 0 => OfRecord(v)'
  <2> SUFFICES ASSUME q.kind = "quote", q.price # 0 PROVE OfRecord(v)'
    OBVIOUS
  <2>1. PICK held \in q.held :
          \/ held.country \in Markets[q.market].countries
          \/ q.market = "GLOBAL" /\ Unclaimed(held.country)
    BY DEF ByRecord, OfRecord
  <2>2. held \in v.held
    OBVIOUS
  <2> QED BY <1>2, <1>5, <2>1, <2>2 DEF OfRecord
<1>4. Taxed(q) => Taxed(v)'
  <2>1. \A held : Spares(held) => Spares(held)'
    BY <1>5 DEF Spares
  <2> QED BY <1>2, <2>1 DEF Taxed
<1> QED BY <1>2, <1>3, <1>4 DEF ByRecord

LEMMA RequestMoves ==
  ASSUME SellingInv, NEW r \in Caller, NEW q \in CallState, ToRequest(r, q), Same,
         UNCHANGED catalogueVars, CopiesTell', Timely(q), ByRecord(q)
  PROVE  SellingInv'
<1>1. UNCHANGED <<active, record, grant, clock, ended, prices>>
  BY DEF Same, catalogueVars, tables
<1>2. World'
  BY <1>1 DEF SellingInv, World
<1>3. /\ calls' \in [Caller -> CallState] /\ calls'[r] = q
      /\ \A o \in Caller \ {r} : calls'[o] = calls[o]
  BY DEF SellingInv, ToRequest
<1>4. \A o \in Caller : Timely(calls'[o]) /\ ByRecord(calls'[o])
  BY <1>3 DEF SellingInv
<1>5. ASSUME NEW x, Timely(x), ByRecord(x) PROVE Timely(x)' /\ ByRecord(x)'
  <2>1. Timely(x)'
    BY <1>1, <1>5 DEF Timely, Since, So
  <2>2. ByRecord(x)'
    BY <1>1, <1>5 DEF ByRecord, OfRecord, Taxed, Spares, Unclaimed
  <2> QED BY <2>1, <2>2
<1>6. ASSUME NEW o \in Caller PROVE Timely(calls[o])' /\ ByRecord(calls[o])'
  <2>1. PICK x : x = calls'[o]
    OBVIOUS
  <2>2. Timely(x)' /\ ByRecord(x)'
    BY <1>4, <1>5, <2>1
  <2> QED BY <2>1, <2>2
<1> QED BY <1>2, <1>3, <1>6 DEF SellingInv

LEMMA CopiesKept ==
  ASSUME SellingInv, Same, UNCHANGED catalogueVars, UNCHANGED copies
  PROVE  CopiesTell'
BY DEF SellingInv, CopiesTell, Since, So, Same, catalogueVars, tables

LEMMA Calls ==
  ASSUME SellingInv, UNCHANGED catalogueVars, NEW r \in Caller,
         NEW kind \in {"visitor", "quote", "feature"},
         NEW signals \in Signals \cup {Unasked.signals}, Call(r, kind, signals)
  PROVE  SellingInv'
<1>1. PICK q : q = [Unasked EXCEPT !.kind = kind, !.step = "look", !.start = clock,
                                  !.signals = signals, !.held = {record},
                                  !.copy = IF kind = "feature" THEN "grants" ELSE "markets"]
  OBVIOUS
<1>2. q = [kind |-> kind, step |-> "look",
           copy |-> IF kind = "feature" THEN "grants" ELSE "markets",
           start |-> clock, at |-> 0, signals |-> signals, read |-> None, markets |-> None,
           country |-> None, held |-> {record}, market |-> None, price |-> 0, treatment |-> None]
  BY <1>1 DEF Unasked
<1>3. clock \in Nat /\ record \in Record
  BY DEF SellingInv, World
<1>4. q \in CallState
  BY <1>2, <1>3, Codes DEF CallState, Copy, Reads
<1>5. Timely(q) /\ ByRecord(q)
  BY <1>2, <1>3, Codes DEF Timely, ByRecord
<1>6. ToRequest(r, q) /\ UNCHANGED copies /\ Same
  BY <1>1 DEF Call
<1> QED BY <1>4, <1>5, <1>6, CopiesKept, RequestMoves

LEMMA ReadsCountry ==
  ASSUME SellingInv, UNCHANGED catalogueVars, NEW r \in Caller, ReadCountry(r)
  PROVE  SellingInv'
<1>1. PICK b \in CallState : b = calls[r]
  BY DEF SellingInv
<1>2. PICK q : q = [b EXCEPT !.country = record.country]
  OBVIOUS
<1>3. /\ b.kind = "quote" /\ b.country = None /\ b.step \in {"look", "fetch", "store"}
      /\ ToRequest(r, q) /\ UNCHANGED copies /\ Same
  BY <1>1, <1>2 DEF ReadCountry
<1>4. Timely(b) /\ ByRecord(b) /\ record \in Record
  BY <1>1 DEF SellingInv, World
<1>5. q \in CallState /\ q.country = record.country
      /\ q.kind = b.kind /\ q.step = b.step /\ q.copy = b.copy /\ q.start = b.start /\ q.at = b.at
      /\ q.read = b.read /\ q.markets = b.markets /\ q.held = b.held /\ q.market = b.market
      /\ q.price = b.price /\ q.treatment = b.treatment
  BY <1>2, <1>4 DEF CallState, Record
<1>6. Timely(q)
  BY <1>4, <1>5 DEF Timely
<1>7. ByRecord(q)
  BY <1>3, <1>4, <1>5 DEF ByRecord, OfRecord, Taxed
<1> QED BY <1>3, <1>5, <1>6, <1>7, CopiesKept, RequestMoves

(* What follows once a copy is at hand, be it out of the store or just fetched.      *)
LEMMA Takes ==
  ASSUME SellingInv, NEW b \in CallState, Timely(b), ByRecord(b), b.step \in {"look", "store"},
         b.kind = "quote" /\ b.copy = "prices" => b.country # None,
         NEW content, Since(b.copy, content, b.start - Ttl + 1), NEW at \in Nat, at >= b.start,
         NEW q, q = With(b, content, at)
  PROVE  q \in CallState /\ Timely(q) /\ ByRecord(q)
<1> USE Codes
<1>1. CASE b.copy = "markets"
  <2>1. q = [b EXCEPT !.step = "look", !.copy = "prices", !.read = None, !.markets = content]
    BY <1>1 DEF With
  <2>2. content \in SUBSET MarketCode /\ Since("markets", content, b.start - Ttl + 1)
    BY <1>1 DEF Since
  <2>3. /\ q \in CallState /\ q.step = "look" /\ q.copy = "prices" /\ q.markets = content
        /\ q.kind = b.kind /\ q.start = b.start /\ q.country = b.country /\ q.held = b.held
        /\ q.market = b.market /\ q.price = b.price /\ q.treatment = b.treatment
    BY <2>1, <2>2 DEF CallState, Copy, Reads
  <2>4. Timely(q)
    BY <1>1, <2>2, <2>3 DEF Timely
  <2>5. ByRecord(q)
    BY <2>3 DEF ByRecord, OfRecord
  <2> QED BY <2>3, <2>4, <2>5
<1>2. CASE b.copy = "prices"
  <2>1. q = [b EXCEPT !.step = "decide", !.read = content]
    BY <1>2 DEF With
  <2>2. content \in SUBSET (1 .. MaxPrices) /\ Since("prices", content, b.start - Ttl + 1)
    BY <1>2 DEF Since
  <2>3. /\ q \in CallState /\ q.step = "decide" /\ q.copy = "prices" /\ q.read = content
        /\ q.markets = b.markets
        /\ q.kind = b.kind /\ q.start = b.start /\ q.country = b.country /\ q.held = b.held
        /\ q.market = b.market /\ q.price = b.price /\ q.treatment = b.treatment
    <3>1. content \in Reads
      BY <2>2, Readable
    <3> QED BY <1>2, <2>1, <3>1 DEF CallState
  <2>4. Timely(q)
    BY <1>2, <2>2, <2>3 DEF Timely
  <2>5. ByRecord(q)
    BY <1>2, <2>3 DEF ByRecord, OfRecord
  <2> QED BY <2>3, <2>4, <2>5
<1>3. CASE b.copy = "grants"
  <2>1. q = [b EXCEPT !.step = "over", !.read = None,
                      !.treatment = IF Can(content, at) THEN "yes" ELSE "no"]
    BY <1>3 DEF With
  <2>2. /\ content \in Grant /\ content.expires = grant.expires
        /\ content.enabled /\ ~content.blocked => So(<<"grant", 0>>, b.start - Ttl + 1)
    BY <1>3 DEF Since
  <2>3. /\ q \in CallState /\ q.step = "over" /\ q.copy = "grants"
        /\ q.kind = b.kind /\ q.start = b.start /\ q.country = b.country /\ q.held = b.held
        /\ q.market = b.market /\ q.price = b.price
        /\ q.treatment = IF Can(content, at) THEN "yes" ELSE "no"
    BY <1>3, <2>1 DEF CallState, Reads
  <2>4. b.kind = "feature" /\ b.start <= clock
    BY <1>3 DEF Timely
  <2>5. q.treatment = "yes" => /\ So(<<"grant", 0>>, b.start - Ttl + 1)
                               /\ grant.expires = Never \/ grant.expires > b.start
    <3> SUFFICES ASSUME q.treatment = "yes"
                 PROVE  /\ So(<<"grant", 0>>, b.start - Ttl + 1)
                        /\ grant.expires = Never \/ grant.expires > b.start
      OBVIOUS
    <3>1. /\ content.enabled /\ ~content.blocked
          /\ content.expires = Never \/ content.expires > at
      BY <2>3 DEF Can
    <3>2. grant.expires \in Int /\ b.start \in Nat
      BY <2>2 DEF Grant, CallState
    <3> QED BY <2>2, <3>1, <3>2
  <2>6. Timely(q)
    BY <2>3, <2>4, <2>5 DEF Timely
  <2>7. ByRecord(q)
    BY <2>3, <2>4 DEF ByRecord
  <2> QED BY <2>3, <2>6, <2>7
<1> QED BY <1>1, <1>2, <1>3 DEF CallState, Copy

LEMMA Looks ==
  ASSUME SellingInv, UNCHANGED catalogueVars, NEW r \in Caller, Look(r)
  PROVE  SellingInv'
<1>1. PICK b \in CallState : b = calls[r]
  BY DEF SellingInv
<1>2. PICK copy : copy = copies[b.copy]
  OBVIOUS
<1>3. /\ b.step = "look"
      /\ b.kind = "quote" /\ b.copy = "prices" => b.country # None
      /\ UNCHANGED copies /\ Same
      /\ \/ copy.until > clock /\ ToRequest(r, With(b, copy.content, clock))
         \/ copy.until <= clock /\ ToRequest(r, [b EXCEPT !.step = "fetch", !.at = clock])
  BY <1>1, <1>2 DEF Look
<1>4. Timely(b) /\ ByRecord(b) /\ clock \in Nat /\ b.start \in Nat /\ b.copy \in Copy
      /\ Ttl \in Nat \ {0} /\ b.start <= clock
  BY <1>1, <1>3, Codes DEF SellingInv, World, CallState, Timely
<1>5. CASE copy.until > clock /\ ToRequest(r, With(b, copy.content, clock))
  <2>1. /\ copy.until \in Int
        /\ Since(b.copy, copy.content, copy.until - Ttl)
    BY <1>2, <1>4, <1>5 DEF SellingInv, CopiesTell, CopyState
  <2>2. copy.until - Ttl >= b.start - Ttl + 1
    BY <1>4, <1>5, <2>1
  <2>3. Since(b.copy, copy.content, b.start - Ttl + 1)
    BY <1>4, <2>1, <2>2, SinceEarlier DEF SellingInv
  <2>4. PICK q : q = With(b, copy.content, clock)
    OBVIOUS
  <2>5. q \in CallState /\ Timely(q) /\ ByRecord(q)
    BY <1>3, <1>4, <2>3, <2>4, Takes
  <2> QED BY <1>3, <1>5, <2>4, <2>5, CopiesKept, RequestMoves
<1>6. CASE copy.until <= clock /\ ToRequest(r, [b EXCEPT !.step = "fetch", !.at = clock])
  <2>1. PICK q : q = [b EXCEPT !.step = "fetch", !.at = clock]
    OBVIOUS
  <2>2. /\ q \in CallState /\ q.step = "fetch" /\ q.at = clock
        /\ q.kind = b.kind /\ q.copy = b.copy /\ q.start = b.start /\ q.markets = b.markets
        /\ q.country = b.country /\ q.held = b.held /\ q.market = b.market /\ q.price = b.price
        /\ q.treatment = b.treatment
    BY <1>4, <2>1 DEF CallState
  <2>3. Timely(q)
    BY <1>3, <1>4, <2>2 DEF Timely
  <2>4. ByRecord(q)
    BY <1>3, <1>4, <2>2 DEF ByRecord, OfRecord
  <2> QED BY <1>3, <1>6, <2>1, <2>2, <2>3, <2>4, CopiesKept, RequestMoves
<1> QED BY <1>3, <1>5, <1>6

LEMMA Fetches ==
  ASSUME SellingInv, UNCHANGED catalogueVars, NEW r \in Caller, Fetch(r)
  PROVE  SellingInv'
<1>1. PICK b \in CallState : b = calls[r]
  BY DEF SellingInv
<1>2. PICK content : content = Content(b.copy)
  OBVIOUS
<1>3. /\ b.step = "fetch" /\ UNCHANGED copies /\ Same
      /\ IF b.copy = "markets" /\ "GLOBAL" \notin content
           THEN ToRequest(r, [b EXCEPT !.step = "failed"])
           ELSE ToRequest(r, [b EXCEPT !.step = "store", !.read = content])
  BY <1>1, <1>2 DEF Fetch
<1>4. Timely(b) /\ ByRecord(b) /\ World /\ b.copy \in Copy /\ b.at \in Nat
  BY <1>1 DEF SellingInv, CallState
<1>5. CASE b.copy = "markets" /\ "GLOBAL" \notin content
  <2>1. PICK q : q = [b EXCEPT !.step = "failed"]
    OBVIOUS
  <2>2. /\ q \in CallState /\ q.step = "failed"
        /\ q.kind = b.kind /\ q.copy = b.copy /\ q.start = b.start /\ q.markets = b.markets
        /\ q.country = b.country /\ q.held = b.held /\ q.market = b.market /\ q.price = b.price
        /\ q.treatment = b.treatment
    BY <2>1 DEF CallState
  <2>3. Timely(q) /\ ByRecord(q)
    BY <1>3, <1>4, <2>2 DEF Timely, ByRecord, OfRecord
  <2> QED BY <1>3, <1>5, <2>1, <2>2, <2>3, CopiesKept, RequestMoves
<1>6. CASE ~(b.copy = "markets" /\ "GLOBAL" \notin content)
  <2>1. PICK q : q = [b EXCEPT !.step = "store", !.read = content]
    OBVIOUS
  <2>2. Since(b.copy, content, b.at) /\ content \in Reads
    <3>1. CASE b.copy = "markets"
      <4>1. content = active
        BY <1>2, <3>1 DEF Content
      <4> QED BY <1>4, <1>6, <3>1, <4>1 DEF World, Since, So, Reads
    <3>2. CASE b.copy = "prices"
      <4>1. content = OnSaleNow
        BY <1>2, <3>2 DEF Content
      <4>2. /\ DOMAIN prices = 1 .. Len(prices) /\ Len(prices) \in Nat /\ Len(prices) <= MaxPrices
            /\ \A n \in 1 .. Len(prices) :
                 prices[n].status = "ACTIVE" => ended[<<"price", n>>] = Never
        BY <1>4, LenProperties DEF World
      <4>3. content \subseteq 1 .. Len(prices)
        BY <4>1, <4>2 DEF OnSaleNow
      <4>4. \A n \in content : prices[n].status = "ACTIVE"
        BY <4>1 DEF OnSaleNow
      <4>5. \A n \in content : ended[<<"price", n>>] = Never
        BY <4>2, <4>3, <4>4
      <4>6. 1 .. Len(prices) \subseteq 1 .. MaxPrices
        BY <4>2, Codes
      <4>7. content \in SUBSET (1 .. MaxPrices)
        BY <4>3, <4>6
      <4> QED BY <3>2, <4>3, <4>5, <4>7, Readable DEF Since, So
    <3>3. CASE b.copy = "grants"
      <4>1. content = grant
        BY <1>2, <3>3 DEF Content
      <4>2. grant \in Grant
            /\ (grant.enabled /\ ~grant.blocked => ended[<<"grant", 0>>] = Never)
        BY <1>4 DEF World
      <4> QED BY <3>3, <4>1, <4>2, Readable DEF Since, So
    <3> QED BY <1>4, <3>1, <3>2, <3>3 DEF Copy
  <2>3. /\ q \in CallState /\ q.step = "store" /\ q.read = content
        /\ q.kind = b.kind /\ q.copy = b.copy /\ q.start = b.start /\ q.markets = b.markets
        /\ q.at = b.at
        /\ q.country = b.country /\ q.held = b.held /\ q.market = b.market /\ q.price = b.price
        /\ q.treatment = b.treatment
    BY <2>1, <2>2 DEF CallState
  <2>4. Timely(q) /\ ByRecord(q)
    BY <1>3, <1>4, <2>2, <2>3 DEF Timely, ByRecord, OfRecord
  <2> QED BY <1>3, <1>6, <2>1, <2>3, <2>4, CopiesKept, RequestMoves
<1> QED BY <1>5, <1>6

LEMMA Stores ==
  ASSUME SellingInv, UNCHANGED catalogueVars, NEW r \in Caller, Store(r)
  PROVE  SellingInv'
<1>1. PICK b \in CallState : b = calls[r]
  BY DEF SellingInv
<1>2. /\ b.step = "store" /\ Same
      /\ copies' = [copies EXCEPT ![b.copy] = [content |-> b.read, until |-> b.at + Ttl]]
      /\ ToRequest(r, With(b, b.read, b.at))
  BY <1>1 DEF Store, Until
<1>3. /\ Timely(b) /\ ByRecord(b) /\ World /\ b.copy \in Copy /\ b.at \in Nat /\ b.start \in Nat
      /\ b.read \in Reads /\ Ttl \in Nat \ {0}
  BY <1>1, Codes DEF SellingInv, CallState
<1>4. Since(b.copy, b.read, b.at) /\ b.start <= b.at /\ b.at <= clock
  BY <1>2, <1>3 DEF Timely
<1>5. CopiesTell'
  <2>1. copies' \in [Copy -> CopyState]
    BY <1>2, <1>3 DEF SellingInv, CopiesTell, CopyState
  <2>2. ASSUME NEW k \in Copy, copies'[k].until > clock
        PROVE  /\ copies'[k].until - Ttl <= clock
               /\ Since(k, copies'[k].content, copies'[k].until - Ttl)
    <3>1. CASE k = b.copy
      <4>1. copies'[k].content = b.read /\ copies'[k].until = b.at + Ttl
        BY <1>2, <1>3, <3>1 DEF SellingInv, CopiesTell
      <4>2. copies'[k].until - Ttl = b.at
        BY <1>3, <4>1
      <4> QED BY <1>4, <3>1, <4>1, <4>2
    <3>2. CASE k # b.copy
      <4>1. copies'[k] = copies[k]
        BY <1>2, <1>3, <3>2 DEF SellingInv, CopiesTell
      <4> QED BY <2>2, <4>1 DEF SellingInv, CopiesTell
    <3> QED BY <3>1, <3>2
  <2> QED BY <1>2, <2>1, <2>2 DEF CopiesTell, Since, So, Same, catalogueVars, tables
<1>6. Since(b.copy, b.read, b.start - Ttl + 1)
  BY <1>3, <1>4, SinceEarlier
<1>7. PICK q : q = With(b, b.read, b.at)
  OBVIOUS
<1>8. b.kind = "quote" /\ b.copy = "prices" => b.country # None
  BY <1>2, <1>3 DEF ByRecord
<1>9. q \in CallState /\ Timely(q) /\ ByRecord(q)
  BY <1>2, <1>3, <1>4, <1>6, <1>7, <1>8, Takes
<1> QED BY <1>2, <1>5, <1>7, <1>9, RequestMoves

(* A country that no market claims is the only one that falls back.                  *)
LEMMA Resolved ==
  ASSUME NEW markets \in SUBSET MarketCode, "GLOBAL" \in markets, NEW country
  PROVE  LET m == OrFallback(ByCountry(country, markets)) IN
         /\ m \in markets
         /\ \/ country \in Markets[m].countries
            \/ m = "GLOBAL" /\ \A o \in markets : country \notin Markets[o].countries
<1> DEFINE claims == {o \in markets : country \in Markets[o].countries}
           S == ByCountry(country, markets)
<1>1. S \subseteq claims
  BY DEF ByCountry
<1>2. ASSUME S = {} PROVE claims = {}
  <2>1. ASSUME NEW o \in claims, NEW p \in claims PROVE o = p
    BY DEF MarketCode, Markets, Market
  <2>2. \A o \in MarketCode : Markets[o].priority \in Nat
    BY DEF MarketCode, Markets, Market
  <2>3. ASSUME NEW o \in claims PROVE o \in S
    <3>1. \A p \in claims : p = o
      BY <2>1, <2>3
    <3>2. Markets[o].priority <= Markets[o].priority
      BY <2>2
    <3> QED BY <3>1, <3>2 DEF ByCountry
  <2> QED BY <1>2, <2>3
<1>3. CASE S = {}
  BY <1>2, <1>3 DEF OrFallback
<1>4. CASE S # {}
  <2>1. OrFallback(S) \in S
    BY <1>4 DEF OrFallback
  <2> QED BY <1>1, <2>1
<1> QED BY <1>3, <1>4

LEMMA ResolvedForVisitor ==
  ASSUME NEW markets \in SUBSET MarketCode, "GLOBAL" \in markets, NEW signals
  PROVE  ResolveForVisitor(signals, markets) \in markets
<1> DEFINE picked == {signals.selected} \cap markets
<1>1. CASE picked # {}
  BY <1>1 DEF ResolveForVisitor, OrFallback
<1>2. CASE picked = {}
  BY <1>2, Resolved DEF ResolveForVisitor
<1> QED BY <1>1, <1>2

LEMMA Chooses ==
  ASSUME SellingInv, UNCHANGED catalogueVars, NEW r \in Caller, Choose(r)
  PROVE  SellingInv'
<1>1. PICK b \in CallState : b = calls[r]
  BY DEF SellingInv
<1>2. PICK m : m = IF b.kind = "quote" THEN ResolveForOrganization(b.country, b.signals, b.markets)
                   ELSE ResolveForVisitor(b.signals, b.markets)
  OBVIOUS
<1>3. /\ b.step = "decide" /\ UNCHANGED copies /\ Same
      /\ \/ ToRequest(r, [b EXCEPT !.step = "failed"])
         \/ \E n \in b.read :
              ToRequest(r, [b EXCEPT !.step = IF b.kind = "quote" THEN "tax" ELSE "over",
                                     !.read = None, !.market = m, !.price = n])
  BY <1>1, <1>2 DEF Choose
<1>4. /\ Timely(b) /\ ByRecord(b) /\ b.copy = "prices" /\ b.kind # "feature" /\ b.kind # "none"
      /\ b.start <= clock
  BY <1>1, <1>3 DEF SellingInv, Timely
<1>5. /\ b.markets \in SUBSET MarketCode /\ "GLOBAL" \in b.markets
      /\ \A o \in b.markets : So(<<"market", o>>, b.start - Ttl + 1)
      /\ \A o \in Range(Listed) : o \notin b.markets => ended[<<"market", o>>] # Never
  BY <1>3, <1>4 DEF Timely, Since
<1>6. /\ b.read \subseteq 1 .. MaxPrices /\ b.read \subseteq 1 .. Len(prices)
      /\ \A n \in b.read : So(<<"price", n>>, b.start - Ttl + 1)
  BY <1>3, <1>4 DEF Timely, Since
<1>7. CASE ToRequest(r, [b EXCEPT !.step = "failed"])
  <2>1. PICK q : q = [b EXCEPT !.step = "failed"]
    OBVIOUS
  <2>2. /\ q \in CallState /\ q.step = "failed"
        /\ q.kind = b.kind /\ q.copy = b.copy /\ q.start = b.start /\ q.markets = b.markets
        /\ q.country = b.country /\ q.held = b.held /\ q.market = b.market /\ q.price = b.price
        /\ q.treatment = b.treatment
    BY <2>1 DEF CallState
  <2>3. Timely(q) /\ ByRecord(q)
    BY <1>3, <1>4, <2>2 DEF Timely, ByRecord, OfRecord
  <2> QED BY <1>3, <1>7, <2>1, <2>2, <2>3, CopiesKept, RequestMoves
<1>8. ASSUME NEW n \in b.read,
             ToRequest(r, [b EXCEPT !.step = IF b.kind = "quote" THEN "tax" ELSE "over",
                                    !.read = None, !.market = m, !.price = n])
      PROVE  SellingInv'
  <2>1. PICK q : q = [b EXCEPT !.step = IF b.kind = "quote" THEN "tax" ELSE "over",
                               !.read = None, !.market = m, !.price = n]
    OBVIOUS
  <2>2. m \in b.markets /\ m \in MarketCode
    BY <1>2, <1>5, Resolved, ResolvedForVisitor DEF ResolveForOrganization
  <2>3. None \in Reads /\ n \in 0 .. MaxPrices /\ n # 0
    BY <1>6, Readable, Codes
  <2>4. /\ q \in CallState /\ q.step = (IF b.kind = "quote" THEN "tax" ELSE "over")
        /\ q.market = m /\ q.price = n
        /\ q.kind = b.kind /\ q.copy = b.copy /\ q.start = b.start /\ q.markets = b.markets
        /\ q.country = b.country /\ q.held = b.held /\ q.treatment = b.treatment
    BY <2>1, <2>2, <2>3 DEF CallState
  <2>5. Timely(q)
    BY <1>3, <1>4, <1>5, <1>6, <2>2, <2>3, <2>4 DEF Timely
  <2>6. b.kind = "quote" => OfRecord(q)
    <3> SUFFICES ASSUME b.kind = "quote" PROVE OfRecord(q)
      OBVIOUS
    <3>1. PICK held \in b.held : held.country = b.country
      BY <1>3, <1>4 DEF ByRecord
    <3>2. \/ b.country \in Markets[m].countries
          \/ m = "GLOBAL" /\ \A o \in b.markets : b.country \notin Markets[o].countries
      BY <1>2, <1>5, Resolved DEF ResolveForOrganization
    <3> QED BY <1>5, <2>4, <3>1, <3>2 DEF OfRecord, Unclaimed
  <2>7. ByRecord(q)
    BY <1>3, <1>4, <2>4, <2>6 DEF ByRecord
  <2> QED BY <1>3, <1>8, <2>1, <2>4, <2>5, <2>7, CopiesKept, RequestMoves
<1> QED BY <1>3, <1>7, <1>8

LEMMA Taxes ==
  ASSUME SellingInv, UNCHANGED catalogueVars, NEW r \in Caller, Tax(r)
  PROVE  SellingInv'
<1>1. PICK b \in CallState : b = calls[r]
  BY DEF SellingInv
<1>2. PICK t : t = Treatment(b.market, record)
  OBVIOUS
<1>3. PICK q : q = [b EXCEPT !.step = "over", !.treatment = t]
  OBVIOUS
<1>4. b.step = "tax" /\ UNCHANGED copies /\ Same /\ ToRequest(r, q)
  BY <1>1, <1>2, <1>3 DEF Tax
<1>5. /\ Timely(b) /\ ByRecord(b) /\ b.kind = "quote" /\ record \in Record /\ record \in b.held
      /\ b.market \in MarketCode /\ b.price # 0
  BY <1>1, <1>4 DEF SellingInv, World, Timely, ByRecord
<1>6. /\ t \in {"OUT_OF_SCOPE", "DEFERRED_TO_PROVIDER", "REVERSE_CHARGE", "STANDARD_RATE"}
      /\ t = "REVERSE_CHARGE" => record.validated /\ record.country \in EuCountry \ {SellerCountry}
      /\ t = "OUT_OF_SCOPE" => b.market = "GLOBAL" \/ record.country \notin EuCountry
      /\ t = "DEFERRED_TO_PROVIDER" => b.market = "US"
  <2>1. /\ Markets["GLOBAL"].scheme = "NONE" /\ Markets["US"].scheme = "US_SALES_TAX"
        /\ Markets["BG"].scheme = "EU_VAT" /\ Markets["DE"].scheme = "EU_VAT"
        /\ Markets["EU"].scheme = "EU_VAT"
    BY DEF Markets, Market
  <2>2. \/ b.market = "GLOBAL" /\ t = "OUT_OF_SCOPE"
        \/ b.market = "US" /\ t = "DEFERRED_TO_PROVIDER"
        \/ /\ b.market \in {"BG", "DE", "EU"}
           /\ t = IF record.country \notin EuCountry THEN "OUT_OF_SCOPE"
                  ELSE IF record.country # SellerCountry /\ record.validated THEN "REVERSE_CHARGE"
                  ELSE "STANDARD_RATE"
    BY <1>2, <1>5, <2>1 DEF MarketCode, Treatment
  <2> QED BY <2>2 DEF EuCountry, SellerCountry
<1>11. t \in {"OUT_OF_SCOPE", "DEFERRED_TO_PROVIDER"} => \E held \in b.held : Spares(held)
  <2>1. PICK held \in b.held :
          \/ held.country \in Markets[b.market].countries
          \/ b.market = "GLOBAL" /\ Unclaimed(held.country)
    BY <1>5 DEF ByRecord, OfRecord
  <2>2. Markets["GLOBAL"].countries = {} /\ Markets["US"].countries = {"US"}
    BY DEF Markets, Market
  <2>3. b.market = "GLOBAL" => Spares(held)
    BY <2>1, <2>2 DEF Spares
  <2>4. b.market = "US" => Spares(held)
    BY <2>1, <2>2 DEF Spares, EuCountry
  <2>5. record.country \notin EuCountry => Spares(record)
    BY DEF Spares
  <2> QED BY <1>5, <1>6, <2>3, <2>4, <2>5
<1>7. /\ q \in CallState /\ q.step = "over" /\ q.treatment = t
      /\ q.kind = b.kind /\ q.copy = b.copy /\ q.start = b.start /\ q.markets = b.markets
      /\ q.country = b.country /\ q.held = b.held /\ q.market = b.market /\ q.price = b.price
  BY <1>3, <1>6 DEF CallState
<1>8. Timely(q)
  BY <1>4, <1>5, <1>7 DEF Timely
<1>9. Taxed(q)
  BY <1>5, <1>6, <1>7, <1>11 DEF Taxed, Spares
<1>10. ByRecord(q)
  BY <1>4, <1>5, <1>7, <1>9 DEF ByRecord, OfRecord
<1> QED BY <1>4, <1>7, <1>8, <1>10, CopiesKept, RequestMoves

LEMMA Attends ==
  ASSUME SellingInv, NEW r \in Caller, Attend(r)
  PROVE  SellingInv'
<1>1. UNCHANGED catalogueVars
  BY DEF Attend
<1>2. CASE \E kind \in {"visitor", "quote"}, signals \in Signals : Call(r, kind, signals)
  BY <1>1, <1>2, Calls
<1>3. CASE Call(r, "feature", Unasked.signals)
  BY <1>1, <1>3, Calls
<1> QED BY <1>1, <1>2, <1>3, ReadsCountry, Looks, Fetches, Stores, Chooses, Taxes DEF Attend
-----------------------------------------------------------------------------
(* Operators and the clock. *)

LEMMA WorldMoves ==
  ASSUME SellingInv, World', EndedMoves, clock' >= clock, Len(prices') >= Len(prices),
         grant'.expires = grant.expires, UNCHANGED copies,
         \/ UNCHANGED <<calls, record>>
         \/ calls' = [r \in Caller |-> [calls[r] EXCEPT !.held = IF @ = {} THEN @ ELSE @ \cup {record'}]]
  PROVE  SellingInv'
<1>1. World /\ clock' \in Nat /\ Len(prices') \in Nat /\ clock \in Nat
  BY LenProperties DEF SellingInv, World
<1>2. CopiesTell'
  <2>1. ASSUME NEW k \in Copy, copies[k].until > clock'
        PROVE  /\ copies[k].until - Ttl <= clock'
               /\ Since(k, copies[k].content, copies[k].until - Ttl)'
    <3>0. copies[k].until \in Int
      BY DEF SellingInv, CopiesTell, CopyState
    <3>1. PICK t, c : t = copies[k].until - Ttl /\ c = copies[k].content
      OBVIOUS
    <3>2. t \in Int /\ t <= clock /\ Since(k, c, t)
      BY <1>1, <2>1, <3>0, <3>1, Codes DEF SellingInv, CopiesTell
    <3>3. Since(k, c, t)'
      BY <1>1, <3>2, SinceStill
    <3> QED BY <1>1, <3>1, <3>2, <3>3
  <2> QED BY <2>1 DEF SellingInv, CopiesTell
<1>3. ASSUME NEW r \in Caller
      PROVE  calls'[r] \in CallState /\ Timely(calls[r])' /\ ByRecord(calls[r])'
  <2>1. PICK q \in CallState : q = calls[r]
    BY DEF SellingInv
  <2>2. PICK v : v = calls'[r]
    OBVIOUS
  <2>3. Timely(q) /\ ByRecord(q) /\ q.held \in SUBSET Record /\ record' \in Record
    BY <1>1, <2>1 DEF SellingInv, CallState, World
  <2>4. v \in CallState /\ v = [q EXCEPT !.held = v.held] /\ q.held \subseteq v.held
        /\ (q.held = {} => v.held = {}) /\ (q.held # {} => record' \in v.held)
    <3>1. CASE UNCHANGED <<calls, record>>
      <4>1. v = q /\ (q.held # {} => record' \in q.held)
        BY <2>1, <2>2, <2>3, <3>1 DEF ByRecord
      <4>2. q = [q EXCEPT !.held = q.held]
        BY DEF CallState
      <4> QED BY <4>1, <4>2
    <3>2. CASE calls' = [o \in Caller |-> [calls[o] EXCEPT !.held = IF @ = {} THEN @ ELSE @ \cup {record'}]]
      <4>1. PICK h : h = IF q.held = {} THEN q.held ELSE q.held \cup {record'}
        OBVIOUS
      <4>2. v = [q EXCEPT !.held = h] /\ h \in SUBSET Record
        BY <2>1, <2>2, <2>3, <3>2, <4>1
      <4>3. v \in CallState /\ v.held = h
        BY <4>2 DEF CallState
      <4> QED BY <4>1, <4>2, <4>3
    <3> QED BY <3>1, <3>2
  <2>5. ByRecord(v)'
    BY <1>1, <2>3, <2>4, ByRecordStill
  <2>6. Timely(q)'
    BY <1>1, <2>3, TimelyStill
  <2>7. /\ v.step = q.step /\ v.kind = q.kind /\ v.copy = q.copy /\ v.start = q.start /\ v.at = q.at
        /\ v.read = q.read /\ v.markets = q.markets /\ v.price = q.price /\ v.market = q.market
        /\ v.treatment = q.treatment
    BY <2>4 DEF CallState
  <2>8. Timely(v)'
    BY <2>6, <2>7 DEF Timely
  <2> QED BY <2>2, <2>4, <2>5, <2>8
<1>4. calls' \in [Caller -> CallState]
  BY <1>3 DEF SellingInv
<1> QED BY <1>2, <1>3, <1>4 DEF SellingInv

LEMMA Listing ==
  ASSUME World
  PROVE  /\ DOMAIN prices = 1 .. Len(prices) /\ Len(prices) \in Nat /\ Len(prices) <= MaxPrices
         /\ 1 .. Len(prices) \subseteq 1 .. MaxPrices
         /\ \A n \in 1 .. Len(prices) : prices[n] \in SoldRow
BY LenProperties, ElementOfSeq, Codes DEF World

LEMMA Repriced ==
  ASSUME SellingInv, NEW n \in DOMAIN prices, OperatorReprices(n)
  PROVE  SellingInv'
<1>1. World /\ clock \in Nat
  BY DEF SellingInv, World
<1>2. /\ n \in 1 .. Len(prices) /\ Len(prices) \in Nat /\ <<"price", n>> \in Ending
      /\ prices[n] \in SoldRow /\ prices[n].status = "ACTIVE" /\ ended[<<"price", n>>] = Never
  BY <1>1, Listing, Codes DEF OperatorReprices, Reprice, Withdraw, World
<1>3. /\ ended' = [ended EXCEPT ![<<"price", n>>] = clock]
      /\ UNCHANGED <<active, record, grant, copies, calls, clock>>
  BY DEF OperatorReprices, Ends
<1>4. EndedMoves
  BY <1>1, <1>2, <1>3 DEF World, EndedMoves
<1>5. /\ prices' \in Seq(SoldRow) /\ Len(prices') >= Len(prices) /\ Len(prices') <= MaxPrices
      /\ \A k \in 1 .. Len(prices') :
           prices'[k].status = "ACTIVE" =>
             \/ k \in 1 .. Len(prices) /\ k # n /\ prices[k].status = "ACTIVE"
             \/ k = Len(prices) + 1
  <2>1. CASE Withdraw(n)
    <3>1. PICK row : row = [prices[n] EXCEPT !.status = "RETIRED"]
      OBVIOUS
    <3>2. row \in SoldRow /\ row.status = "RETIRED"
      BY <1>2, <3>1 DEF SoldRow
    <3>3. prices' = [prices EXCEPT ![n] = row]
      BY <2>1, <3>1 DEF Withdraw
    <3>4. /\ prices' \in Seq(SoldRow) /\ Len(prices') = Len(prices)
          /\ \A k \in 1 .. Len(prices) : prices'[k] = IF k = n THEN row ELSE prices[k]
      BY <1>1, <1>2, <3>2, <3>3, ExceptSeq DEF World
    <3> QED BY <1>1, <1>2, <3>2, <3>4, Listing
  <2>2. CASE Reprice(n)
    <3>1. PICK row : row = [prices[n] EXCEPT !.status = "GRANDFATHERED"]
      OBVIOUS
    <3>2. row \in SoldRow /\ row.status = "GRANDFATHERED"
      BY <1>2, <3>1 DEF SoldRow
    <3>3. PICK new : new = [prices[n] EXCEPT !.amount = NewAmount]
      OBVIOUS
    <3>4. new \in SoldRow
      BY <1>2, <3>3 DEF SoldRow, NewAmount
    <3>5. PICK old : old = [prices EXCEPT ![n] = row]
      OBVIOUS
    <3>6. prices' = Append(old, new) /\ Len(prices) < MaxPrices
      BY <2>2, <3>1, <3>3, <3>5 DEF Reprice
    <3>7. /\ old \in Seq(SoldRow) /\ Len(old) = Len(prices)
          /\ \A k \in 1 .. Len(prices) : old[k] = IF k = n THEN row ELSE prices[k]
      BY <1>1, <1>2, <3>2, <3>5, ExceptSeq DEF World
    <3>8. /\ prices' \in Seq(SoldRow) /\ Len(prices') = Len(prices) + 1
          /\ \A k \in 1 .. Len(prices) : prices'[k] = old[k]
      BY <3>4, <3>6, <3>7, AppendProperties
    <3>9. MaxPrices \in Nat
      BY Codes
    <3> QED BY <1>2, <3>2, <3>6, <3>7, <3>8, <3>9
  <2> QED BY <2>1, <2>2 DEF OperatorReprices
<1>6. World'
  <2>1. ASSUME NEW k \in 1 .. Len(prices'), prices'[k].status = "ACTIVE"
        PROVE  ended'[<<"price", k>>] = Never
    <3>1. Len(prices') \in Nat /\ MaxPrices \in Nat
      BY <1>5, LenProperties, Codes
    <3>2. k \in 1 .. MaxPrices /\ k # n /\ <<"price", k>> \in Ending
      BY <1>2, <1>5, <2>1, <3>1, Codes
    <3>3. ended[<<"price", k>>] = Never
      BY <1>1, <1>2, <1>5, <2>1, <3>2 DEF World
    <3> QED BY <1>1, <1>3, <3>2, <3>3 DEF World
  <2>2. \A m \in MarketCode : ended'[<<"market", m>>] = ended[<<"market", m>>]
    BY <1>1, <1>3, Codes DEF World
  <2>3. ended'[<<"grant", 0>>] = ended[<<"grant", 0>>]
    BY <1>1, <1>3, Codes DEF World
  <2>4. ASSUME NEW k \in 1 .. MaxPrices, k > Len(prices') PROVE ended'[<<"price", k>>] = Never
    <3>1. k > Len(prices) /\ k # n /\ <<"price", k>> \in Ending
      BY <1>2, <1>5, <2>4, LenProperties, Codes
    <3> QED BY <1>1, <1>3, <2>4, <3>1 DEF World
  <2>5. ended' \in [Ending -> Int]
    <3>1. ended \in [Ending -> Int] /\ clock \in Int
      BY <1>1 DEF World
    <3> QED BY <1>3, <3>1
  <2>6. /\ \A m \in active' : ended'[<<"market", m>>] = Never
        /\ \A m \in Range(Listed) : m \notin active' => ended'[<<"market", m>>] # Never
        /\ grant'.enabled /\ ~grant'.blocked => ended'[<<"grant", 0>>] = Never
        /\ active' \in SUBSET MarketCode /\ record' \in Record /\ grant' \in Grant /\ clock' \in Nat
    BY <1>1, <1>3, <2>2, <2>3, Codes DEF World
  <2>7. \A k \in 1 .. Len(prices') : prices'[k].status = "ACTIVE" => ended'[<<"price", k>>] = Never
    BY <2>1
  <2>8. \A k \in 1 .. MaxPrices : k > Len(prices') => ended'[<<"price", k>>] = Never
    BY <2>4
  <2>9. prices' \in Seq(SoldRow) /\ Len(prices') <= MaxPrices
    BY <1>5
  <2> QED BY <2>5, <2>6, <2>7, <2>8, <2>9 DEF World
<1> QED BY <1>1, <1>3, <1>4, <1>5, <1>6, WorldMoves

LEMMA Deactivated ==
  ASSUME SellingInv, NEW m \in MarketCode, Deactivate(m)
  PROVE  SellingInv'
<1>1. World /\ clock \in Nat /\ <<"market", m>> \in Ending /\ m \in active
      /\ ended[<<"market", m>>] = Never
  BY Codes DEF SellingInv, World, Deactivate
<1>2. /\ ended' = [ended EXCEPT ![<<"market", m>>] = clock] /\ active' = active \ {m}
      /\ UNCHANGED <<record, grant, copies, calls, clock, prices>>
  BY DEF Deactivate, Ends, catalogueVars, tables
<1>3. EndedMoves
  BY <1>1, <1>2 DEF World, EndedMoves
<1>4. World'
  <2>1. \A o \in MarketCode :
          ended'[<<"market", o>>] = IF o = m THEN clock ELSE ended[<<"market", o>>]
    BY <1>1, <1>2, Codes DEF World
  <2>2. \A n \in 1 .. MaxPrices : ended'[<<"price", n>>] = ended[<<"price", n>>]
    BY <1>1, <1>2, Codes DEF World
  <2>3. ended'[<<"grant", 0>>] = ended[<<"grant", 0>>] /\ ended' \in [Ending -> Int]
    BY <1>1, <1>2, Codes DEF World
  <2>4. clock # Never /\ Range(Listed) \subseteq MarketCode /\ 1 .. Len(prices) \subseteq 1 .. MaxPrices
    BY <1>1, Codes, Listing DEF Never
  <2>5. /\ \A o \in active' : ended'[<<"market", o>>] = Never
        /\ \A o \in Range(Listed) : o \notin active' => ended'[<<"market", o>>] # Never
    BY <1>1, <1>2, <2>1, <2>4 DEF World
  <2> QED BY <1>1, <1>2, <2>2, <2>3, <2>4, <2>5 DEF World
<1>5. Len(prices) \in Nat
  BY <1>1, Listing
<1> QED BY <1>1, <1>2, <1>3, <1>4, <1>5, WorldMoves

LEMMA GrantEnded ==
  ASSUME SellingInv, EndGrant
  PROVE  SellingInv'
<1>1. World /\ clock \in Nat /\ <<"grant", 0>> \in Ending /\ ended[<<"grant", 0>>] = Never
      /\ grant \in Grant
  BY Codes DEF SellingInv, World, EndGrant
<1>2. /\ ended' = [ended EXCEPT ![<<"grant", 0>>] = clock]
      /\ \/ grant' = [grant EXCEPT !.enabled = FALSE]
         \/ grant' = [grant EXCEPT !.blocked = TRUE]
      /\ UNCHANGED <<active, record, copies, calls, clock, prices>>
  BY DEF EndGrant, Ends, catalogueVars, tables
<1>3. EndedMoves
  BY <1>1, <1>2 DEF World, EndedMoves
<1>4. grant' \in Grant /\ grant'.expires = grant.expires /\ ~(grant'.enabled /\ ~grant'.blocked)
  BY <1>1, <1>2 DEF Grant
<1>5. World'
  <2>1. /\ \A o \in MarketCode : ended'[<<"market", o>>] = ended[<<"market", o>>]
        /\ \A n \in 1 .. MaxPrices : ended'[<<"price", n>>] = ended[<<"price", n>>]
        /\ ended' \in [Ending -> Int]
    BY <1>1, <1>2, Codes DEF World
  <2>2. Range(Listed) \subseteq MarketCode /\ 1 .. Len(prices) \subseteq 1 .. MaxPrices
    BY <1>1, Codes, Listing
  <2> QED BY <1>1, <1>2, <1>4, <2>1, <2>2 DEF World
<1>6. Len(prices) \in Nat
  BY <1>1, Listing
<1> QED BY <1>1, <1>2, <1>3, <1>4, <1>5, <1>6, WorldMoves

LEMMA OthersMove ==
  ASSUME SellingInv,
         \/ ClockTicks
         \/ \E c \in {"BG", "FR"}, v \in BOOLEAN : MoveRecord([country |-> c, validated |-> v])
  PROVE  SellingInv'
<1>1. World /\ clock \in Nat /\ Len(prices) \in Nat
  BY Listing DEF SellingInv, World
<1>2. CASE ClockTicks
  <2>1. /\ clock' = clock + 1
        /\ UNCHANGED <<active, record, grant, copies, calls, ended, prices>>
    BY <1>2 DEF ClockTicks, catalogueVars, tables
  <2>2. EndedMoves
    BY <2>1 DEF EndedMoves
  <2>3. World'
    BY <1>1, <2>1 DEF World
  <2> QED BY <1>1, <2>1, <2>2, <2>3, WorldMoves
<1>3. ASSUME NEW c \in {"BG", "FR"}, NEW v \in BOOLEAN,
             MoveRecord([country |-> c, validated |-> v])
      PROVE  SellingInv'
  <2>1. PICK to : to = [country |-> c, validated |-> v]
    OBVIOUS
  <2>2. /\ record' = to
        /\ calls' = [r \in Caller |-> [calls[r] EXCEPT !.held = IF @ = {} THEN @ ELSE @ \cup {to}]]
        /\ UNCHANGED <<active, grant, copies, clock, ended, prices>>
    BY <1>3, <2>1 DEF MoveRecord, catalogueVars, tables
  <2>3. EndedMoves
    BY <2>2 DEF EndedMoves
  <2>4. to \in Record
    BY <2>1 DEF Record
  <2>5. World'
    BY <1>1, <2>2, <2>4 DEF World
  <2> QED BY <1>1, <2>2, <2>3, <2>5, WorldMoves
<1> QED BY <1>2, <1>3

LEMMA SellingInit == Seeded /\ CommerceInit => SellingInv
<1> SUFFICES ASSUME Seeded, CommerceInit PROVE SellingInv
  OBVIOUS
<1>1. Listed \in Seq(MarketCode) /\ Len(Listed) <= MaxPrices /\ Len(Listed) \in Nat
  BY CommerceAssumption, LenProperties DEF MarketCode
<1>2. /\ prices \in Seq(SoldRow) /\ Len(prices) <= MaxPrices
  <2>1. \A n \in 1 .. Len(Listed) : PriceRow(Listed[n], "starter", "MONTHLY", 1) \in SoldRow
    BY <1>1, ElementOfSeq DEF PriceRow, SoldRow
  <2>2. prices = [n \in 1 .. Len(Listed) |-> PriceRow(Listed[n], "starter", "MONTHLY", 1)]
    BY DEF Seeded
  <2> QED BY <1>1, <2>1, <2>2
<1>3. /\ ended \in [Ending -> Int] /\ \A x \in Ending : ended[x] = Never
  BY DEF CommerceInit, Never
<1>4. World
  <2>1. record \in Record /\ grant \in Grant /\ clock \in Nat /\ active = Range(Listed)
    BY DEF CommerceInit, Record, Grant
  <2>2. 1 .. Len(prices) \subseteq 1 .. MaxPrices
    BY <1>2, LenProperties, Codes
  <2> QED BY <1>2, <1>3, <2>1, <2>2, Codes DEF World
<1>5. CopiesTell
  <2>1. Empty \in CopyState
    BY Readable DEF Empty, CopyState
  <2> QED BY <2>1 DEF CommerceInit, CopiesTell, Empty
<1>6. Unasked \in CallState
  BY Readable, Codes DEF Unasked, CallState, Copy
<1>7. Timely(Unasked) /\ ByRecord(Unasked)
  BY Codes DEF Unasked, Timely, ByRecord
<1> QED BY <1>4, <1>5, <1>6, <1>7 DEF CommerceInit, SellingInv

LEMMA AlwaysSelling == CommerceSpec => []SellingInv
<1>1. SellingInv /\ [CommerceNext]_<<catalogueVars, commerceVars>> => SellingInv'
  <2> SUFFICES ASSUME SellingInv, [CommerceNext]_<<catalogueVars, commerceVars>>
               PROVE  SellingInv'
    OBVIOUS
  <2>1. CASE UNCHANGED <<catalogueVars, commerceVars>>
    <3>1. UNCHANGED <<active, record, grant, copies, calls, clock, ended, prices>>
      BY <2>1 DEF catalogueVars, tables, commerceVars
    <3>2. World' /\ EndedMoves /\ clock \in Nat /\ Len(prices) \in Nat
      BY <3>1, Listing DEF SellingInv, World, EndedMoves
    <3> QED BY <3>1, <3>2, WorldMoves
  <2> QED BY <2>1, Attends, Repriced, Deactivated, GrantEnded, OthersMove DEF CommerceNext
<1> QED BY <1>1, SellingInit, PTL DEF CommerceSpec

(* Whoever fetches and stores meanwhile, and however long a fetch takes: what a request   *)
(* was quoted or granted was on sale, active and granted less than one lifetime of a        *)
(* copy before it began.                                                          *)
THEOREM CopiesAreRecent == CommerceSpec => []AnswersAreRecent
<1>1. SellingInv => AnswersAreRecent
  <2> SUFFICES ASSUME SellingInv, NEW r \in Caller
               PROVE  /\ calls[r].price # 0 =>
                           /\ StillLately("price", calls[r].price, calls[r].start)
                           /\ StillLately("market", calls[r].market, calls[r].start)
                      /\ calls[r].kind = "feature" /\ calls[r].treatment = "yes" =>
                           /\ StillLately("grant", 0, calls[r].start)
                           /\ grant.expires = Never \/ grant.expires > calls[r].start
    BY DEF AnswersAreRecent
  <2>1. PICK q \in CallState : q = calls[r]
    BY DEF SellingInv
  <2>2. Timely(q) /\ q.start \in Nat /\ Ttl \in Nat /\ ended \in [Ending -> Int]
        /\ q.price \in 0 .. MaxPrices
    BY <2>1, Codes DEF SellingInv, CallState, World
  <2>3. ASSUME NEW what, NEW x, <<what, x>> \in Ending, So(<<what, x>>, q.start - Ttl + 1)
        PROVE  StillLately(what, x, q.start)
    BY <2>2, <2>3 DEF So, StillLately
  <2> QED BY <2>1, <2>2, <2>3, Codes DEF Timely
<1> QED BY <1>1, AlwaysSelling, PTL

(* No request parameter and no interleaving moves an organization onto another market than  *)
(* one its own record names, while that market stands; and a sale is spared the standard     *)
(* rate only by what a record showed during the request, or by a market that is gone.        *)
THEOREM RecordsDecide == CommerceSpec => []RecordDecides
<1>1. SellingInv => RecordDecides
  BY DEF SellingInv, RecordDecides, ByRecord, OfRecord, Taxed, Spares
<1> QED BY <1>1, AlwaysSelling, PTL
=============================================================================
