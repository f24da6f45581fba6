---------------------------- MODULE Eligibility ----------------------------
(***************************************************************************)
(* May this worker take this position, as of this instant?                 *)
(* modules/workforce decides from the position's row, the count of people   *)
(* on it, what the worker holds and what a supervisor has allowed or        *)
(* forbidden them.  The policy requireQualificationByDefault is read and     *)
(* changes no answer: effectiveChangeMode returns the position's own mode in  *)
(* every case, so it has no place here.                                     *)
(***************************************************************************)
EXTENDS Naturals

CONSTANTS
  Worker, Position, Qualification,
  Time,          \* instants
  Null,          \* an absent value: no expiry, no bound, no capacity
  Missing,       \* the worker does not hold the qualification
  ChangeMode,    \* [Position -> {"INSTANT", "QUALIFICATION_REQUIRED", "SUPERVISOR_APPROVAL"}]
  Required,      \* [Position -> SUBSET Qualification]
  Expiry,        \* [Worker -> [Qualification -> Time \cup {Null, Missing}]]
  Override       \* records [worker, position, effect, from, to]

ASSUME EligibilityAssumption ==
  /\ Time \subseteq Nat /\ Null \notin Time /\ Missing \notin Time /\ Null # Missing
  /\ ChangeMode \in [Position -> {"INSTANT", "QUALIFICATION_REQUIRED", "SUPERVISOR_APPROVAL"}]
  /\ Required \in [Position -> SUBSET Qualification]
  /\ Expiry \in [Worker -> [Qualification -> Time \cup {Null, Missing}]]
  /\ Override \subseteq [worker : Worker, position : Position, effect : {"ALLOW", "DENY"},
                         from : Time \cup {Null}, to : Time \cup {Null}]

InForce(o, at) ==
  /\ o.from = Null \/ o.from <= at
  /\ o.to = Null \/ at < o.to

Overridden(w, p, at, effect) ==
  \E o \in Override : o.worker = w /\ o.position = p /\ o.effect = effect /\ InForce(o, at)

Lapsed(w, k, at) == Expiry[w][k] \in Time /\ Expiry[w][k] <= at

(* A lapsed qualification is reported only when none is missing altogether.   *)
CheckQualifications(w, p, at) ==
  IF \E k \in Required[p] : Expiry[w][k] = Missing THEN "QUALIFICATION_MISSING"
  ELSE IF \E k \in Required[p] : Lapsed(w, k, at) THEN "QUALIFICATION_EXPIRED"
  ELSE "QUALIFICATION_SATISFIED"

(* Mutant of Full: one too many.                                              *)
FullPastLimit(capacity, occupancy) == capacity # Null /\ occupancy > capacity

(* A position somebody may be limited to: toRule counts the open sessions      *)
(* only when there is a limit to compare them with.                           *)
Full(capacity, occupancy) == capacity # Null /\ occupancy >= capacity

(* The documented order: a denial beats everything, an unusable position beats *)
(* a permission, a permission beats the position's own rule.                   *)
ResolveEligibility(w, p, row, occupancy, at) ==
  IF Overridden(w, p, at, "DENY") THEN "EXPLICIT_DENY"
  ELSE IF row.status # "ACTIVE" THEN "POSITION_INACTIVE"
  ELSE IF Full(row.capacity, occupancy) THEN "POSITION_AT_CAPACITY"
  ELSE IF Overridden(w, p, at, "ALLOW") THEN "EXPLICIT_ALLOW"
  ELSE IF ChangeMode[p] = "INSTANT" THEN "INSTANT_POSITION"
  ELSE IF CheckQualifications(w, p, at) # "QUALIFICATION_SATISFIED"
       THEN CheckQualifications(w, p, at)
  ELSE IF ChangeMode[p] = "SUPERVISOR_APPROVAL" THEN "SUPERVISOR_APPROVAL_REQUIRED"
  ELSE "QUALIFICATION_SATISFIED"

(* A command refuses what needs an approval: no approval flow has run.         *)
Allowed == {"EXPLICIT_ALLOW", "INSTANT_POSITION", "QUALIFICATION_SATISFIED",
            "SUPERVISOR_APPROVAL_REQUIRED"}

AssertEligible(w, p, row, occupancy, at) ==
  ResolveEligibility(w, p, row, occupancy, at) \in Allowed \ {"SUPERVISOR_APPROVAL_REQUIRED"}
=============================================================================
