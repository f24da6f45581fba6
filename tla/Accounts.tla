------------------------------ MODULE Accounts ------------------------------
(***************************************************************************)
(* Who may act: roster and administrator accounts, the two PIN doors and the  *)
(* password door, sessions with the permissions they were issued, and what    *)
(* ends a session or changes what it may do.                                 *)
(*                                                                         *)
(* A request is a few statements, none of which the next one re-checks: a     *)
(* login reads a row, verifies a slow hash and issues a session later; an      *)
(* administrator's change commits and revokes sessions afterwards; a command   *)
(* is authenticated before it runs and rewrites its session after it.         *)
(*                                                                         *)
(* Abstractions.  A permission list is the set of its families (worker.*,     *)
(* driver.*, tracking.submit, the administrator's); a hash is the secret it    *)
(* verifies; the rows of auth_attempts are the instants of the failures.       *)
(* Memberships and organizations stay active, as no route changes them.       *)
(***************************************************************************)
EXTENDS Integers, FiniteSets, SequencesExt

CONSTANTS
  Person,          \* people on the roster, named by their employee number
  Account,         \* administrators
  Address,         \* e-mail addresses
  Pin,             \* PINs
  Request,         \* requests the server handles at once
  MaxSessions,     \* sessions ever issued
  MaxRequests,     \* requests ever served
  MaxTime,         \* bound on the clock
  MaxCrashes,      \* requests cut short
  PinPolicy,       \* DEFAULT_PIN_LOCKOUT
  PasswordPolicy,  \* DEFAULT_PASSWORD_LOCKOUT
  Ttl,             \* lifetime of a session
  None             \* null

ASSUME AccountsAssumption ==
  /\ \A n \in {MaxSessions, MaxRequests, MaxTime, MaxCrashes, Ttl} : n \in Nat
  /\ \A p \in {PinPolicy, PasswordPolicy} :
       p.threshold \in Nat \ {0} /\ p.base \in Nat /\ p.max \in Nat

Null == -1
Door == {"worker", "driver"}
SessionId == 1..MaxSessions
Permission == {"worker", "driver", "track", "admin"}
SessionRow == [kind: {"WORKER", "DRIVER", "USER"}, user: Account \cup {None},
               worker: Person \cup {None}, driver: Person \cup {None},
               perms: SUBSET Permission, created: Nat, ended: BOOLEAN]

(* null is no identifier and no row *)
ASSUME NoneAssumption == None \notin Person \cup Account \cup SessionRow

VARIABLES
  roster,     \* workers and the drivers linked to them
  accounts,   \* users with their organization
  failures,   \* auth_attempts of the password door: when each address failed
  sessions,   \* sessions
  driving,    \* people whose trip, opened with a driving position, runs
  req,        \* requests being served
  clock, served, crashes

vars == <<roster, accounts, failures, sessions, driving, req, clock, served, crashes>>

-----------------------------------------------------------------------------
(* Lockout *)

IsLockedOut(lock, t) == lock.until > t

RegisterFailure(lock, t, policy) ==
  LET failed == lock.failed + 1
      seconds == Min({policy.base * 2 ^ (failed - policy.threshold), policy.max})
  IN [failed |-> failed,
      until |-> IF failed < policy.threshold THEN Null ELSE t + seconds]

RegisterSuccess == [failed |-> 0, until |-> Null]

(* The password door has no counter on the row: the failures of the window are *)
(* counted again at every login, and a success does not clear them.            *)
CountRecentFailures(address, t) ==
  LET recent == SelectSeq(failures[address], LAMBDA s : s >= t - PasswordPolicy.max)
      taken == 4 * PasswordPolicy.threshold
      kept == SubSeq(recent, Max({1, Len(recent) - taken + 1}), Len(recent))
  IN FoldLeft(LAMBDA lock, s : RegisterFailure(lock, s, PasswordPolicy),
              RegisterSuccess, kept)

(* Roles *)

WorkerRole == {"worker", "track"}
DriverRole == {"driver", "track"}
MutDrivingPermissions == {"driver", "track"}
DrivingPermissions == {"driver"}
WithDriving(base) == base \cup DrivingPermissions
WithoutDriving(base) == base \ DrivingPermissions

-----------------------------------------------------------------------------
(* Rows *)

NoRow == [status |-> "NONE", pin |-> None, lock |-> RegisterSuccess]
NewRow(pin) == [status |-> "ACTIVE", pin |-> pin, lock |-> RegisterSuccess]
Absent == [d \in Door |-> NoRow]
NewPerson(pin, isDriver) ==
  [d \in Door |-> IF d = "worker" \/ isDriver THEN NewRow(pin) ELSE NoRow]
NoAccount == [address |-> None, slug |-> 0, changedAt |-> Null]
Registered == {a \in Account : accounts[a] # NoAccount}
TakenAddresses == {accounts[a].address : a \in Registered}
TakenSlugs == {accounts[a].slug : a \in Registered}

(* sessions.issue; `ended` is revokedAt.  The driver portal's sessions carry a *)
(* driver and no worker, an elevated worker's carry both.                      *)
Session(kind, user, worker, driver, perms) ==
  [kind |-> kind, user |-> user, worker |-> worker, driver |-> driver,
   perms |-> perms, created |-> clock, ended |-> FALSE]
Issued == {s \in SessionId : sessions[s] # None}
Live == {s \in Issued : ~ sessions[s].ended}

Valid(s) == s \in Live /\ sessions[s].created + Ttl > clock

(* The request carries this session's actor; a change of a user's login identity *)
(* invalidates what was issued before it.                                     *)
Authenticates(s) ==
  /\ Valid(s)
  /\ sessions[s].user # None =>
       sessions[s].created >= accounts[sessions[s].user].changedAt

RequireWorker(actor) == actor.kind = "WORKER" /\ "worker" \in actor.perms
RequireDriverContext(actor) ==
  actor.kind \in {"DRIVER", "WORKER"} /\ "driver" \in actor.perms /\ actor.driver # None

-----------------------------------------------------------------------------
(* Requests *)

Idle == [op |-> "idle"]

Init ==
  /\ \E pin \in Pin, hired \in SUBSET Person :
       roster = [p \in Person |-> IF p \in hired THEN NewPerson(pin, TRUE) ELSE Absent]
  /\ accounts = [a \in Account |-> NoAccount]
  /\ failures = [e \in Address |-> <<>>]
  /\ sessions = [s \in SessionId |-> None]
  /\ driving = {}
  /\ req = [r \in Request |-> Idle]
  /\ clock = 0 /\ served = 0 /\ crashes = 0

Go(r, op) == req' = [req EXCEPT ![r] = op]
Arrives(r) == req[r] = Idle /\ served < MaxRequests /\ served' = served + 1
Proceeds(r, op) == req[r].op = op /\ UNCHANGED served
Done(r) == Go(r, Idle)
Quiet == UNCHANGED <<clock, crashes>>

(* A worker or driver logs in.  Another organization's slug, an unknown number, *)
(* an inactive row, one without a PIN and a locked one are refused alike.       *)
PinLoginRead(r, door, p, pin) ==
  /\ Arrives(r)
  /\ LET row == roster[p][door] IN
       IF row.status = "ACTIVE" /\ row.pin # None /\ ~ IsLockedOut(row.lock, clock)
       THEN Go(r, [op |-> "verify", door |-> door, person |-> p, pin |-> pin,
                   row |-> row, at |-> clock])
       ELSE Done(r)
  /\ Quiet /\ UNCHANGED <<roster, accounts, failures, sessions, driving>>

WorkerLogin(r, p, pin) == PinLoginRead(r, "worker", p, pin)
DriverLogin(r, p, pin) == PinLoginRead(r, "driver", p, pin)

(* What a verified login goes on to issue *)
WorkerActor(p) == [op |-> "issue", kind |-> "WORKER", user |-> None,
                   worker |-> p, driver |-> None, perms |-> WorkerRole]
DriverActor(p) == [op |-> "issue", kind |-> "DRIVER", user |-> None,
                   worker |-> None, driver |-> p, perms |-> DriverRole]
UserActor(a) == [op |-> "issue", kind |-> "USER", user |-> a,
                 worker |-> None, driver |-> None, perms |-> {"admin"}]

(* verifyPin decides on the row as it was read, and the counter is written back *)
(* from that row.                                                              *)
PinVerify(r) ==
  /\ Proceeds(r, "verify")
  /\ LET q == req[r]
         good == q.pin = q.row.pin
         lock == IF good THEN RegisterSuccess
                         ELSE RegisterFailure(q.row.lock, q.at, PinPolicy)
     IN /\ roster' = [roster EXCEPT ![q.person][q.door].lock = lock]
        /\ CASE ~ good -> Done(r)
             [] good /\ q.door = "worker" -> Go(r, WorkerActor(q.person))
             [] good /\ q.door = "driver" -> Go(r, DriverActor(q.person))
  /\ Quiet /\ UNCHANGED <<accounts, failures, sessions, driving>>

(* An administrator logs in; the reads of the user and of the failures meet no *)
(* write that changes both.                                                   *)
PasswordLogin(r, address, good) ==
  /\ Arrives(r)
  /\ IF address \in TakenAddresses /\ ~ IsLockedOut(CountRecentFailures(address, clock), clock)
     THEN Go(r, [op |-> "password", good |-> good, address |-> address,
                 user |-> CHOOSE a \in Registered : accounts[a].address = address])
     ELSE Done(r)
  /\ Quiet /\ UNCHANGED <<roster, accounts, failures, sessions, driving>>

PasswordVerify(r) ==
  /\ Proceeds(r, "password")
  /\ \/ /\ req[r].good
        /\ Go(r, UserActor(req[r].user))
        /\ UNCHANGED failures
     \/ /\ ~ req[r].good
        /\ failures' = [failures EXCEPT ![req[r].address] = Append(@, clock)]
        /\ Done(r)
  /\ Quiet /\ UNCHANGED <<roster, accounts, sessions, driving>>

(* The session is created whatever became of the row since it was read. *)
Issue(r) ==
  /\ Proceeds(r, "issue")
  /\ Cardinality(Issued) < MaxSessions
  /\ LET q == req[r] IN
       sessions' = [sessions EXCEPT ![Cardinality(Issued) + 1] =
                      Session(q.kind, q.user, q.worker, q.driver, q.perms)]
  /\ Done(r)
  /\ Quiet /\ UNCHANGED <<roster, accounts, failures, driving>>

EndSessions(ended) ==
  sessions' = [s \in SessionId |-> IF s \in Live /\ ended[s]
                                   THEN [sessions[s] EXCEPT !.ended = TRUE]
                                   ELSE sessions[s]]

Logout(r, s) ==
  /\ Arrives(r) /\ Authenticates(s)
  /\ EndSessions([t \in SessionId |-> t = s])
  /\ Done(r)
  /\ Quiet /\ UNCHANGED <<roster, accounts, failures, driving>>

-----------------------------------------------------------------------------
(* The administrator's changes *)

(* POST /workers: the number is looked up, the PIN is hashed, and one transaction *)
(* writes the worker and the driver with it, unless the index finds the number.  *)
CreateWorkerRead(r, p, pin, isDriver) ==
  /\ Arrives(r)
  /\ IF roster[p] = Absent
     THEN Go(r, [op |-> "create", person |-> p, row |-> NewPerson(pin, isDriver)])
     ELSE Done(r)
  /\ Quiet /\ UNCHANGED <<roster, accounts, failures, sessions, driving>>

CreateWorkerWrite(r) ==
  /\ Proceeds(r, "create")
  /\ roster' = IF roster[req[r].person] = Absent
               THEN [roster EXCEPT ![req[r].person] = req[r].row] ELSE roster
  /\ Done(r)
  /\ Quiet /\ UNCHANGED <<accounts, failures, sessions, driving>>

(* PATCH /workers: one transaction over the worker and the driver that shares   *)
(* the credential.  A new PIN also clears both counters.                      *)
Patched(row, pin, status) ==
  LET named == IF status = None THEN row ELSE [row EXCEPT !.status = status]
  IN IF pin = None THEN named ELSE [named EXCEPT !.pin = pin, !.lock = RegisterSuccess]

MutPatchPerson(p, pin, status) ==
  [roster[p] EXCEPT !["worker"] = Patched(@, pin, status),
                    !["driver"] = IF pin = None THEN @ ELSE Patched(@, pin, status)]
PatchPerson(p, pin, status) ==
  [d \in Door |-> IF roster[p][d] = NoRow THEN NoRow ELSE Patched(roster[p][d], pin, status)]

(* Sessions end only after the transaction, the worker's first; `held` records  *)
(* those that lived when the change committed.                                *)
PatchWorker(r, p, pin, status) ==
  /\ Arrives(r)
  /\ roster[p] # Absent
  /\ pin # None \/ status # None
  /\ roster' = [roster EXCEPT ![p] = PatchPerson(p, pin, status)]
  /\ IF pin # None \/ status = "INACTIVE"
     THEN Go(r, [op |-> "endWorker", person |-> p, held |-> Live])
     ELSE Done(r)
  /\ Quiet /\ UNCHANGED <<accounts, failures, sessions, driving>>

EndWorkerSessions(r) ==
  /\ Proceeds(r, "endWorker")
  /\ EndSessions([s \in SessionId |-> s \in Live /\ sessions[s].worker = req[r].person])
  /\ Go(r, [req[r] EXCEPT !.op = "endDriver"])
  /\ Quiet /\ UNCHANGED <<roster, accounts, failures, driving>>

MutEndDriverSessions(r) ==
  /\ Proceeds(r, "endDriver")
  /\ Go(r, [req[r] EXCEPT !.op = "told"])
  /\ Quiet /\ UNCHANGED <<roster, accounts, failures, sessions, driving>>
EndDriverSessions(r) ==
  /\ Proceeds(r, "endDriver")
  /\ EndSessions([s \in SessionId |-> s \in Live /\ sessions[s].driver = req[r].person])
  /\ Go(r, [req[r] EXCEPT !.op = "told"])
  /\ Quiet /\ UNCHANGED <<roster, accounts, failures, driving>>

Answer(r) ==
  /\ Proceeds(r, "told")
  /\ Done(r)
  /\ Quiet /\ UNCHANGED <<roster, accounts, failures, sessions, driving>>

(* PATCH /members/:id/email: the address is looked up, the instant is taken, and *)
(* the row is written later; the unique index decides.                        *)
ChangeEmailRead(r, a, address) ==
  /\ Arrives(r)
  /\ a \in Registered
  /\ IF address \notin TakenAddresses
     THEN Go(r, [op |-> "email", user |-> a, address |-> address, at |-> clock])
     ELSE Done(r)
  /\ Quiet /\ UNCHANGED <<roster, accounts, failures, sessions, driving>>

AddressFree(address) == address \notin TakenAddresses

ChangeEmailWrite(r) ==
  /\ Proceeds(r, "email")
  /\ IF AddressFree(req[r].address)
     THEN accounts' = [accounts EXCEPT ![req[r].user].address = req[r].address,
                                       ![req[r].user].changedAt = req[r].at]
     ELSE UNCHANGED accounts
  /\ Done(r)
  /\ Quiet /\ UNCHANGED <<roster, failures, sessions, driving>>

(* Registration: availableSlug tries base, base-2, ... and reads each. *)
AvailableSlug == CHOOSE n \in 1..(Cardinality(Account) + 1) :
                   n \notin TakenSlugs /\ \A k \in 1..(n - 1) : k \in TakenSlugs

RegisterRead(r, address) ==
  /\ Arrives(r)
  /\ IF address \notin TakenAddresses
     THEN Go(r, [op |-> "register", address |-> address, slug |-> AvailableSlug])
     ELSE Done(r)
  /\ Quiet /\ UNCHANGED <<roster, accounts, failures, sessions, driving>>

(* One transaction makes the organization, its owner, entitlements, site and     *)
(* area, or none of them; then the owner is signed in.                        *)
RegisterWrite(r) ==
  /\ Proceeds(r, "register")
  /\ \/ /\ AddressFree(req[r].address) /\ req[r].slug \notin TakenSlugs
        /\ \E a \in Account \ Registered :
             /\ accounts' = [accounts EXCEPT ![a] = [address |-> req[r].address,
                                                     slug |-> req[r].slug,
                                                     changedAt |-> clock]]
             /\ Go(r, UserActor(a))
     \/ /\ ~ (AddressFree(req[r].address) /\ req[r].slug \notin TakenSlugs)
        /\ Done(r) /\ UNCHANGED accounts
  /\ Quiet /\ UNCHANGED <<roster, failures, sessions, driving>>

-----------------------------------------------------------------------------
(* The driving context of a worker's session *)

(* The session is read once, before the handler; the command runs later. *)
Authenticate(r, s) ==
  /\ Arrives(r)
  /\ Authenticates(s) /\ RequireWorker(sessions[s])
  /\ Go(r, [op |-> "command", session |-> s, worker |-> sessions[s].worker,
            perms |-> sessions[s].perms])
  /\ Quiet /\ UNCHANGED <<roster, accounts, failures, sessions, driving>>

BeginDriving(r) ==
  /\ Proceeds(r, "command")
  /\ roster[req[r].worker]["driver"].status = "ACTIVE"
  /\ driving' = driving \cup {req[r].worker}
  /\ Go(r, [op |-> "context", session |-> req[r].session, driver |-> req[r].worker,
            perms |-> WithDriving(req[r].perms)])
  /\ Quiet /\ UNCHANGED <<roster, accounts, failures, sessions>>

(* changePosition and endShift strip the session only of a worker who drove. *)
LeaveDriving(r) ==
  /\ Proceeds(r, "command")
  /\ driving' = driving \ {req[r].worker}
  /\ IF req[r].worker \in driving
     THEN Go(r, [op |-> "context", session |-> req[r].session, driver |-> None,
                 perms |-> WithoutDriving(req[r].perms)])
     ELSE Done(r)
  /\ Quiet /\ UNCHANGED <<roster, accounts, failures, sessions>>

(* POST /driver/trip/:tripId/end touches no session. *)
EndTrip(p) ==
  /\ p \in driving
  /\ \E s \in Live : sessions[s].driver = p /\ RequireDriverContext(sessions[s])
  /\ driving' = driving \ {p}
  /\ Quiet /\ UNCHANGED <<roster, accounts, failures, sessions, req, served>>

MutSetDrivingContext(r) ==
  /\ Proceeds(r, "context")
  /\ LET s == req[r].session IN
       sessions' = [sessions EXCEPT ![s].driver = req[r].driver, ![s].perms = req[r].perms]
  /\ Done(r)
  /\ Quiet /\ UNCHANGED <<roster, accounts, failures, driving>>
SetDrivingContext(r) ==
  /\ Proceeds(r, "context")
  /\ LET s == req[r].session IN
       IF sessions[s].kind = "WORKER" /\ ~ sessions[s].ended
       THEN sessions' = [sessions EXCEPT ![s].driver = req[r].driver,
                                         ![s].perms = req[r].perms]
       ELSE UNCHANGED sessions
  /\ Done(r)
  /\ Quiet /\ UNCHANGED <<roster, accounts, failures, driving>>

-----------------------------------------------------------------------------
Tick ==
  /\ clock < MaxTime /\ clock' = clock + 1
  /\ UNCHANGED <<roster, accounts, failures, sessions, driving, req, served, crashes>>

Crash(r) ==
  /\ req[r] # Idle /\ crashes < MaxCrashes
  /\ crashes' = crashes + 1
  /\ Done(r)
  /\ UNCHANGED <<roster, accounts, failures, sessions, driving, clock, served>>

Next ==
  \/ Tick
  \/ \E p \in Person : EndTrip(p)
  \/ \E r \in Request :
       \/ \E p \in Person, pin \in Pin : WorkerLogin(r, p, pin) \/ DriverLogin(r, p, pin)
       \/ \E e \in Address, good \in BOOLEAN : PasswordLogin(r, e, good)
       \/ \E s \in SessionId : Logout(r, s) \/ Authenticate(r, s)
       \/ \E p \in Person, pin \in Pin \cup {None}, isDriver \in BOOLEAN :
             CreateWorkerRead(r, p, pin, isDriver)
       \/ \E p \in Person, pin \in Pin \cup {None},
             status \in {"ACTIVE", "INACTIVE", None} : PatchWorker(r, p, pin, status)
       \/ \E a \in Account, e \in Address : ChangeEmailRead(r, a, e)
       \/ \E e \in Address : RegisterRead(r, e)
       \/ PinVerify(r) \/ PasswordVerify(r) \/ Issue(r)
       \/ EndWorkerSessions(r) \/ EndDriverSessions(r) \/ Answer(r)
       \/ CreateWorkerWrite(r) \/ ChangeEmailWrite(r) \/ RegisterWrite(r)
       \/ BeginDriving(r) \/ LeaveDriving(r) \/ SetDrivingContext(r)
       \/ Crash(r)

Spec == Init /\ [][Next]_vars

-----------------------------------------------------------------------------
(* A session that has ended stays as it was, whatever a command authenticated    *)
(* before its end writes afterwards (revoke, revokeForActor, setDrivingContext).*)
EndedSessionsFinal ==
  [][\A s \in SessionId : sessions[s] # None /\ sessions[s].ended
                            => sessions'[s] = sessions[s]]_vars

(* Whatever commands race on a session, its driver and its permissions change    *)
(* together, and leaving a driving position costs the worker no permission of   *)
(* the worker role: the day goes on being tracked (withoutDrivingPermissions).  *)
ContextIsWhole ==
  \A s \in Issued : sessions[s].kind = "WORKER" =>
    sessions[s].perms = WorkerRole \cup (IF sessions[s].driver = None THEN {} ELSE {"driver"})

(* An administrator told that a PIN or a deactivation is done has ended every     *)
(* session the person held when it committed: worker, elevated and driver's.   *)
ChangeEndsSessions ==
  \A r \in Request : req[r].op = "told" =>
    \A s \in req[r].held : req[r].person \in {sessions[s].worker, sessions[s].driver}
                             => sessions[s].ended

(* One person, one credential: the worker's row and the driver's never disagree  *)
(* on PIN or status, under any interleaving of logins and changes.             *)
DoorsAgree ==
  \A p \in Person : roster[p]["driver"] # NoRow =>
    /\ roster[p]["worker"].pin = roster[p]["driver"].pin
    /\ roster[p]["worker"].status = roster[p]["driver"].status
=============================================================================
