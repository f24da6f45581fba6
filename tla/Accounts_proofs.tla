--------------------------- MODULE Accounts_proofs ---------------------------
(***************************************************************************)
(* Proofs about Accounts: an ended session is never written again, a session's *)
(* driver and permissions change together, a change of a PIN or a status ends  *)
(* what the person held, and the two rows of a person agree.                *)
(*                                                                         *)
(* None of them is inductive alone.  A request writes what it read several     *)
(* statements ago, so the invariant says what each request in flight still     *)
(* holds of the rows it will write: `Asked` is what it carries, `About` is how  *)
(* that relates to the tables, whatever the other requests did in between.    *)
(***************************************************************************)
EXTENDS Accounts, FiniteSetTheorems, TLAPS

-----------------------------------------------------------------------------
(* The inductive invariant *)

(* What a request carries, by the handler it is in. *)
Asked(q) ==
  /\ q.op = "verify" => q.person \in Person /\ q.door \in Door
  /\ q.op = "password" => q.user \in Account
  /\ q.op = "issue" => \/ \E p \in Person : q = WorkerActor(p) \/ q = DriverActor(p)
                       \/ \E a \in Account : q = UserActor(a)
  /\ q.op = "create" =>
       \E p \in Person, pin \in Pin \cup {None}, isDriver \in BOOLEAN :
         q = [op |-> "create", person |-> p, row |-> NewPerson(pin, isDriver)]
  /\ q.op \in {"endWorker", "endDriver", "told"} =>
       \E p \in Person, held \in SUBSET SessionId :
         q = [op |-> q.op, person |-> p, held |-> held]
  /\ q.op = "command" =>
       \E s \in SessionId, p \in Person, perms \in {WorkerRole, WithDriving(WorkerRole)} :
         q = [op |-> "command", session |-> s, worker |-> p, perms |-> perms]
  /\ q.op = "context" =>
       \E s \in SessionId :
         \/ \E p \in Person :
              q = [op |-> "context", session |-> s, driver |-> p,
                   perms |-> WithDriving(WorkerRole)]
         \/ q = [op |-> "context", session |-> s, driver |-> None, perms |-> WorkerRole]

(* What still holds, when it acts, of what it read. *)
About(q) ==
  /\ q.op = "verify" => roster[q.person][q.door].status # "NONE"
  /\ q.op = "command" => q.session \in Issued /\ sessions[q.session].worker = q.worker
  /\ q.op = "context" => /\ q.session \in Issued
                         /\ q.driver \in {None, sessions[q.session].worker}
  /\ q.op \in {"endWorker", "endDriver", "told"} => q.held \subseteq Issued
  /\ q.op = "endDriver" =>
       \A s \in q.held : sessions[s].worker = q.person => sessions[s].ended
  /\ q.op = "told" =>
       \A s \in q.held : q.person \in {sessions[s].worker, sessions[s].driver}
                           => sessions[s].ended

RequestsOK ==
  /\ req = [r \in Request |-> req[r]]
  /\ \A r \in Request : Asked(req[r]) /\ About(req[r])

(* A row of the roster; the counter of failures is whatever a login wrote. *)
RowOK(row) ==
  /\ row = [status |-> row.status, pin |-> row.pin, lock |-> row.lock]
  /\ row.status \in {"NONE", "ACTIVE", "INACTIVE"}
  /\ row.status = "NONE" => row = NoRow

PersonOK(rows) ==
  /\ rows = [d \in Door |-> rows[d]]
  /\ \A d \in Door : RowOK(rows[d])
  /\ rows["driver"].status # "NONE" =>
       /\ rows["worker"].pin = rows["driver"].pin
       /\ rows["worker"].status = rows["driver"].status

RosterOK ==
  /\ roster = [p \in Person |-> roster[p]]
  /\ \A p \in Person : PersonOK(roster[p])

WholeRow(row) ==
  row.kind = "WORKER" =>
    /\ row.worker \in Person
    /\ row.perms = WorkerRole \cup (IF row.driver = None THEN {} ELSE {"driver"})

SessionsOK ==
  /\ sessions \in [SessionId -> SessionRow \cup {None}]
  /\ \A s \in Issued : WholeRow(sessions[s])
  /\ \E n \in 0..MaxSessions : Issued = 1..n

AccountsInv == clock \in Nat /\ RosterOK /\ SessionsOK /\ RequestsOK

-----------------------------------------------------------------------------
(* Sessions *)

(* What a step may do to a row that was issued: end it, or give its worker a     *)
(* driver or take him away, and nothing at all once it has ended.              *)
RowLasts(s) ==
  /\ sessions'[s] # None
  /\ sessions'[s].kind = sessions[s].kind
  /\ sessions'[s].worker = sessions[s].worker
  /\ sessions'[s].driver \in {sessions[s].driver, None, sessions[s].worker}
  /\ sessions[s].ended => sessions'[s] = sessions[s]

SessionsStep == SessionsOK' /\ \A s \in Issued : RowLasts(s)

LEMMA IssuedAreRows ==
  ASSUME SessionsOK, NEW s \in Issued
  PROVE  s \in SessionId /\ sessions[s] \in SessionRow /\ sessions[s] # None
BY NoneAssumption DEF SessionsOK, Issued

(* Sessions that nobody wrote are as they were. *)
LEMMA SessionsKept ==
  ASSUME SessionsOK, UNCHANGED sessions
  PROVE  SessionsStep
<1>1. Issued' = Issued
  BY DEF Issued
<1>2. SessionsOK'
  BY <1>1 DEF SessionsOK
<1>3. \A s \in Issued : RowLasts(s)
  BY DEF RowLasts, Issued
<1> QED
  BY <1>2, <1>3 DEF SessionsStep

(* Ending sessions ends those named that live, and touches no other column. *)
LEMMA EndSessionsStep ==
  ASSUME SessionsOK, NEW ended, EndSessions(ended)
  PROVE  /\ SessionsStep
         /\ Issued' = Issued
         /\ \A s \in Issued : /\ sessions'[s].driver = sessions[s].driver
                              /\ sessions[s].ended \/ ended[s] => sessions'[s].ended
<1>1. ASSUME NEW s \in SessionId
      PROVE  sessions'[s] = IF s \in Live /\ ended[s]
                            THEN [sessions[s] EXCEPT !.ended = TRUE] ELSE sessions[s]
  BY DEF EndSessions
<1>2. ASSUME NEW s \in Issued
      PROVE  /\ sessions'[s] \in SessionRow
             /\ sessions'[s] # None
             /\ sessions'[s].kind = sessions[s].kind
             /\ sessions'[s].worker = sessions[s].worker
             /\ sessions'[s].driver = sessions[s].driver
             /\ sessions'[s].perms = sessions[s].perms
             /\ sessions[s].ended => sessions'[s] = sessions[s]
             /\ sessions[s].ended \/ ended[s] => sessions'[s].ended
  <2>0. s \in SessionId /\ sessions[s] \in SessionRow
    BY <1>2, IssuedAreRows
  <2>1. CASE s \in Live /\ ended[s]
    <3>1. sessions'[s] = [sessions[s] EXCEPT !.ended = TRUE]
      BY <1>1, <2>0, <2>1
    <3>2. ~ sessions[s].ended
      BY <2>1 DEF Live
    <3>3. sessions'[s] \in SessionRow
      BY <3>1, <2>0 DEF SessionRow
    <3> QED
      BY <3>1, <3>2, <3>3, <2>0, NoneAssumption DEF SessionRow
  <2>2. CASE ~ (s \in Live /\ ended[s])
    <3>1. sessions'[s] = sessions[s]
      BY <1>1, <2>0, <2>2
    <3> QED
      BY <3>1, <2>0, <2>2, NoneAssumption DEF Live
  <2> QED
    BY <2>1, <2>2
<1>3. ASSUME NEW s \in SessionId \ Issued
      PROVE  sessions'[s] = None
  BY <1>1, <1>3 DEF Issued, Live
<1>4. Issued' = Issued
  BY <1>2, <1>3 DEF Issued
<1>5. sessions' \in [SessionId -> SessionRow \cup {None}]
  <2>1. sessions' = [s \in SessionId |-> sessions'[s]]
    BY DEF EndSessions
  <2> QED
    BY <2>1, <1>2, <1>3
<1>6. ASSUME NEW s \in Issued
      PROVE  WholeRow(sessions'[s])
  <2>1. WholeRow(sessions[s])
    BY <1>6 DEF SessionsOK
  <2> QED
    BY <1>2, <1>6, <2>1 DEF WholeRow
<1>7. SessionsOK'
  BY <1>4, <1>5, <1>6 DEF SessionsOK
<1>8. \A s \in Issued : RowLasts(s)
  BY <1>2 DEF RowLasts
<1> QED
  BY <1>2, <1>4, <1>7, <1>8 DEF SessionsStep

(* A new session takes the next number and writes over none. *)
LEMMA IssueStep ==
  ASSUME AccountsInv, NEW r \in Request, Issue(r)
  PROVE  SessionsStep
<1> DEFINE q == req[r]
           row == Session(q.kind, q.user, q.worker, q.driver, q.perms)
<1>1. PICK n \in 0..MaxSessions : Issued = 1..n
  BY DEF AccountsInv, SessionsOK
<1>2. Cardinality(Issued) = n
  <2>1. 1 \in Int /\ n \in Int /\ n >= 0
    BY AccountsAssumption
  <2>2. Cardinality(1..n) = IF 1 > n THEN 0 ELSE n - 1 + 1
    BY <2>1, FS_Interval
  <2> QED
    BY <1>1, <2>1, <2>2
<1>3. n + 1 \in SessionId /\ n + 1 \notin Issued /\ n < MaxSessions
  BY <1>1, <1>2, AccountsAssumption DEF Issue, SessionId
<1>4. sessions' = [sessions EXCEPT ![n + 1] = row]
  BY <1>2 DEF Issue
<1>5. q.op = "issue" /\ Asked(q)
  BY DEF Issue, Proceeds, AccountsInv, RequestsOK
<1>6. row \in SessionRow /\ WholeRow(row)
  <2>1. CASE \E p \in Person : q = WorkerActor(p)
    <3>1. PICK p \in Person : q = WorkerActor(p)
      BY <2>1
    <3>2. row = [kind |-> "WORKER", user |-> None, worker |-> p, driver |-> None,
                 perms |-> WorkerRole, created |-> clock, ended |-> FALSE]
      BY <3>1 DEF Session, WorkerActor
    <3> QED
      BY <3>2 DEF SessionRow, WholeRow, WorkerRole, Permission, AccountsInv
  <2>2. CASE \E p \in Person : q = DriverActor(p)
    <3>1. PICK p \in Person : q = DriverActor(p)
      BY <2>2
    <3>2. row = [kind |-> "DRIVER", user |-> None, worker |-> None, driver |-> p,
                 perms |-> DriverRole, created |-> clock, ended |-> FALSE]
      BY <3>1 DEF Session, DriverActor
    <3> QED
      BY <3>2 DEF SessionRow, WholeRow, DriverRole, Permission, AccountsInv
  <2>3. CASE \E a \in Account : q = UserActor(a)
    <3>1. PICK a \in Account : q = UserActor(a)
      BY <2>3
    <3>2. row = [kind |-> "USER", user |-> a, worker |-> None, driver |-> None,
                 perms |-> {"admin"}, created |-> clock, ended |-> FALSE]
      BY <3>1 DEF Session, UserActor
    <3> QED
      BY <3>2 DEF SessionRow, WholeRow, Permission, AccountsInv
  <2> QED
    BY <1>5, <2>1, <2>2, <2>3 DEF Asked
<1>7. sessions \in [SessionId -> SessionRow \cup {None}]
  BY DEF AccountsInv, SessionsOK
<1>8. /\ sessions'[n + 1] = row
      /\ \A s \in SessionId : s # n + 1 => sessions'[s] = sessions[s]
      /\ sessions' \in [SessionId -> SessionRow \cup {None}]
  BY <1>3, <1>4, <1>6, <1>7
<1>9. Issued' = Issued \cup {n + 1}
  BY <1>3, <1>6, <1>8, NoneAssumption DEF Issued
<1>10. Issued' = 1..(n + 1) /\ n + 1 \in 0..MaxSessions
  BY <1>1, <1>3, <1>9, AccountsAssumption
<1>11. \A s \in Issued' : WholeRow(sessions'[s])
  <2>1. ASSUME NEW s \in Issued
        PROVE  WholeRow(sessions'[s])
    BY <2>1, <1>3, <1>8, IssuedAreRows DEF AccountsInv, SessionsOK
  <2> QED
    BY <1>6, <1>8, <1>9, <2>1
<1>12. SessionsOK'
  BY <1>8, <1>10, <1>11 DEF SessionsOK
<1>13. ASSUME NEW s \in Issued
       PROVE  RowLasts(s)
  <2>1. sessions'[s] = sessions[s] /\ sessions[s] # None
    BY <1>3, <1>8, <1>13, IssuedAreRows DEF AccountsInv
  <2> QED
    BY <2>1 DEF RowLasts
<1> QED
  BY <1>12, <1>13 DEF SessionsStep

(* The context of a command is written whole, on its worker's session, while that *)
(* lives.                                                                     *)
LEMMA SetDrivingContextStep ==
  ASSUME AccountsInv, NEW r \in Request, SetDrivingContext(r)
  PROVE  SessionsStep
<1> DEFINE q == req[r]
           s == q.session
<1>1. q.op = "context" /\ Asked(q) /\ About(q)
  BY DEF SetDrivingContext, Proceeds, AccountsInv, RequestsOK
<1>2. SessionsOK
  BY DEF AccountsInv
<1>3. s \in Issued /\ q.driver \in {None, sessions[s].worker}
  BY <1>1 DEF About
<1>4. s \in SessionId /\ sessions[s] \in SessionRow /\ sessions[s] # None
  BY <1>2, <1>3, IssuedAreRows
<1>5. CASE sessions[s].kind = "WORKER" /\ ~ sessions[s].ended
  <2>1. sessions' = [sessions EXCEPT ![s].driver = q.driver, ![s].perms = q.perms]
    BY <1>5 DEF SetDrivingContext
  <2>2. sessions \in [SessionId -> SessionRow \cup {None}]
    BY <1>2 DEF SessionsOK
  <2>3. /\ sessions'[s] = [sessions[s] EXCEPT !.driver = q.driver, !.perms = q.perms]
        /\ \A t \in SessionId : t # s => sessions'[t] = sessions[t]
        /\ sessions' = [t \in SessionId |-> sessions'[t]]
    BY <1>4, <2>1, <2>2
  <2>4. /\ q.driver \in Person \cup {None}
        /\ q.perms = WorkerRole \cup (IF q.driver = None THEN {} ELSE {"driver"})
    <3>1. CASE \E t \in SessionId, p \in Person :
                 q = [op |-> "context", session |-> t, driver |-> p,
                      perms |-> WithDriving(WorkerRole)]
      <4>1. PICK p \in Person : q.driver = p /\ q.perms = WithDriving(WorkerRole)
        BY <3>1
      <4> QED
        BY <4>1, NoneAssumption DEF WithDriving, DrivingPermissions
    <3>2. CASE \E t \in SessionId :
                 q = [op |-> "context", session |-> t, driver |-> None, perms |-> WorkerRole]
      BY <3>2
    <3> QED
      BY <1>1, <3>1, <3>2 DEF Asked
  <2>5. /\ sessions'[s] \in SessionRow
        /\ sessions'[s].kind = sessions[s].kind
        /\ sessions'[s].worker = sessions[s].worker
        /\ sessions'[s].driver = q.driver
        /\ sessions'[s].perms = q.perms
        /\ sessions'[s].ended = sessions[s].ended
    <3>1. q.perms \in SUBSET Permission
      BY <2>4 DEF WorkerRole, Permission
    <3> QED
      BY <2>3, <2>4, <3>1, <1>4 DEF SessionRow
  <2>6. sessions' \in [SessionId -> SessionRow \cup {None}]
    BY <2>2, <2>3, <2>5
  <2>7. Issued' = Issued
    BY <1>3, <2>3, <2>5, NoneAssumption DEF Issued
  <2>8. WholeRow(sessions'[s])
    BY <1>2, <1>3, <1>5, <2>4, <2>5 DEF WholeRow, SessionsOK
  <2>9. \A t \in Issued : WholeRow(sessions'[t])
    BY <1>2, <2>3, <2>8, IssuedAreRows DEF SessionsOK
  <2>10. SessionsOK'
    BY <1>2, <2>6, <2>7, <2>9 DEF SessionsOK
  <2>11. ASSUME NEW t \in Issued
         PROVE  RowLasts(t)
    <3>1. CASE t = s
      BY <1>3, <1>5, <2>5, <3>1, NoneAssumption DEF RowLasts
    <3>2. CASE t # s
      BY <1>2, <2>3, <2>11, <3>2, IssuedAreRows DEF RowLasts
    <3> QED
      BY <3>1, <3>2
  <2> QED
    BY <2>10, <2>11 DEF SessionsStep
<1>6. CASE ~ (sessions[s].kind = "WORKER" /\ ~ sessions[s].ended)
  <2>1. UNCHANGED sessions
    BY <1>6 DEF SetDrivingContext
  <2> QED
    BY <1>2, <2>1, SessionsKept
<1> QED
  BY <1>5, <1>6

SessionsMove ==
  \/ \E r \in Request : \/ Issue(r) \/ EndWorkerSessions(r) \/ EndDriverSessions(r)
                        \/ SetDrivingContext(r)
                        \/ \E s \in SessionId : Logout(r, s)

(* No other statement writes the table. *)
LEMMA WhoMovesSessions ==
  ASSUME [Next]_vars
  PROVE  UNCHANGED sessions \/ SessionsMove
<1>1. CASE UNCHANGED vars
  BY <1>1 DEF vars
<1>2. CASE Tick \/ \E p \in Person : EndTrip(p)
  BY <1>2 DEF Tick, EndTrip
<1>3. ASSUME NEW r \in Request,
             \/ \E p \in Person, pin \in Pin : WorkerLogin(r, p, pin) \/ DriverLogin(r, p, pin)
             \/ \E e \in Address, good \in BOOLEAN : PasswordLogin(r, e, good)
             \/ \E s \in SessionId : Authenticate(r, s)
             \/ \E a \in Account, e \in Address : ChangeEmailRead(r, a, e)
             \/ \E e \in Address : RegisterRead(r, e)
      PROVE  UNCHANGED sessions
  BY <1>3 DEF WorkerLogin, DriverLogin, PinLoginRead, PasswordLogin, Authenticate,
              ChangeEmailRead, RegisterRead
<1>4. ASSUME NEW r \in Request,
             \/ \E p \in Person, pin \in Pin \cup {None}, isDriver \in BOOLEAN :
                  CreateWorkerRead(r, p, pin, isDriver)
             \/ \E p \in Person, pin \in Pin \cup {None},
                   status \in {"ACTIVE", "INACTIVE", None} : PatchWorker(r, p, pin, status)
             \/ PinVerify(r) \/ PasswordVerify(r) \/ Answer(r)
             \/ CreateWorkerWrite(r) \/ ChangeEmailWrite(r) \/ RegisterWrite(r)
             \/ BeginDriving(r) \/ LeaveDriving(r) \/ Crash(r)
      PROVE  UNCHANGED sessions
  BY <1>4 DEF CreateWorkerRead, PatchWorker, PinVerify, PasswordVerify, Answer,
              CreateWorkerWrite, ChangeEmailWrite, RegisterWrite, BeginDriving,
              LeaveDriving, Crash
<1> QED
  BY <1>1, <1>2, <1>3, <1>4 DEF Next, SessionsMove

LEMMA EveryStepOfSessions ==
  ASSUME AccountsInv, [Next]_vars
  PROVE  SessionsStep
<1>0. SessionsOK
  BY DEF AccountsInv
<1>1. CASE UNCHANGED sessions
  BY <1>0, <1>1, SessionsKept
<1>2. CASE SessionsMove
  <2>1. PICK r \in Request : \/ Issue(r) \/ EndWorkerSessions(r) \/ EndDriverSessions(r)
                             \/ SetDrivingContext(r)
                             \/ \E s \in SessionId : Logout(r, s)
    BY <1>2 DEF SessionsMove
  <2>2. CASE Issue(r)
    BY <2>2, IssueStep
  <2>3. CASE SetDrivingContext(r)
    BY <2>3, SetDrivingContextStep
  <2>4. CASE EndWorkerSessions(r) \/ EndDriverSessions(r) \/ \E s \in SessionId : Logout(r, s)
    <3>1. PICK ended : EndSessions(ended)
      BY <2>4 DEF EndWorkerSessions, EndDriverSessions, Logout
    <3> QED
      BY <1>0, <3>1, EndSessionsStep
  <2> QED
    BY <2>1, <2>2, <2>3, <2>4
<1> QED
  BY <1>1, <1>2, WhoMovesSessions

-----------------------------------------------------------------------------
(* The roster *)

(* People stay on the roster: what has a status keeps having one. *)
RosterStep ==
  /\ RosterOK'
  /\ \A p \in Person, d \in Door :
       roster[p][d].status # "NONE" => roster'[p][d].status # "NONE"

LEMMA RosterKept ==
  ASSUME RosterOK, UNCHANGED roster
  PROVE  RosterStep
BY DEF RosterOK, RosterStep

(* A write to one person's rows that leaves them fit is a step of the roster. *)
LEMMA PersonWritten ==
  ASSUME RosterOK, NEW p \in Person, NEW rows, PersonOK(rows),
         roster' = [roster EXCEPT ![p] = rows],
         \A d \in Door : roster[p][d].status # "NONE" => rows[d].status # "NONE"
  PROVE  RosterStep
<1>1. /\ roster' = [o \in Person |-> roster'[o]]
      /\ roster'[p] = rows
      /\ \A o \in Person : o # p => roster'[o] = roster[o]
  BY DEF RosterOK
<1>2. RosterOK'
  BY <1>1 DEF RosterOK
<1> QED
  BY <1>1, <1>2 DEF RosterStep

LEMMA LockWritten ==
  ASSUME NEW row, RowOK(row), NEW lock
  PROVE  [row EXCEPT !.lock = lock] = [status |-> row.status, pin |-> row.pin, lock |-> lock]
BY DEF RowOK

LEMMA PinVerifyRoster ==
  ASSUME AccountsInv, NEW r \in Request, PinVerify(r)
  PROVE  RosterStep
<1> DEFINE q == req[r]
           p == q.person
           d == q.door
<1>1. q.op = "verify" /\ Asked(q) /\ About(q)
  BY DEF PinVerify, Proceeds, AccountsInv, RequestsOK
<1>2. p \in Person /\ d \in Door /\ roster[p][d].status # "NONE"
  BY <1>1 DEF Asked, About
<1>3. RosterOK
  BY DEF AccountsInv
<1>4. PICK lock : roster' = [roster EXCEPT ![p][d].lock = lock]
  BY DEF PinVerify
<1>5. PersonOK(roster[p])
  BY <1>2, <1>3 DEF RosterOK
<1> DEFINE rows == [roster[p] EXCEPT ![d].lock = lock]
<1>6. roster' = [roster EXCEPT ![p] = rows]
  BY <1>4
<1>7. /\ rows = [e \in Door |-> rows[e]]
      /\ rows[d] = [roster[p][d] EXCEPT !.lock = lock]
      /\ \A e \in Door : e # d => rows[e] = roster[p][e]
  BY <1>2, <1>5 DEF PersonOK
<1>8. RowOK(roster[p][d])
  BY <1>2, <1>5 DEF PersonOK
<1>9. /\ rows[d] = [status |-> rows[d].status, pin |-> rows[d].pin, lock |-> rows[d].lock]
      /\ rows[d].status = roster[p][d].status
      /\ rows[d].pin = roster[p][d].pin
  <2>1. rows[d] = [status |-> roster[p][d].status, pin |-> roster[p][d].pin, lock |-> lock]
    BY <1>7, <1>8, LockWritten
  <2> HIDE DEF rows
  <2> QED
    BY <2>1
<1>10. RowOK(rows[d])
  BY <1>2, <1>8, <1>9 DEF RowOK
<1>11. \A e \in Door : /\ RowOK(rows[e])
                       /\ rows[e].status = roster[p][e].status
                       /\ rows[e].pin = roster[p][e].pin
  BY <1>5, <1>7, <1>9, <1>10 DEF PersonOK
<1>12. PersonOK(rows)
  BY <1>5, <1>7, <1>11 DEF PersonOK, Door
<1> HIDE DEF rows
<1> QED
  BY <1>2, <1>3, <1>6, <1>11, <1>12, PersonWritten

LEMMA NewPersonIsFit ==
  ASSUME NEW pin, NEW isDriver \in BOOLEAN
  PROVE  PersonOK(NewPerson(pin, isDriver))
<1>1. \A d \in Door : NewPerson(pin, isDriver)[d] =
                        IF d = "worker" \/ isDriver THEN NewRow(pin) ELSE NoRow
  BY DEF NewPerson
<1>2. RowOK(NoRow) /\ NoRow.status = "NONE"
  BY DEF RowOK, NoRow
<1>3. RowOK(NewRow(pin)) /\ NewRow(pin).status = "ACTIVE"
  BY DEF RowOK, NewRow
<1>4. NewPerson(pin, isDriver) = [d \in Door |-> NewPerson(pin, isDriver)[d]]
  BY DEF NewPerson
<1>5. /\ NewPerson(pin, isDriver)["worker"] = NewRow(pin)
      /\ NewPerson(pin, isDriver)["driver"] \in {NewRow(pin), NoRow}
  BY <1>1 DEF Door
<1> QED
  BY <1>1, <1>2, <1>3, <1>4, <1>5 DEF PersonOK

LEMMA AbsentIsFit == PersonOK(Absent)
<1>1. /\ Absent = [d \in Door |-> Absent[d]]
      /\ \A d \in Door : Absent[d] = NoRow
      /\ Absent["driver"] = NoRow
  BY DEF Absent, Door
<1>2. RowOK(NoRow) /\ NoRow.status = "NONE"
  BY DEF RowOK, NoRow
<1> QED
  BY <1>1, <1>2 DEF PersonOK

LEMMA CreateWorkerRoster ==
  ASSUME AccountsInv, NEW r \in Request, CreateWorkerWrite(r)
  PROVE  RosterStep
<1>1. req[r].op = "create" /\ Asked(req[r]) /\ RosterOK
  BY DEF CreateWorkerWrite, Proceeds, AccountsInv, RequestsOK
<1>2. PICK p \in Person, pin \in Pin \cup {None}, isDriver \in BOOLEAN :
        req[r] = [op |-> "create", person |-> p, row |-> NewPerson(pin, isDriver)]
  BY <1>1 DEF Asked
<1>3. req[r].person = p /\ req[r].row = NewPerson(pin, isDriver)
  BY <1>2
<1>4. CASE roster[p] = Absent
  <2>1. roster' = [roster EXCEPT ![p] = NewPerson(pin, isDriver)]
    BY <1>3, <1>4 DEF CreateWorkerWrite
  <2>2. \A d \in Door : roster[p][d].status = "NONE"
    BY <1>4 DEF Absent, NoRow
  <2> QED
    BY <1>1, <2>1, <2>2, NewPersonIsFit, PersonWritten
<1>5. CASE roster[p] # Absent
  <2>1. UNCHANGED roster
    BY <1>3, <1>5 DEF CreateWorkerWrite
  <2> QED
    BY <1>1, <2>1, RosterKept
<1> QED
  BY <1>4, <1>5

(* The transaction over both rows patches each alike. *)
LEMMA PatchedRow ==
  ASSUME NEW row, RowOK(row), row.status # "NONE", NEW pin,
         NEW status \in {"ACTIVE", "INACTIVE", None}
  PROVE  /\ RowOK(Patched(row, pin, status))
         /\ Patched(row, pin, status).status = IF status = None THEN row.status ELSE status
         /\ Patched(row, pin, status).pin = IF pin = None THEN row.pin ELSE pin
         /\ Patched(row, pin, status).status # "NONE"
<1> DEFINE named == IF status = None THEN row ELSE [row EXCEPT !.status = status]
<1>1. row = [status |-> row.status, pin |-> row.pin, lock |-> row.lock]
  BY DEF RowOK
<1>2. named = [status |-> IF status = None THEN row.status ELSE status,
               pin |-> row.pin, lock |-> row.lock]
  <2>1. CASE status = None
    BY <1>1, <2>1
  <2>2. CASE status # None
    BY <1>1, <2>2
  <2> QED
    BY <2>1, <2>2
<1> DEFINE patched == Patched(row, pin, status)
<1>3. /\ patched = [status |-> patched.status, pin |-> patched.pin, lock |-> patched.lock]
      /\ patched.status = IF status = None THEN row.status ELSE status
      /\ patched.pin = IF pin = None THEN row.pin ELSE pin
  <2>1. CASE pin = None
    <3>1. patched = named
      BY <2>1 DEF Patched
    <3> QED
      BY <1>2, <2>1, <3>1
  <2>2. CASE pin # None
    <3>1. patched = [named EXCEPT !.pin = pin, !.lock = RegisterSuccess]
      BY <2>2 DEF Patched
    <3>2. patched = [status |-> IF status = None THEN row.status ELSE status,
                     pin |-> pin, lock |-> RegisterSuccess]
      BY <1>2, <3>1
    <3> QED
      BY <2>2, <3>2
  <2> QED
    BY <2>1, <2>2
<1>4. patched.status # "NONE" /\ patched.status \in {"NONE", "ACTIVE", "INACTIVE"}
  BY <1>3 DEF RowOK
<1> QED
  BY <1>3, <1>4 DEF RowOK

LEMMA PatchWorkerRoster ==
  ASSUME AccountsInv, NEW r \in Request, NEW p \in Person, NEW pin \in Pin \cup {None},
         NEW status \in {"ACTIVE", "INACTIVE", None}, PatchWorker(r, p, pin, status)
  PROVE  RosterStep
<1>1. RosterOK /\ PersonOK(roster[p])
  BY DEF AccountsInv, RosterOK
<1> DEFINE rows == PatchPerson(p, pin, status)
<1>2. roster' = [roster EXCEPT ![p] = rows]
  BY DEF PatchWorker
<1>3. /\ rows = [d \in Door |-> rows[d]]
      /\ \A d \in Door : rows[d] = IF roster[p][d] = NoRow THEN NoRow
                                   ELSE Patched(roster[p][d], pin, status)
  BY DEF PatchPerson
<1>4. ASSUME NEW d \in Door, roster[p][d].status # "NONE"
      PROVE  /\ RowOK(rows[d])
             /\ rows[d].status = IF status = None THEN roster[p][d].status ELSE status
             /\ rows[d].pin = IF pin = None THEN roster[p][d].pin ELSE pin
             /\ rows[d].status # "NONE"
  <2>1. roster[p][d] # NoRow
    BY <1>4 DEF NoRow
  <2>2. rows[d] = Patched(roster[p][d], pin, status)
    BY <1>3, <2>1
  <2>3. RowOK(roster[p][d])
    BY <1>1 DEF PersonOK
  <2> QED
    BY <1>4, <2>2, <2>3, PatchedRow
<1>5. ASSUME NEW d \in Door, roster[p][d].status = "NONE"
      PROVE  RowOK(rows[d]) /\ rows[d].status = "NONE"
  <2>1. roster[p][d] = NoRow
    BY <1>1, <1>5 DEF PersonOK, RowOK
  <2>2. rows[d] = NoRow
    BY <1>3, <2>1
  <2> QED
    BY <2>2 DEF RowOK, NoRow
<1>6. rows["driver"].status # "NONE" =>
        /\ rows["worker"].pin = rows["driver"].pin
        /\ rows["worker"].status = rows["driver"].status
  <2> SUFFICES ASSUME rows["driver"].status # "NONE"
               PROVE  /\ rows["worker"].pin = rows["driver"].pin
                      /\ rows["worker"].status = rows["driver"].status
    OBVIOUS
  <2>1. "worker" \in Door /\ "driver" \in Door
    BY DEF Door
  <2>2. roster[p]["driver"].status # "NONE"
    BY <1>5, <2>1
  <2>3. /\ roster[p]["worker"].pin = roster[p]["driver"].pin
        /\ roster[p]["worker"].status = roster[p]["driver"].status
    BY <1>1, <2>2 DEF PersonOK
  <2> QED
    BY <1>4, <2>1, <2>2, <2>3
<1>7. PersonOK(rows)
  BY <1>3, <1>4, <1>5, <1>6 DEF PersonOK
<1> HIDE DEF rows
<1> QED
  BY <1>1, <1>2, <1>4, <1>7, PersonWritten

LEMMA EveryStepOfTheRoster ==
  ASSUME AccountsInv, [Next]_vars
  PROVE  RosterStep
<1>0. RosterOK
  BY DEF AccountsInv
<1>1. CASE UNCHANGED roster
  BY <1>0, <1>1, RosterKept
<1>2. ASSUME NEW r \in Request, PinVerify(r) \/ CreateWorkerWrite(r)
      PROVE  RosterStep
  BY <1>2, PinVerifyRoster, CreateWorkerRoster
<1>3. ASSUME NEW r \in Request, NEW p \in Person, NEW pin \in Pin \cup {None},
             NEW status \in {"ACTIVE", "INACTIVE", None}, PatchWorker(r, p, pin, status)
      PROVE  RosterStep
  BY <1>3, PatchWorkerRoster
<1>4. ASSUME NEW r \in Request,
             \/ \E p \in Person, pin \in Pin : WorkerLogin(r, p, pin) \/ DriverLogin(r, p, pin)
             \/ \E e \in Address, good \in BOOLEAN : PasswordLogin(r, e, good)
             \/ \E s \in SessionId : Logout(r, s) \/ Authenticate(r, s)
             \/ \E p \in Person, pin \in Pin \cup {None}, isDriver \in BOOLEAN :
                  CreateWorkerRead(r, p, pin, isDriver)
             \/ \E a \in Account, e \in Address : ChangeEmailRead(r, a, e)
             \/ \E e \in Address : RegisterRead(r, e)
      PROVE  UNCHANGED roster
  BY <1>4 DEF WorkerLogin, DriverLogin, PinLoginRead, PasswordLogin, Logout, Authenticate,
              CreateWorkerRead, ChangeEmailRead, RegisterRead
<1>5. ASSUME NEW r \in Request,
             \/ PasswordVerify(r) \/ Issue(r)
             \/ EndWorkerSessions(r) \/ EndDriverSessions(r) \/ Answer(r)
             \/ ChangeEmailWrite(r) \/ RegisterWrite(r)
             \/ BeginDriving(r) \/ LeaveDriving(r) \/ SetDrivingContext(r) \/ Crash(r)
      PROVE  UNCHANGED roster
  BY <1>5 DEF PasswordVerify, Issue, EndWorkerSessions, EndDriverSessions, Answer,
              ChangeEmailWrite, RegisterWrite, BeginDriving, LeaveDriving,
              SetDrivingContext, Crash
<1>6. CASE UNCHANGED vars \/ Tick \/ \E p \in Person : EndTrip(p)
  BY <1>1, <1>6 DEF vars, Tick, EndTrip
<1> QED
  BY <1>1, <1>2, <1>3, <1>4, <1>5, <1>6 DEF Next

-----------------------------------------------------------------------------
(* Requests *)

(* What a request holds stays true of the tables while other requests write them. *)
LEMMA AboutLasts ==
  ASSUME SessionsOK, SessionsStep, RosterStep, NEW q, Asked(q), About(q)
  PROVE  About(q)'
<1>1. ASSUME NEW s \in Issued
      PROVE  /\ s \in SessionId /\ s \in Issued'
             /\ sessions'[s].worker = sessions[s].worker
             /\ sessions'[s].driver \in {sessions[s].driver, None, sessions[s].worker}
             /\ sessions[s].ended => sessions'[s] = sessions[s]
  BY <1>1, IssuedAreRows DEF SessionsStep, RowLasts, Issued
<1>2. q.op = "verify" => roster'[q.person][q.door].status # "NONE"
  BY DEF About, Asked, RosterStep
<1>3. q.op = "command" => q.session \in Issued' /\ sessions'[q.session].worker = q.worker
  BY <1>1 DEF About
<1>4. q.op = "context" => /\ q.session \in Issued'
                          /\ q.driver \in {None, sessions'[q.session].worker}
  BY <1>1 DEF About
<1>5. q.op \in {"endWorker", "endDriver", "told"} =>
        q.held \subseteq Issued /\ q.held \subseteq Issued' /\ q.person \in Person
  <2> SUFFICES ASSUME q.op \in {"endWorker", "endDriver", "told"}
               PROVE  q.held \subseteq Issued /\ q.held \subseteq Issued' /\ q.person \in Person
    OBVIOUS
  <2>1. PICK p \in Person, held \in SUBSET SessionId :
          q = [op |-> q.op, person |-> p, held |-> held]
    BY DEF Asked
  <2>2. q.person = p
    BY <2>1
  <2> QED
    BY <1>1, <2>2 DEF About
<1>6. q.op = "endDriver" =>
        \A s \in q.held : sessions'[s].worker = q.person => sessions'[s].ended
  BY <1>1, <1>5 DEF About
<1>7. ASSUME q.op = "told", NEW s \in q.held,
             q.person \in {sessions'[s].worker, sessions'[s].driver}
      PROVE  sessions'[s].ended
  <2>1. s \in Issued /\ q.person # None
    BY <1>5, <1>7, NoneAssumption
  <2>2. q.person \in {sessions[s].worker, sessions[s].driver}
    BY <1>1, <1>7, <2>1
  <2>3. sessions[s].ended
    BY <1>7, <2>2 DEF About
  <2> QED
    BY <1>1, <2>1, <2>3
<1> QED
  BY <1>2, <1>3, <1>4, <1>5, <1>6, <1>7 DEF About

(* Request r goes on with q, which is fit. *)
Goes(r) == \E q : Go(r, q) /\ Asked(q) /\ About(q)'

LEMMA IdleIsFit == Asked(Idle) /\ About(Idle)'
<1>1. Idle.op = "idle"
  BY DEF Idle
<1> QED
  BY <1>1 DEF Asked, About

LEMMA DoneGoes == ASSUME NEW r, Done(r) PROVE Goes(r)
BY IdleIsFit DEF Done, Goes

LEMMA ActorIsFit ==
  ASSUME NEW q, \/ \E p \in Person : q = WorkerActor(p) \/ q = DriverActor(p)
                \/ \E a \in Account : q = UserActor(a)
  PROVE  Asked(q) /\ About(q)'
<1>1. q.op = "issue"
  BY DEF WorkerActor, DriverActor, UserActor
<1> QED
  BY <1>1 DEF Asked, About

LEMMA PinLoginGoes ==
  ASSUME NEW r \in Request, NEW door \in Door, NEW p \in Person, NEW pin,
         RosterStep, PinLoginRead(r, door, p, pin)
  PROVE  Goes(r)
<1>1. CASE Done(r)
  BY <1>1, DoneGoes
<1>2. CASE ~ Done(r)
  <2> DEFINE row == roster[p][door]
             q == [op |-> "verify", door |-> door, person |-> p, pin |-> pin,
                   row |-> row, at |-> clock]
  <2>1. row.status = "ACTIVE" /\ Go(r, q)
    BY <1>2 DEF PinLoginRead
  <2>2. q.op = "verify" /\ q.door = door /\ q.person = p
    OBVIOUS
  <2>3. roster'[p][door].status # "NONE"
    BY <2>1 DEF RosterStep
  <2>4. PICK v : v = q
    OBVIOUS
  <2>5. Go(r, v) /\ v.op = "verify" /\ v.door = door /\ v.person = p
    BY <2>1, <2>2, <2>4
  <2>6. Asked(v) /\ About(v)'
    BY <2>3, <2>5 DEF Asked, About
  <2> QED
    BY <2>5, <2>6 DEF Goes
<1> QED
  BY <1>1, <1>2

LEMMA PinVerifyGoes ==
  ASSUME AccountsInv, NEW r \in Request, PinVerify(r)
  PROVE  Goes(r)
<1>1. req[r].person \in Person /\ req[r].door \in Door
  BY DEF PinVerify, Proceeds, AccountsInv, RequestsOK, Asked
<1>2. \/ Done(r)
      \/ Go(r, WorkerActor(req[r].person))
      \/ Go(r, DriverActor(req[r].person))
  BY <1>1 DEF PinVerify, Door
<1>3. ASSUME NEW q, q \in {WorkerActor(req[r].person), DriverActor(req[r].person)}, Go(r, q)
      PROVE  Goes(r)
  BY <1>1, <1>3, ActorIsFit DEF Goes
<1> QED
  BY <1>2, <1>3, DoneGoes

LEMMA PasswordLoginGoes ==
  ASSUME NEW r \in Request, NEW e \in Address, NEW good \in BOOLEAN, PasswordLogin(r, e, good)
  PROVE  Goes(r)
<1>1. CASE Done(r)
  BY <1>1, DoneGoes
<1>2. CASE ~ Done(r)
  <2> DEFINE a == CHOOSE a \in Registered : accounts[a].address = e
             q == [op |-> "password", good |-> good, address |-> e, user |-> a]
  <2>1. e \in TakenAddresses /\ Go(r, q)
    BY <1>2 DEF PasswordLogin
  <2>2. a \in Account
    BY <2>1 DEF TakenAddresses, Registered
  <2>3. PICK v : v = q
    OBVIOUS
  <2>4. Go(r, v) /\ v.op = "password" /\ v.user \in Account
    BY <2>1, <2>2, <2>3
  <2>5. Asked(v) /\ About(v)'
    BY <2>4 DEF Asked, About
  <2> QED
    BY <2>4, <2>5 DEF Goes
<1> QED
  BY <1>1, <1>2

LEMMA PasswordVerifyGoes ==
  ASSUME AccountsInv, NEW r \in Request, PasswordVerify(r)
  PROVE  Goes(r)
<1>1. req[r].user \in Account
  BY DEF PasswordVerify, Proceeds, AccountsInv, RequestsOK, Asked
<1>2. CASE Go(r, UserActor(req[r].user))
  <2>1. PICK q : q = UserActor(req[r].user)
    OBVIOUS
  <2> QED
    BY <1>1, <1>2, <2>1, ActorIsFit DEF Goes
<1> QED
  BY <1>2, DoneGoes DEF PasswordVerify

LEMMA RegisterWriteGoes ==
  ASSUME NEW r \in Request, RegisterWrite(r)
  PROVE  Goes(r)
<1>1. CASE Done(r)
  BY <1>1, DoneGoes
<1>2. CASE ~ Done(r)
  <2>1. PICK a \in Account : Go(r, UserActor(a))
    BY <1>2 DEF RegisterWrite
  <2>2. PICK q : q = UserActor(a)
    OBVIOUS
  <2> QED
    BY <2>1, <2>2, ActorIsFit DEF Goes
<1> QED
  BY <1>1, <1>2

LEMMA CreateWorkerGoes ==
  ASSUME NEW r \in Request, NEW p \in Person, NEW pin \in Pin \cup {None},
         NEW isDriver \in BOOLEAN, CreateWorkerRead(r, p, pin, isDriver)
  PROVE  Goes(r)
<1>1. CASE Done(r)
  BY <1>1, DoneGoes
<1>2. CASE ~ Done(r)
  <2>1. PICK q : q = [op |-> "create", person |-> p, row |-> NewPerson(pin, isDriver)]
    OBVIOUS
  <2>2. Go(r, q)
    BY <1>2, <2>1 DEF CreateWorkerRead
  <2>3. q.op = "create"
    BY <2>1
  <2>4. Asked(q) /\ About(q)'
    BY <2>1, <2>3 DEF Asked, About
  <2> QED
    BY <2>2, <2>4 DEF Goes
<1> QED
  BY <1>1, <1>2

(* The sessions a change goes on to end are those that live as it commits. *)
LEMMA PatchWorkerGoes ==
  ASSUME NEW r \in Request, NEW p \in Person, NEW pin \in Pin \cup {None},
         NEW status \in {"ACTIVE", "INACTIVE", None}, PatchWorker(r, p, pin, status)
  PROVE  Goes(r)
<1>1. CASE Done(r)
  BY <1>1, DoneGoes
<1>2. CASE ~ Done(r)
  <2>1. PICK held : held = Live
    OBVIOUS
  <2>2. PICK q : q = [op |-> "endWorker", person |-> p, held |-> held]
    OBVIOUS
  <2>3. Go(r, q)
    BY <1>2, <2>1, <2>2 DEF PatchWorker
  <2>4. q.op = "endWorker" /\ q.held = held
    BY <2>2
  <2>5. held \subseteq Issued' /\ held \in SUBSET SessionId
    BY <2>1 DEF PatchWorker, Live, Issued
  <2>6. Asked(q)
    BY <2>2, <2>4, <2>5 DEF Asked
  <2>7. About(q)'
    BY <2>4, <2>5 DEF About
  <2> QED
    BY <2>3, <2>6, <2>7 DEF Goes
<1> QED
  BY <1>1, <1>2

(* First the worker's sessions, then the driver's: an elevated one is both. *)
LEMMA EndWorkerGoes ==
  ASSUME AccountsInv, NEW r \in Request, EndWorkerSessions(r)
  PROVE  Goes(r)
<1>1. req[r].op = "endWorker" /\ Asked(req[r]) /\ About(req[r])
  BY DEF EndWorkerSessions, Proceeds, AccountsInv, RequestsOK
<1>2. PICK p \in Person, held \in SUBSET SessionId :
        req[r] = [op |-> "endWorker", person |-> p, held |-> held]
  BY <1>1 DEF Asked
<1>3. PICK q : q = [op |-> "endDriver", person |-> p, held |-> held]
  OBVIOUS
<1>4. [req[r] EXCEPT !.op = "endDriver"] = q
  BY <1>2, <1>3
<1>5. Go(r, q)
  BY <1>4 DEF EndWorkerSessions
<1>6. q.op = "endDriver" /\ q.person = p /\ q.held = held
  BY <1>3
<1>7. PICK ended : /\ EndSessions(ended)
                   /\ \A s \in SessionId : ended[s] = (s \in Live /\ sessions[s].worker = p)
  <2>1. req[r].person = p
    BY <1>2
  <2> QED
    BY <2>1 DEF EndWorkerSessions
<1>8. held \subseteq Issued
  BY <1>1, <1>2 DEF About
<1>9. SessionsOK
  BY DEF AccountsInv
<1>10. ASSUME NEW s \in held, sessions'[s].worker = p
       PROVE  sessions'[s].ended
  <2>1. s \in Issued /\ s \in SessionId
    BY <1>8
  <2>2. sessions[s].worker = p
    BY <1>7, <1>9, <1>10, <2>1, EndSessionsStep DEF SessionsStep, RowLasts
  <2>3. sessions[s].ended \/ ended[s]
    BY <1>7, <2>1, <2>2 DEF Live
  <2> QED
    BY <1>7, <1>9, <2>1, <2>3, EndSessionsStep
<1>11. held \subseteq Issued'
  BY <1>7, <1>8, <1>9, EndSessionsStep
<1>12. Asked(q)
  BY <1>3, <1>6 DEF Asked
<1>13. About(q)'
  BY <1>6, <1>10, <1>11 DEF About
<1> QED
  BY <1>5, <1>12, <1>13 DEF Goes

LEMMA EndDriverGoes ==
  ASSUME AccountsInv, NEW r \in Request, EndDriverSessions(r)
  PROVE  Goes(r)
<1>1. req[r].op = "endDriver" /\ Asked(req[r]) /\ About(req[r])
  BY DEF EndDriverSessions, Proceeds, AccountsInv, RequestsOK
<1>2. PICK p \in Person, held \in SUBSET SessionId :
        req[r] = [op |-> "endDriver", person |-> p, held |-> held]
  BY <1>1 DEF Asked
<1>3. PICK q : q = [op |-> "told", person |-> p, held |-> held]
  OBVIOUS
<1>4. [req[r] EXCEPT !.op = "told"] = q
  BY <1>2, <1>3
<1>5. Go(r, q)
  BY <1>4 DEF EndDriverSessions
<1>6. q.op = "told" /\ q.person = p /\ q.held = held
  BY <1>3
<1>7. PICK ended : /\ EndSessions(ended)
                   /\ \A s \in SessionId : ended[s] = (s \in Live /\ sessions[s].driver = p)
  <2>1. req[r].person = p
    BY <1>2
  <2> QED
    BY <2>1 DEF EndDriverSessions
<1>8. /\ held \subseteq Issued
      /\ \A s \in held : sessions[s].worker = p => sessions[s].ended
  <2>1. req[r].person = p /\ req[r].held = held
    BY <1>2
  <2> QED
    BY <1>1, <2>1 DEF About
<1>9. SessionsOK
  BY DEF AccountsInv
<1>10. ASSUME NEW s \in held, p \in {sessions'[s].worker, sessions'[s].driver}
       PROVE  sessions'[s].ended
  <2>1. s \in Issued /\ s \in SessionId
    BY <1>8
  <2>2. p \in {sessions[s].worker, sessions[s].driver}
    BY <1>7, <1>9, <1>10, <2>1, EndSessionsStep DEF SessionsStep, RowLasts
  <2>3. sessions[s].ended \/ ended[s]
    BY <1>7, <1>8, <2>1, <2>2 DEF Live
  <2> QED
    BY <1>7, <1>9, <2>1, <2>3, EndSessionsStep
<1>11. held \subseteq Issued'
  BY <1>7, <1>8, <1>9, EndSessionsStep
<1>12. Asked(q)
  BY <1>3, <1>6 DEF Asked
<1>13. About(q)'
  BY <1>6, <1>10, <1>11 DEF About
<1> QED
  BY <1>5, <1>12, <1>13 DEF Goes

(* A command reads its session once: what it carries of it is whole, whatever the *)
(* row says by the time it is written.                                        *)
LEMMA AuthenticateGoes ==
  ASSUME AccountsInv, NEW r \in Request, NEW s \in SessionId, Authenticate(r, s)
  PROVE  Goes(r)
<1>1. s \in Issued
  BY DEF Authenticate, Authenticates, Valid, Live
<1>2. sessions[s].kind = "WORKER" /\ WholeRow(sessions[s])
  BY <1>1 DEF Authenticate, RequireWorker, AccountsInv, SessionsOK
<1>3. PICK p \in Person : p = sessions[s].worker
  BY <1>2 DEF WholeRow
<1>4. PICK perms \in {WorkerRole, WithDriving(WorkerRole)} : perms = sessions[s].perms
  BY <1>2 DEF WholeRow, WithDriving, DrivingPermissions, WorkerRole
<1>5. PICK q : q = [op |-> "command", session |-> s, worker |-> p, perms |-> perms]
  OBVIOUS
<1>6. Go(r, q) /\ UNCHANGED sessions
  BY <1>3, <1>4, <1>5 DEF Authenticate
<1>7. q.op = "command" /\ q.session = s /\ q.worker = p
  BY <1>5
<1>8. s \in Issued' /\ sessions'[s].worker = p
  BY <1>1, <1>3, <1>6 DEF Issued
<1>9. Asked(q)
  BY <1>5, <1>7 DEF Asked
<1>10. About(q)'
  BY <1>7, <1>8 DEF About
<1> QED
  BY <1>6, <1>9, <1>10 DEF Goes

(* A command goes on to write the whole context: a driver and his permissions, or *)
(* no driver and the worker's alone.                                          *)
LEMMA CommandGoes ==
  ASSUME AccountsInv, NEW r \in Request, BeginDriving(r) \/ LeaveDriving(r)
  PROVE  Goes(r)
<1>1. req[r].op = "command" /\ Asked(req[r]) /\ About(req[r])
  BY DEF BeginDriving, LeaveDriving, Proceeds, AccountsInv, RequestsOK
<1>2. PICK s \in SessionId, p \in Person, perms \in {WorkerRole, WithDriving(WorkerRole)} :
        req[r] = [op |-> "command", session |-> s, worker |-> p, perms |-> perms]
  BY <1>1 DEF Asked
<1>3. req[r].session = s /\ req[r].worker = p /\ req[r].perms = perms
  BY <1>2
<1>4. UNCHANGED sessions
  BY DEF BeginDriving, LeaveDriving
<1>5. s \in Issued' /\ sessions'[s].worker = p
  BY <1>1, <1>3, <1>4 DEF About, Issued
<1>6. CASE BeginDriving(r)
  <2>1. WithDriving(perms) = WithDriving(WorkerRole)
    BY DEF WithDriving, DrivingPermissions
  <2>2. PICK q : q = [op |-> "context", session |-> s, driver |-> p,
                      perms |-> WithDriving(WorkerRole)]
    OBVIOUS
  <2>3. Go(r, q)
    BY <1>3, <1>6, <2>1, <2>2 DEF BeginDriving
  <2>4. q.op = "context" /\ q.session = s /\ q.driver = p
    BY <2>2
  <2>5. Asked(q) /\ About(q)'
    BY <1>5, <2>2, <2>4 DEF Asked, About
  <2> QED
    BY <2>3, <2>5 DEF Goes
<1>7. CASE LeaveDriving(r) /\ ~ Done(r)
  <2>1. WithoutDriving(perms) = WorkerRole
    BY DEF WithDriving, WithoutDriving, DrivingPermissions, WorkerRole
  <2>2. PICK q : q = [op |-> "context", session |-> s, driver |-> None, perms |-> WorkerRole]
    OBVIOUS
  <2>3. Go(r, q)
    BY <1>3, <1>7, <2>1, <2>2 DEF LeaveDriving
  <2>4. q.op = "context" /\ q.session = s /\ q.driver = None
    BY <2>2
  <2>5. Asked(q) /\ About(q)'
    BY <1>5, <2>2, <2>4 DEF Asked, About
  <2> QED
    BY <2>3, <2>5 DEF Goes
<1> QED
  BY <1>6, <1>7, DoneGoes

(* E-mail changes and registrations hold nothing the sessions or the roster know. *)
LEMMA MemberGoes ==
  ASSUME NEW r \in Request,
         \/ \E a \in Account, e \in Address : ChangeEmailRead(r, a, e)
         \/ \E e \in Address : RegisterRead(r, e)
  PROVE  Goes(r)
<1>1. CASE Done(r)
  BY <1>1, DoneGoes
<1>2. CASE ~ Done(r)
  <2>1. CASE \E a \in Account, e \in Address : ChangeEmailRead(r, a, e)
    <3>1. PICK a \in Account, e \in Address : ChangeEmailRead(r, a, e)
      BY <2>1
    <3>2. PICK q : q = [op |-> "email", user |-> a, address |-> e, at |-> clock]
      OBVIOUS
    <3>3. Go(r, q)
      BY <1>2, <3>1, <3>2 DEF ChangeEmailRead
    <3>4. q.op = "email"
      BY <3>2
    <3>5. Asked(q) /\ About(q)'
      BY <3>4 DEF Asked, About
    <3> QED
      BY <3>3, <3>5 DEF Goes
  <2>2. CASE \E e \in Address : RegisterRead(r, e)
    <3>1. PICK e \in Address : RegisterRead(r, e)
      BY <2>2
    <3>2. PICK q : q = [op |-> "register", address |-> e, slug |-> AvailableSlug]
      OBVIOUS
    <3>3. Go(r, q)
      BY <1>2, <3>1, <3>2 DEF RegisterRead
    <3>4. q.op = "register"
      BY <3>2
    <3>5. Asked(q) /\ About(q)'
      BY <3>4 DEF Asked, About
    <3> QED
      BY <3>3, <3>5 DEF Goes
  <2> QED
    BY <2>1, <2>2
<1> QED
  BY <1>1, <1>2

LEMMA EveryStepOfRequests ==
  ASSUME AccountsInv, [Next]_vars
  PROVE  UNCHANGED req \/ \E r \in Request : Goes(r)
<1>0. RosterStep
  BY EveryStepOfTheRoster
<1>1. CASE UNCHANGED vars \/ Tick \/ \E p \in Person : EndTrip(p)
  BY <1>1 DEF vars, Tick, EndTrip
<1>2. ASSUME NEW r \in Request,
             \E p \in Person, pin \in Pin : WorkerLogin(r, p, pin) \/ DriverLogin(r, p, pin)
      PROVE  Goes(r)
  BY <1>0, <1>2, PinLoginGoes DEF WorkerLogin, DriverLogin, Door
<1>3. ASSUME NEW r \in Request,
             \/ \E e \in Address, good \in BOOLEAN : PasswordLogin(r, e, good)
             \/ \E s \in SessionId : Authenticate(r, s)
             \/ \E p \in Person, pin \in Pin \cup {None}, isDriver \in BOOLEAN :
                  CreateWorkerRead(r, p, pin, isDriver)
             \/ \E p \in Person, pin \in Pin \cup {None},
                   status \in {"ACTIVE", "INACTIVE", None} : PatchWorker(r, p, pin, status)
      PROVE  Goes(r)
  BY <1>3, PasswordLoginGoes, AuthenticateGoes, CreateWorkerGoes, PatchWorkerGoes
<1>4. ASSUME NEW r \in Request,
             \/ \E a \in Account, e \in Address : ChangeEmailRead(r, a, e)
             \/ \E e \in Address : RegisterRead(r, e)
      PROVE  Goes(r)
  BY <1>4, MemberGoes
<1>5. ASSUME NEW r \in Request,
             \/ PinVerify(r) \/ PasswordVerify(r) \/ RegisterWrite(r)
             \/ EndWorkerSessions(r) \/ EndDriverSessions(r)
             \/ BeginDriving(r) \/ LeaveDriving(r)
      PROVE  Goes(r)
  BY <1>5, PinVerifyGoes, PasswordVerifyGoes, RegisterWriteGoes, EndWorkerGoes,
     EndDriverGoes, CommandGoes
<1>6. ASSUME NEW r \in Request,
             \/ Issue(r) \/ Answer(r) \/ CreateWorkerWrite(r) \/ ChangeEmailWrite(r)
             \/ SetDrivingContext(r) \/ Crash(r) \/ \E s \in SessionId : Logout(r, s)
      PROVE  Goes(r)
  BY <1>6, DoneGoes DEF Issue, Answer, CreateWorkerWrite, ChangeEmailWrite,
     SetDrivingContext, Crash, Logout
<1> QED
  BY <1>1, <1>2, <1>3, <1>4, <1>5, <1>6 DEF Next

-----------------------------------------------------------------------------
(* The invariant *)

LEMMA AccountsInitially == Init => AccountsInv
<1> SUFFICES ASSUME Init PROVE AccountsInv
  OBVIOUS
<1>1. clock \in Nat
  BY DEF Init
<1>2. RosterOK
  <2>1. PICK pin \in Pin, hired \in SUBSET Person :
          roster = [p \in Person |-> IF p \in hired THEN NewPerson(pin, TRUE) ELSE Absent]
    BY DEF Init
  <2>2. \A p \in Person : roster[p] \in {NewPerson(pin, TRUE), Absent}
    BY <2>1
  <2>3. \A p \in Person : PersonOK(roster[p])
    BY <2>2, NewPersonIsFit, AbsentIsFit
  <2>4. roster = [p \in Person |-> roster[p]]
    BY <2>1
  <2> QED
    BY <2>3, <2>4 DEF RosterOK
<1>3. SessionsOK
  <2>1. sessions \in [SessionId -> SessionRow \cup {None}] /\ Issued = {}
    BY DEF Init, Issued
  <2>2. 0 \in 0..MaxSessions /\ 1..0 = {}
    BY AccountsAssumption
  <2> QED
    BY <2>1, <2>2 DEF SessionsOK
<1>4. RequestsOK
  <2>1. req = [r \in Request |-> Idle] /\ Idle.op = "idle"
    BY DEF Init, Idle
  <2>2. Asked(Idle) /\ About(Idle)
    BY <2>1 DEF Asked, About
  <2> QED
    BY <2>1, <2>2 DEF RequestsOK
<1> QED
  BY <1>1, <1>2, <1>3, <1>4 DEF AccountsInv

LEMMA ClockTicks ==
  ASSUME [Next]_vars
  PROVE  UNCHANGED clock \/ Tick
<1>1. CASE UNCHANGED vars \/ \E p \in Person : EndTrip(p)
  BY <1>1 DEF vars, EndTrip, Quiet
<1>2. ASSUME NEW r \in Request,
             \/ \E p \in Person, pin \in Pin : WorkerLogin(r, p, pin) \/ DriverLogin(r, p, pin)
             \/ \E e \in Address, good \in BOOLEAN : PasswordLogin(r, e, good)
             \/ \E s \in SessionId : Logout(r, s) \/ Authenticate(r, s)
             \/ \E p \in Person, pin \in Pin \cup {None}, isDriver \in BOOLEAN :
                  CreateWorkerRead(r, p, pin, isDriver)
             \/ \E p \in Person, pin \in Pin \cup {None},
                   status \in {"ACTIVE", "INACTIVE", None} : PatchWorker(r, p, pin, status)
             \/ \E a \in Account, e \in Address : ChangeEmailRead(r, a, e)
             \/ \E e \in Address : RegisterRead(r, e)
      PROVE  UNCHANGED clock
  BY <1>2 DEF WorkerLogin, DriverLogin, PinLoginRead, PasswordLogin, Logout, Authenticate,
              CreateWorkerRead, PatchWorker, ChangeEmailRead, RegisterRead, Quiet
<1>3. ASSUME NEW r \in Request,
             \/ PinVerify(r) \/ PasswordVerify(r) \/ Issue(r)
             \/ EndWorkerSessions(r) \/ EndDriverSessions(r) \/ Answer(r)
             \/ CreateWorkerWrite(r) \/ ChangeEmailWrite(r) \/ RegisterWrite(r)
             \/ BeginDriving(r) \/ LeaveDriving(r) \/ SetDrivingContext(r) \/ Crash(r)
      PROVE  UNCHANGED clock
  BY <1>3 DEF PinVerify, PasswordVerify, Issue, EndWorkerSessions, EndDriverSessions, Answer,
              CreateWorkerWrite, ChangeEmailWrite, RegisterWrite, BeginDriving, LeaveDriving,
              SetDrivingContext, Crash, Quiet
<1> QED
  BY <1>1, <1>2, <1>3 DEF Next

LEMMA AccountsInductive == AccountsInv /\ [Next]_vars => AccountsInv'
<1> SUFFICES ASSUME AccountsInv, [Next]_vars PROVE AccountsInv'
  OBVIOUS
<1>1. SessionsStep /\ RosterStep
  BY EveryStepOfSessions, EveryStepOfTheRoster
<1>2. clock' \in Nat
  <2>1. clock \in Nat
    BY DEF AccountsInv
  <2>2. CASE Tick
    BY <2>1, <2>2 DEF Tick
  <2>3. UNCHANGED clock \/ Tick
    BY ClockTicks
  <2> QED
    BY <2>1, <2>2, <2>3
<1>3. \A r \in Request : Asked(req[r]) /\ About(req[r])
  BY DEF AccountsInv, RequestsOK
<1>4. req = [r \in Request |-> req[r]] /\ SessionsOK
  BY DEF AccountsInv, RequestsOK
<1>5. ASSUME NEW q, Asked(q), About(q)
      PROVE  About(q)'
  BY <1>1, <1>4, <1>5, AboutLasts
<1>6. CASE UNCHANGED req
  <2>1. ASSUME NEW r \in Request
        PROVE  Asked(req'[r]) /\ About(req[r])'
    <3>1. PICK q : q = req[r]
      OBVIOUS
    <3>2. Asked(q) /\ About(q)'
      BY <1>3, <1>5, <3>1
    <3>3. req'[r] = q
      BY <1>6, <3>1
    <3> QED
      BY <3>2, <3>3 DEF About
  <2>2. RequestsOK'
    BY <1>4, <1>6, <2>1 DEF RequestsOK
  <2> QED
    BY <1>1, <1>2, <2>2 DEF AccountsInv, SessionsStep, RosterStep
<1>7. ASSUME NEW r \in Request, Goes(r)
      PROVE  AccountsInv'
  <2>1. PICK q : Go(r, q) /\ Asked(q) /\ About(q)'
    BY <1>7 DEF Goes
  <2>2. /\ req' = [o \in Request |-> req'[o]]
        /\ req'[r] = q
        /\ \A o \in Request : o # r => req'[o] = req[o]
    BY <1>4, <2>1 DEF Go
  <2>3. ASSUME NEW o \in Request
        PROVE  Asked(req'[o]) /\ About(req[o])'
    <3>1. PICK v : v = req'[o] /\ Asked(v) /\ About(v)'
      <4>1. CASE o = r
        BY <2>1, <2>2, <4>1
      <4>2. CASE o # r
        <5>1. PICK v : v = req[o]
          OBVIOUS
        <5>2. Asked(v) /\ About(v)' /\ v = req'[o]
          BY <1>3, <1>5, <2>2, <4>2, <5>1
        <5> QED
          BY <5>2
      <4> QED
        BY <4>1, <4>2
    <3> QED
      BY <3>1 DEF About
  <2>4. RequestsOK'
    BY <2>2, <2>3 DEF RequestsOK
  <2> QED
    BY <1>1, <1>2, <2>4 DEF AccountsInv, SessionsStep, RosterStep
<1> QED
  BY <1>6, <1>7, EveryStepOfRequests

(* The inductive invariant: rows and requests are typed, a session's driver and       *)
(* permissions belong together, what a request has read is what the rows have been,    *)
(* and a change in progress has ended, or still has on its list, each session of its    *)
(* person that began before it.                                                *)
THEOREM AccountsInvariant == Spec => []AccountsInv
<1> QED
  BY AccountsInitially, AccountsInductive, PTL DEF Spec

-----------------------------------------------------------------------------
(* Results *)

(* A session that has ended is never written again: not by a second revocation, not *)
(* by the context a command goes on to write after it was authenticated, not by   *)
(* a session issued later.                                                     *)
THEOREM EndedStaysEnded == Spec => EndedSessionsFinal
<1>1. AccountsInv /\ [Next]_vars
        => [\A s \in SessionId : sessions[s] # None /\ sessions[s].ended
                                   => sessions'[s] = sessions[s]]_vars
  BY EveryStepOfSessions DEF SessionsStep, RowLasts, Issued
<1> QED
  BY <1>1, AccountsInvariant, PTL DEF Spec, EndedSessionsFinal

(* Whatever commands race on a session, driver and permissions are those of one     *)
(* command, and the worker's own permissions are never lost.                     *)
THEOREM ContextsAreWhole == Spec => []ContextIsWhole
<1>1. AccountsInv => ContextIsWhole
  BY DEF AccountsInv, SessionsOK, WholeRow, ContextIsWhole
<1> QED
  BY <1>1, AccountsInvariant, PTL

(* When an administrator is told that a PIN or a deactivation is done, no session    *)
(* the person held when it committed lives, though they end row after row and    *)
(* commands go on elevating and stripping them in between.                       *)
THEOREM ChangesEndSessions == Spec => []ChangeEndsSessions
<1>1. AccountsInv => ChangeEndsSessions
  BY DEF AccountsInv, RequestsOK, About, ChangeEndsSessions
<1> QED
  BY <1>1, AccountsInvariant, PTL

(* The two rows of a person agree on PIN and status under every interleaving of      *)
(* logins, which write back counters read earlier, and changes.                 *)
THEOREM OneCredential == Spec => []DoorsAgree
<1>1. AccountsInv => DoorsAgree
  BY DEF AccountsInv, RosterOK, PersonOK, RowOK, Door, DoorsAgree
<1> QED
  BY <1>1, AccountsInvariant, PTL
=============================================================================
