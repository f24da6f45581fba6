---------------------- MODULE TrackingSessions_proofs ----------------------
(***************************************************************************)
(* Theorems about TrackingSessions, for every number of collectors, sessions  *)
(* and requests, every clock, tolerance and sampling floor.                   *)
(***************************************************************************)
EXTENDS TrackingSessions, WellFoundedInduction, TLAPS

(* A row lies in the session and near its fix: NeverFabricated, row by row.     *)
Within(x, s) ==
  /\ tsession[s].start # Null
  /\ tsession[s].start <= x.at /\ x.at <= now
  /\ x.at <= x.point.at + Tolerance /\ x.point.at <= x.at + Tolerance

OnePerInstant(rows) == \A x, y \in rows : x.at = y.at => x = y
Apart(rows, others) == \A x \in rows, y \in others : x.at # y.at

SessionSound(s) ==
  /\ tsession[s].start <= now
  /\ measured[s] \subseteq stored[s]
  /\ OnePerInstant(stored[s])
  /\ \A x \in stored[s] : Within(x, s)

(* What a request may rely on until it commits: the rows it carries are fit for  *)
(* the session it has read, and what it has listed is stored by then.           *)
RequestSound(q) ==
  /\ q.phase \in {"admitted", "appended", "closing"} => q.session \in SessionId
  /\ q.phase \in {"admitted", "appended"} =>
       /\ OnePerInstant(q.rows)
       /\ \A x \in q.rows : Within(x, q.session)
  /\ q.phase = "closing" => q.listed \subseteq stored[q.session]
  /\ q.phase = "appended" => /\ q.listed \subseteq stored[q.session] \cup q.rows
                             /\ Apart(q.rows, stored[q.session])

(* The unique index: what two transactions have inserted does not collide.      *)
InsertsApart ==
  \A r, o \in Request :
    /\ r # o
    /\ req[r].phase = "appended" /\ req[o].phase = "appended"
    /\ req[r].session = req[o].session
    => Apart(req[r].rows, req[o].rows)

ServerInv ==
  /\ ServerTypeOK
  /\ \A s \in SessionId : SessionSound(s)
  /\ \A r \in Request : RequestSound(req[r])
  /\ InsertsApart

---------------------------------------------------------------------------
(* Lemmas about the operators ingestion is built from.                        *)

LEMMA IdleTyped == Idle \in RequestState
BY TrackingAssumption DEF Idle, RequestState, Time

LEMMA IdleSound ==
  \A p \in {"idle", "done", "failed"} :
    /\ [Idle EXCEPT !.phase = p] \in RequestState
    /\ RequestSound([Idle EXCEPT !.phase = p])
    /\ [Idle EXCEPT !.phase = p].phase # "appended"
BY IdleTyped DEF Idle, RequestState, RequestSound

LEMMA OlderTotal ==
  \A p, q \in Point : ~Older(p, q) /\ ~Older(q, p) => p = q
BY TrackingAssumption DEF Point, Older, Collector, Stamp

(* The floor keeps some of the rows, and one of those that share an instant.     *)
LEMMA ThinKeeps ==
  ASSUME NEW rows \in SUBSET Row, NEW from
  PROVE  Thin(rows, from) \subseteq rows /\ OnePerInstant(Thin(rows, from))
<1>1. \A x \in Thin(rows, from) :
        x \in rows /\ \A y \in rows : y.at = x.at => ~Older(y.point, x.point)
  BY DEF Thin
<1>2. ASSUME NEW x \in Thin(rows, from), NEW y \in Thin(rows, from), x.at = y.at
      PROVE  x = y
  <2>1. x \in Row /\ y \in Row
    BY <1>1
  <2>2. ~Older(x.point, y.point) /\ ~Older(y.point, x.point)
    BY <1>1, <1>2
  <2>3. x.point = y.point
    BY <2>1, <2>2, OlderTotal DEF Row
  <2> QED BY <2>1, <2>3, <1>2 DEF Row
<1> QED BY <1>1, <1>2 DEF OnePerInstant

LEMMA AboveFloorKeeps ==
  ASSUME NEW rows \in SUBSET Row, NEW last
  PROVE  AboveFloor(rows, last) \subseteq rows /\ OnePerInstant(AboveFloor(rows, last))
<1> DEFINE live == {x \in rows : last = Null \/ x.at > last}
<1>1. AboveFloor(rows, last) = Thin(live, last) \cup Thin(rows \ live, Null)
  BY DEF AboveFloor
<1>2. live \in SUBSET Row /\ rows \ live \in SUBSET Row
  OBVIOUS
<1>3. \A x \in live, y \in rows \ live : x.at # y.at
  OBVIOUS
<1> HIDE DEF live
<1>4. /\ Thin(live, last) \subseteq live
      /\ OnePerInstant(Thin(live, last))
  BY <1>2, ThinKeeps
<1>5. /\ Thin(rows \ live, Null) \subseteq rows \ live
      /\ OnePerInstant(Thin(rows \ live, Null))
  BY <1>2, ThinKeeps
<1>6. live \subseteq rows
  BY DEF live
<1> QED BY <1>1, <1>3, <1>4, <1>5, <1>6 DEF OnePerInstant

(* The window and the clamp: an admitted row is typed and lies in the session.   *)
LEMMA AdmittedFits ==
  ASSUME ServerTypeOK, NEW s \in SessionId, IsOpen(s), tsession[s].start <= now,
         NEW batch \in SUBSET Point
  PROVE  /\ Admitted(batch, tsession[s].start) \in SUBSET Row
         /\ \A x \in Admitted(batch, tsession[s].start) :
              Within(x, s) /\ x.point \in batch
              /\ x.at = Clamp(x.point.at, tsession[s].start)
<1> DEFINE start == tsession[s].start
<1>1. start \in Time /\ now \in Time /\ Time \subseteq Nat /\ Stamp \subseteq Nat
  BY TrackingAssumption DEF ServerTypeOK, SessionRow, IsOpen, Time, Stamp
<1>2. ASSUME NEW x \in Admitted(batch, start)
      PROVE  x \in Row /\ Within(x, s) /\ x.point \in batch /\ x.at = Clamp(x.point.at, start)
  <2>1. PICK p \in batch : InWindow(p, start) /\ x = [point |-> p, at |-> Clamp(p.at, start)]
    BY DEF Admitted
  <2>2. p \in Point /\ p.at \in Nat
    BY <1>1 DEF Point
  <2>3. /\ Clamp(p.at, start) \in Time
        /\ start <= Clamp(p.at, start) /\ Clamp(p.at, start) <= now
    BY <1>1, <2>2, TrackingAssumption DEF Clamp, Time
  <2>4. /\ Clamp(p.at, start) <= p.at + Tolerance
        /\ p.at <= Clamp(p.at, start) + Tolerance
    <3>1. p.at >= start - Tolerance /\ p.at <= now + Tolerance
      BY <2>1 DEF InWindow
    <3>2. start \in Nat /\ now \in Nat /\ Tolerance \in Nat
      BY <1>1, TrackingAssumption
    <3> HIDE DEF start
    <3>3. CASE p.at < start
      BY <2>2, <3>1, <3>2, <3>3 DEF Clamp
    <3>4. CASE ~(p.at < start)
      BY <2>2, <3>1, <3>2, <3>4 DEF Clamp
    <3> QED BY <3>3, <3>4
  <2>5. x.point = p /\ x.at = Clamp(p.at, start) /\ x \in Row
    BY <2>1, <2>2, <2>3 DEF Row
  <2> QED BY <2>3, <2>4, <2>5 DEF Within, IsOpen
<1> QED BY <1>2
---------------------------------------------------------------------------
(* ServerInv is inductive: the initial state, and one lemma per action.          *)

LEMMA InitServerInv == ServerInit => ServerInv
<1> SUFFICES ASSUME ServerInit PROVE ServerInv
  OBVIOUS
<1>1. 0 \in Time /\ Null \notin Time /\ Null <= 0
  BY TrackingAssumption DEF Time, Null
<1>2. ServerTypeOK
  BY <1>1, IdleTyped DEF ServerInit, ServerTypeOK, NotOpened, SessionRow
<1>3. \A s \in SessionId : SessionSound(s)
  BY <1>1 DEF ServerInit, SessionSound, OnePerInstant, NotOpened
<1>4. \A r \in Request : RequestSound(req[r]) /\ req[r].phase = "idle"
  BY DEF ServerInit, RequestSound, Idle
<1> QED BY <1>2, <1>3, <1>4 DEF ServerInv, InsertsApart

(* A request goes on; tables and clock stay.                                   *)
LEMMA RememberStep ==
  ASSUME ServerInv, NEW r \in Request, NEW q \in RequestState, Remember(r, q),
         RequestSound(q),
         q.phase = "appended" =>
           \A o \in Request \ {r} :
             req[o].phase = "appended" /\ req[o].session = q.session =>
               Apart(q.rows, req[o].rows)
  PROVE  ServerInv'
<1>1. /\ req' = [req EXCEPT ![r] = q] /\ req \in [Request -> RequestState]
      /\ UNCHANGED <<tsession, stored, measured, now>>
  BY DEF Remember, Goto, tables, ServerInv, ServerTypeOK
<1>2. ServerTypeOK'
  BY <1>1 DEF ServerInv, ServerTypeOK
<1>3. \A s \in SessionId : SessionSound(s)'
  BY <1>1 DEF ServerInv, SessionSound, Within
<1>4. ASSUME NEW o \in Request PROVE RequestSound(req[o])'
  <2>1. req'[o] = IF o = r THEN q ELSE req[o]
    BY <1>1
  <2>2. RequestSound(req'[o])
    BY <2>1 DEF ServerInv
  <2> QED BY <1>1, <2>2 DEF RequestSound, Within
<1>5. InsertsApart'
  <2> SUFFICES ASSUME NEW o \in Request, NEW p \in Request, o # p,
                      req'[o].phase = "appended", req'[p].phase = "appended",
                      req'[o].session = req'[p].session
               PROVE  Apart(req'[o].rows, req'[p].rows)
    BY DEF InsertsApart, Apart
  <2>1. CASE o # r /\ p # r
    BY <1>1, <2>1 DEF ServerInv, InsertsApart
  <2>2. CASE o = r
    BY <1>1, <2>2 DEF Apart
  <2>3. CASE p = r
    BY <1>1, <2>3 DEF Apart
  <2> QED BY <2>1, <2>2, <2>3
<1> QED BY <1>2, <1>3, <1>4, <1>5 DEF ServerInv

(* A session is opened in a row that was not in use.                           *)
LEMMA NewSession ==
  ASSUME NEW at, OpenSession(at)
  PROVE  \E s \in SessionId : /\ tsession[s] = NotOpened
                              /\ tsession' = [tsession EXCEPT ![s].start = at]
<1>1. PICK s \in SessionId :
        /\ \A o \in SessionId : tsession[o] = NotOpened <=> o >= s
        /\ tsession' = [tsession EXCEPT ![s].start = at]
  BY DEF OpenSession
<1>2. tsession[s] = NotOpened
  BY <1>1, TrackingAssumption DEF SessionId
<1> QED BY <1>1, <1>2

LEMMA OpenSessionStep ==
  ASSUME ServerInv, NEW at \in Time, OpenSession(at)
  PROVE  ServerInv'
<1>1. PICK s \in SessionId : /\ tsession[s] = NotOpened
                             /\ tsession' = [tsession EXCEPT ![s].start = at]
  BY NewSession
<1>2. at <= now /\ UNCHANGED <<stored, measured, req, now>>
  BY DEF OpenSession, OccurredAt
<1>3. ServerTypeOK'
  BY <1>1, <1>2 DEF ServerInv, ServerTypeOK, SessionRow
<1>4. /\ tsession'[s].start = at
      /\ \A o \in SessionId : o # s => tsession'[o] = tsession[o]
  BY <1>1 DEF ServerInv, ServerTypeOK, SessionRow
<1>5. \A x : ~Within(x, s)
  BY <1>1 DEF Within, NotOpened
<1>6. ASSUME NEW o \in SessionId PROVE SessionSound(o)'
  BY <1>2, <1>4, <1>5 DEF ServerInv, SessionSound, Within
<1>7. ASSUME NEW r \in Request PROVE RequestSound(req[r])'
  <2>1. RequestSound(req[r])
    BY DEF ServerInv
  <2>2. \A x \in req[r].rows, o \in SessionId : Within(x, o) => Within(x, o)'
    BY <1>2, <1>4, <1>5 DEF Within
  <2> QED BY <1>2, <2>1, <2>2 DEF RequestSound
<1> QED BY <1>2, <1>3, <1>6, <1>7 DEF ServerInv, InsertsApart

LEMMA CloseReadStep ==
  ASSUME ServerInv, NEW r \in Request, NEW at \in Time, CloseRead(r, at)
  PROVE  ServerInv'
<1>1. PICK s \in OpenSessions :
        Remember(r, [Idle EXCEPT !.phase = "closing", !.session = s, !.at = at,
                                 !.listed = stored[s]])
  BY DEF CloseRead
<1> DEFINE q == [Idle EXCEPT !.phase = "closing", !.session = s, !.at = at,
                             !.listed = stored[s]]
<1>2. s \in SessionId /\ stored[s] \in SUBSET Row
  BY DEF OpenSessions, ServerInv, ServerTypeOK
<1>3. q \in RequestState
  BY <1>2, IdleTyped DEF RequestState, Idle
<1>4. RequestSound(q) /\ q.phase # "appended"
  BY <1>2 DEF RequestSound, Idle
<1> QED BY <1>1, <1>3, <1>4, RememberStep

LEMMA EndTyped ==
  \A row \in SessionRow, at \in Time :
    /\ [row EXCEPT !.end = at] \in SessionRow
    /\ [row EXCEPT !.end = at].start = row.start
BY DEF SessionRow

LEMMA CloseWriteStep ==
  ASSUME ServerInv, NEW r \in Request, CloseWrite(r)
  PROVE  ServerInv'
<1> DEFINE q == req[r]
<1>1. /\ q.phase = "closing" /\ q.session \in SessionId
      /\ q.listed \subseteq stored[q.session] /\ q.at \in Time
      /\ req' = [req EXCEPT ![r] = Idle] /\ UNCHANGED <<stored, now>>
  BY DEF CloseWrite, Goto, ServerInv, RequestSound, ServerTypeOK, RequestState
<1>2. /\ tsession' \in [SessionId -> SessionRow]
      /\ \A s \in SessionId : tsession'[s].start = tsession[s].start
  <2> DEFINE row == [tsession[q.session] EXCEPT !.end = q.at]
  <2>1. tsession \in [SessionId -> SessionRow]
    BY DEF ServerInv, ServerTypeOK
  <2>2. tsession' = tsession \/ tsession' = [tsession EXCEPT ![q.session] = row]
    BY DEF CloseWrite
  <2>3. row \in SessionRow /\ row.start = tsession[q.session].start
    BY <1>1, <2>1, EndTyped
  <2> HIDE DEF row
  <2> QED BY <1>1, <2>1, <2>2, <2>3
<1>3. /\ measured' \in [SessionId -> SUBSET Row]
      /\ \A s \in SessionId : measured'[s] \subseteq stored[s]
  BY <1>1 DEF CloseWrite, ServerInv, ServerTypeOK, SessionSound
<1>4. ServerTypeOK'
  BY <1>1, <1>2, <1>3, IdleTyped DEF ServerInv, ServerTypeOK
<1>5. ASSUME NEW s \in SessionId PROVE SessionSound(s)'
  BY <1>1, <1>2, <1>3 DEF ServerInv, SessionSound, Within
<1>6. ASSUME NEW o \in Request PROVE RequestSound(req[o])'
  <2>1. RequestSound(req'[o])
    BY <1>1, IdleSound DEF ServerInv, ServerTypeOK, Idle
  <2>2. \A s \in SessionId : \A x : Within(x, s) => Within(x, s)'
    BY <1>1, <1>2 DEF Within
  <2> QED BY <1>1, <2>1, <2>2 DEF RequestSound
<1>7. InsertsApart'
  BY <1>1 DEF ServerInv, ServerTypeOK, InsertsApart, Idle, Apart
<1> QED BY <1>4, <1>5, <1>6, <1>7 DEF ServerInv

LEMMA ReceiveStep ==
  ASSUME ServerInv, NEW r \in Request, NEW batch \in SUBSET Point, Receive(r, batch)
  PROVE  ServerInv'
<1> DEFINE q == [Idle EXCEPT !.phase = "arrived", !.batch = batch]
<1>1. q \in RequestState
  BY IdleTyped DEF RequestState, Idle
<1>2. RequestSound(q) /\ q.phase # "appended"
  BY DEF RequestSound, Idle
<1>3. Remember(r, q)
  BY DEF Receive
<1> QED BY <1>1, <1>2, <1>3, RememberStep

LEMMA AdmitStep ==
  ASSUME ServerInv, NEW r \in Request, Admit(r)
  PROVE  ServerInv'
<1>1. PICK s \in OpenSessions :
        Remember(r, [req[r] EXCEPT !.phase = "admitted", !.session = s,
                       !.rows = AboveFloor(Admitted(req[r].batch, tsession[s].start),
                                           LastPointAt(stored[s]))])
  BY DEF Admit
<1> DEFINE rows == AboveFloor(Admitted(req[r].batch, tsession[s].start),
                              LastPointAt(stored[s]))
           q == [req[r] EXCEPT !.phase = "admitted", !.session = s, !.rows = rows]
<1>2. /\ s \in SessionId /\ IsOpen(s) /\ tsession[s].start <= now
      /\ req[r] \in RequestState /\ req[r].batch \in SUBSET Point /\ ServerTypeOK
  BY DEF OpenSessions, ServerInv, SessionSound, ServerTypeOK, RequestState
<1>3. /\ Admitted(req[r].batch, tsession[s].start) \in SUBSET Row
      /\ \A x \in Admitted(req[r].batch, tsession[s].start) : Within(x, s)
  BY <1>2, AdmittedFits
<1>4. rows \in SUBSET Row /\ OnePerInstant(rows) /\ \A x \in rows : Within(x, s)
  BY <1>3, AboveFloorKeeps
<1> HIDE DEF rows
<1>5. q \in RequestState
  BY <1>2, <1>4 DEF RequestState
<1>6. q.phase = "admitted" /\ q.session = s /\ q.rows = rows
  BY <1>2 DEF RequestState
<1>7. Remember(r, q)
  BY <1>1 DEF rows
<1> HIDE DEF q
<1>8. RequestSound(q)
  BY <1>2, <1>4, <1>6 DEF RequestSound
<1> QED BY <1>5, <1>6, <1>7, <1>8, RememberStep

LEMMA AppendStep ==
  ASSUME ServerInv, NEW r \in Request, Append(r)
  PROVE  ServerInv'
<1> DEFINE s == req[r].session
           new == {x \in req[r].rows : x.at \notin Instants(stored[s])}
           listed == stored[s] \cup new
           q == [req[r] EXCEPT !.phase = "appended", !.rows = new, !.listed = listed]
<1>1. /\ req[r].phase = "admitted" /\ Remember(r, q)
      /\ \A o \in Request :
           req[o].phase = "appended" /\ req[o].session = s =>
             Instants(new) \cap Instants(req[o].rows) = {}
  BY DEF Append
<1>2. /\ req[r] \in RequestState /\ RequestSound(req[r])
      /\ s \in SessionId /\ stored[s] \in SUBSET Row /\ req[r].rows \in SUBSET Row
      /\ OnePerInstant(req[r].rows) /\ \A x \in req[r].rows : Within(x, s)
  BY <1>1 DEF ServerInv, ServerTypeOK, RequestState, RequestSound
<1>3. /\ new \in SUBSET Row /\ new \subseteq req[r].rows
      /\ OnePerInstant(new) /\ \A x \in new : Within(x, s)
      /\ Apart(new, stored[s])
  BY <1>2 DEF OnePerInstant, Apart, Instants
<1>4. \A o \in Request :
        req[o].phase = "appended" /\ req[o].session = s => Apart(new, req[o].rows)
  BY <1>1 DEF Apart, Instants
<1>5. listed \in SUBSET Row /\ listed \subseteq stored[s] \cup new
  BY <1>2, <1>3
<1> HIDE DEF new, listed
<1>6. /\ q \in RequestState
      /\ q.phase = "appended" /\ q.session = s /\ q.rows = new /\ q.listed = listed
  BY <1>2, <1>3, <1>5 DEF RequestState
<1> HIDE DEF q
<1>7. RequestSound(q)
  BY <1>2, <1>3, <1>5, <1>6 DEF RequestSound
<1> QED BY <1>1, <1>4, <1>6, <1>7, RememberStep

LEMMA EndRequestStep ==
  ASSUME ServerInv, NEW r \in Request, Reject(r) \/ Abort(r) \/ Answered(r)
  PROVE  ServerInv'
<1>1. Remember(r, [Idle EXCEPT !.phase = "failed"]) \/ Remember(r, Idle)
  BY DEF Reject, Abort, Answered
<1>2. RequestSound(Idle) /\ Idle.phase # "appended" /\ Idle \in RequestState
  BY IdleTyped DEF RequestSound, Idle
<1> QED BY <1>1, <1>2, IdleSound, RememberStep

LEMMA CommitStep ==
  ASSUME ServerInv, NEW r \in Request, Commit(r)
  PROVE  ServerInv'
<1> DEFINE s == req[r].session
           rows == req[r].rows
           q == [Idle EXCEPT !.phase = "done"]
<1>1. /\ req[r].phase = "appended"
      /\ stored' = [stored EXCEPT ![s] = stored[s] \cup rows]
      /\ measured' = [measured EXCEPT ![s] = req[r].listed]
      /\ req' = [req EXCEPT ![r] = q] /\ UNCHANGED <<tsession, now>>
  BY DEF Commit, Goto
<1>2. /\ req[r] \in RequestState /\ s \in SessionId
      /\ rows \in SUBSET Row /\ req[r].listed \in SUBSET Row
      /\ req[r].listed \subseteq stored[s] \cup rows
      /\ OnePerInstant(rows) /\ Apart(rows, stored[s])
      /\ \A x \in rows : Within(x, s)
  BY <1>1 DEF ServerInv, ServerTypeOK, RequestState, RequestSound
<1>3. q \in RequestState /\ RequestSound(q) /\ q.phase = "done"
  BY IdleSound DEF Idle
<1> HIDE DEF q
<1>4. ServerTypeOK'
  BY <1>1, <1>2, <1>3 DEF ServerInv, ServerTypeOK
<1>5. /\ stored'[s] = stored[s] \cup rows /\ measured'[s] = req[r].listed
      /\ \A o \in SessionId : /\ stored[o] \subseteq stored'[o]
                              /\ o # s => stored'[o] = stored[o] /\ measured'[o] = measured[o]
  BY <1>1, <1>2 DEF ServerInv, ServerTypeOK
<1>6. ASSUME NEW o \in SessionId PROVE SessionSound(o)'
  <2>1. SessionSound(o) /\ SessionSound(s)
    BY <1>2 DEF ServerInv
  <2>2. \A x : Within(x, o) => Within(x, o)'
    BY <1>1 DEF Within
  <2>3. CASE o = s
    <3>1. measured'[s] \subseteq stored'[s]
      BY <1>2, <1>5
    <3>2. OnePerInstant(stored'[s])
      BY <1>2, <1>5, <2>1 DEF OnePerInstant, Apart, SessionSound
    <3>3. \A x \in stored'[s] : Within(x, s)
      BY <1>2, <1>5, <2>1 DEF SessionSound
    <3> QED BY <3>1, <3>2, <3>3, <2>1, <2>2, <2>3, <1>1 DEF SessionSound, OnePerInstant
  <2>4. CASE o # s
    BY <1>1, <1>5, <2>1, <2>2, <2>4 DEF SessionSound, OnePerInstant
  <2> QED BY <2>3, <2>4
<1>7. ASSUME NEW o \in Request PROVE RequestSound(req[o])'
  <2>1. CASE o = r
    BY <1>1, <1>3, <2>1 DEF ServerInv, ServerTypeOK, RequestSound
  <2>2. CASE o # r
    <3>1. req'[o] = req[o] /\ RequestSound(req[o])
      BY <2>2, <1>1 DEF ServerInv, ServerTypeOK
    <3>2. \A x, t : Within(x, t) => Within(x, t)'
      BY <1>1 DEF Within
    <3>3. req[o].phase = "appended" => Apart(req[o].rows, stored'[req[o].session])
      <4>1. req[o].phase = "appended" /\ req[o].session = s => Apart(req[o].rows, rows)
        BY <2>2, <1>1 DEF ServerInv, InsertsApart
      <4> QED BY <3>1, <4>1, <1>5 DEF RequestSound, Apart
    <3> QED BY <3>1, <3>2, <3>3, <1>5 DEF RequestSound, OnePerInstant, Apart
  <2> QED BY <2>1, <2>2
<1>8. InsertsApart'
  BY <1>1, <1>3 DEF ServerInv, ServerTypeOK, InsertsApart, Apart
<1> QED BY <1>4, <1>6, <1>7, <1>8 DEF ServerInv

LEMMA TickStep ==
  ASSUME ServerInv, Tick
  PROVE  ServerInv'
<1>1. /\ now \in Nat /\ now < MaxTime /\ now' = now + 1
      /\ UNCHANGED <<tsession, stored, measured, req>>
  BY TrackingAssumption DEF Tick, tables, ServerInv, ServerTypeOK, Time
<1>2. ServerTypeOK'
  BY <1>1, TrackingAssumption DEF ServerInv, ServerTypeOK, Time
<1>3. \A s \in SessionId : /\ tsession[s].start \in Nat \cup {Null}
                           /\ tsession[s].start <= now
  BY TrackingAssumption DEF ServerInv, SessionSound, ServerTypeOK, SessionRow, Time
<1>4. \A s \in SessionId, x \in Row : Within(x, s) => Within(x, s)'
  BY <1>1, TrackingAssumption DEF Within, Row, Time
<1>5. ASSUME NEW s \in SessionId PROVE SessionSound(s)'
  <2>1. SessionSound(s) /\ stored[s] \subseteq Row
    BY DEF ServerInv, ServerTypeOK
  <2>2. tsession[s].start <= now'
    BY <1>1, <1>3 DEF Null
  <2> QED BY <1>1, <1>4, <2>1, <2>2 DEF SessionSound
<1>6. ASSUME NEW r \in Request PROVE RequestSound(req[r])'
  <2>1. RequestSound(req[r]) /\ req[r].rows \subseteq Row
    BY DEF ServerInv, ServerTypeOK, RequestState
  <2> QED BY <1>1, <1>4, <2>1 DEF RequestSound
<1>7. InsertsApart'
  BY <1>1 DEF ServerInv, InsertsApart
<1> QED BY <1>2, <1>5, <1>6, <1>7 DEF ServerInv

LEMMA ServerInvInductive == ServerInv /\ [ServerNext]_serverVars => ServerInv'
<1> SUFFICES ASSUME ServerInv, [ServerNext]_serverVars PROVE ServerInv'
  OBVIOUS
<1>1. CASE UNCHANGED serverVars
  BY <1>1 DEF serverVars, ServerInv, ServerTypeOK, SessionSound, RequestSound, Within,
              OnePerInstant, Apart, InsertsApart
<1>2. CASE Tick
  BY <1>2, TickStep
<1>3. ASSUME NEW t \in Time, OpenSession(t) PROVE ServerInv'
  BY <1>3, OpenSessionStep
<1>4. ASSUME NEW r \in Request, NEW t \in Time, CloseRead(r, t) PROVE ServerInv'
  BY <1>4, CloseReadStep
<1>5. ASSUME NEW r \in Request, NEW batch \in SUBSET Point, Receive(r, batch) PROVE ServerInv'
  BY <1>5, ReceiveStep
<1>6. ASSUME NEW r \in Request, CloseWrite(r) \/ ServeIngest(r) \/ Abort(r) \/ Answered(r)
      PROVE  ServerInv'
  BY <1>6, CloseWriteStep, AdmitStep, AppendStep, CommitStep, EndRequestStep DEF ServeIngest
<1> QED BY <1>1, <1>2, <1>3, <1>4, <1>5, <1>6 DEF ServerNext

---------------------------------------------------------------------------
(* Theorems.                                                                 *)

LEMMA ServerInvariant == ServerSpec => []ServerInv
<1>1. ServerInit => ServerInv
  BY InitServerInv
<1>2. ServerInv /\ [ServerNext]_serverVars => ServerInv'
  BY ServerInvInductive
<1> QED BY <1>1, <1>2, PTL DEF ServerSpec

(* Tables, requests and the clock keep their types.                            *)
THEOREM ServerTyped == ServerSpec => []ServerTypeOK
<1>1. ServerInv => ServerTypeOK
  BY DEF ServerInv
<1> QED BY <1>1, ServerInvariant, PTL

(* However requests interleave, no fix is stored at a time its device never      *)
(* claimed, nor outside its session.                                         *)
THEOREM NothingFabricated == ServerSpec => []NeverFabricated
<1>1. ServerInv => NeverFabricated
  BY DEF ServerInv, SessionSound, Within, NeverFabricated
<1> QED BY <1>1, ServerInvariant, PTL

(* However batches, closes and failures interleave, a session's totals count      *)
(* stored points only.                                                       *)
THEOREM TotalsAreStored == ServerSpec => []MeasuredIsStored
<1>1. ServerInv => MeasuredIsStored
  BY DEF ServerInv, SessionSound, MeasuredIsStored
<1> QED BY <1>1, ServerInvariant, PTL

(* A closed session's row never changes again, however many closes race.         *)
THEOREM SessionsCloseOnce == ServerSpec => ClosedOnce
<1>1. ASSUME ServerInv, [ServerNext]_serverVars, NEW s \in SessionId,
             tsession[s].end # Null
      PROVE  tsession'[s] = tsession[s]
  <2>1. tsession' = tsession
        \/ (\E r \in Request : CloseWrite(r)) \/ (\E t \in Time : OpenSession(t))
    BY <1>1 DEF ServerNext, serverVars, Tick, CloseRead, Receive, ServeIngest, Admit, Reject,
                Append, Commit, Abort, Answered, Remember, tables
  <2>2. ASSUME NEW r \in Request, CloseWrite(r) PROVE tsession'[s] = tsession[s]
    BY <1>1, <2>2 DEF CloseWrite, IsOpen, ServerInv, ServerTypeOK
  <2>3. ASSUME NEW t \in Time, OpenSession(t) PROVE tsession'[s] = tsession[s]
    <3>1. PICK o \in SessionId : /\ tsession[o] = NotOpened
                                 /\ tsession' = [tsession EXCEPT ![o].start = t]
      BY <2>3, NewSession
    <3>2. o # s
      BY <1>1, <3>1 DEF NotOpened
    <3> QED BY <3>1, <3>2 DEF ServerInv, ServerTypeOK
  <2> QED BY <2>1, <2>2, <2>3
<1>2. ServerInv /\ [ServerNext]_serverVars =>
        [\A s \in SessionId : tsession[s].end # Null => tsession'[s] = tsession[s]]_serverVars
  BY <1>1
<1> QED BY <1>2, ServerInvariant, PTL DEF ServerSpec, ClosedOnce

---------------------------------------------------------------------------
(* One fix, one row: when no device's clock runs ahead, a row's instant is       *)
(* determined by its fix and its session, so the unique index on the instant     *)
(* holds a fix that is sent again back.                                       *)

Dated(x, s) ==
  x.at = IF x.point.at < tsession[s].start THEN tsession[s].start ELSE x.point.at

RequestDated(q) ==
  /\ q.phase = "arrived" => \A p \in q.batch : p.at <= now
  /\ q.phase \in {"admitted", "appended"} => \A x \in q.rows : Dated(x, q.session)

DatedInv ==
  /\ \A s \in SessionId : \A x \in stored[s] : Dated(x, s)
  /\ \A r \in Request : RequestDated(req[r])

LEMMA RememberDated ==
  ASSUME ServerInv, DatedInv, NEW r \in Request, NEW q, Remember(r, q), RequestDated(q)
  PROVE  DatedInv'
<1>1. /\ req' = [req EXCEPT ![r] = q] /\ req \in [Request -> RequestState]
      /\ UNCHANGED <<tsession, stored, now>>
  BY DEF Remember, Goto, tables, ServerInv, ServerTypeOK
<1>2. ASSUME NEW o \in Request PROVE RequestDated(req[o])'
  <2>1. RequestDated(req'[o])
    BY <1>1 DEF DatedInv
  <2> QED BY <1>1, <2>1 DEF RequestDated, Dated
<1> QED BY <1>1, <1>2 DEF DatedInv, Dated

LEMMA DatedStep ==
  ASSUME Skew = 0, ServerInv, DatedInv, [ServerNext]_serverVars
  PROVE  DatedInv'
<1>1. CASE UNCHANGED serverVars
  BY <1>1 DEF serverVars, DatedInv, RequestDated, Dated
<1>2. CASE Tick
  <2>1. /\ now \in Nat /\ now' = now + 1 /\ UNCHANGED <<tsession, stored, req>>
    BY <1>2, TrackingAssumption DEF Tick, tables, ServerInv, ServerTypeOK, Time
  <2>2. \A p \in Point : p.at \in Nat
    BY TrackingAssumption DEF Point, Stamp
  <2>3. ASSUME NEW r \in Request PROVE RequestDated(req[r])'
    <3>1. RequestDated(req[r]) /\ req[r].batch \subseteq Point
      BY DEF DatedInv, ServerInv, ServerTypeOK, RequestState
    <3>2. \A p \in req[r].batch : p.at <= now => p.at <= now'
      BY <2>1, <2>2, <3>1
    <3> QED BY <2>1, <3>1, <3>2 DEF RequestDated, Dated
  <2> QED BY <2>1, <2>3 DEF DatedInv, Dated
<1>3. ASSUME NEW t \in Time, OpenSession(t) PROVE DatedInv'
  <2>1. PICK s \in SessionId : /\ tsession[s] = NotOpened
                               /\ tsession' = [tsession EXCEPT ![s].start = t]
    BY <1>3, NewSession
  <2>2. \A o \in SessionId : o # s => tsession'[o] = tsession[o]
    BY <2>1 DEF ServerInv, ServerTypeOK
  <2>3. \A x : ~Within(x, s)
    BY <2>1 DEF Within, NotOpened
  <2>4. UNCHANGED <<stored, req, now>>
    BY <1>3 DEF OpenSession
  <2>5. ASSUME NEW o \in SessionId, NEW x \in stored[o] PROVE Dated(x, o)'
    BY <2>2, <2>3, <2>4 DEF DatedInv, Dated, ServerInv, SessionSound
  <2>6. ASSUME NEW r \in Request PROVE RequestDated(req[r])'
    BY <2>2, <2>3, <2>4 DEF DatedInv, RequestDated, Dated, ServerInv, RequestSound
  <2> QED BY <2>4, <2>5, <2>6 DEF DatedInv
<1>4. ASSUME NEW r \in Request, NEW t \in Time, CloseRead(r, t) PROVE DatedInv'
  <2>1. PICK s \in OpenSessions :
          Remember(r, [Idle EXCEPT !.phase = "closing", !.session = s, !.at = t,
                                   !.listed = stored[s]])
    BY <1>4 DEF CloseRead
  <2>2. RequestDated([Idle EXCEPT !.phase = "closing", !.session = s, !.at = t,
                                  !.listed = stored[s]])
    BY DEF RequestDated, Idle
  <2> QED BY <2>1, <2>2, RememberDated
<1>5. ASSUME NEW r \in Request, NEW batch \in SUBSET Point, Receive(r, batch) PROVE DatedInv'
  <2>1. \A p \in batch : p.at <= now
    BY <1>5 DEF Receive, ServerInv, ServerTypeOK, Time
  <2>2. RequestDated([Idle EXCEPT !.phase = "arrived", !.batch = batch])
    BY <2>1 DEF RequestDated, Idle
  <2> QED BY <1>5, <2>2, RememberDated DEF Receive
<1>6. ASSUME NEW r \in Request, CloseWrite(r) PROVE DatedInv'
  <2>1. /\ req' = [req EXCEPT ![r] = Idle] /\ UNCHANGED <<stored, now>>
        /\ req[r].session \in SessionId
    BY <1>6 DEF CloseWrite, Goto, ServerInv, RequestSound
  <2>2. \A s \in SessionId : tsession'[s].start = tsession[s].start
    BY <1>6, <2>1 DEF CloseWrite, ServerInv, ServerTypeOK, SessionRow
  <2>3. ASSUME NEW o \in Request PROVE RequestDated(req[o])'
    <3>1. RequestDated(req'[o]) /\ RequestSound(req'[o])
      BY <2>1 DEF DatedInv, ServerInv, ServerTypeOK, RequestDated, RequestSound, Idle
    <3> QED BY <2>1, <2>2, <3>1 DEF RequestDated, RequestSound, Dated
  <2> QED BY <2>1, <2>2, <2>3 DEF DatedInv, Dated
<1>7. ASSUME NEW r \in Request, Admit(r) PROVE DatedInv'
  <2>1. PICK s \in OpenSessions :
          Remember(r, [req[r] EXCEPT !.phase = "admitted", !.session = s,
                         !.rows = AboveFloor(Admitted(req[r].batch, tsession[s].start),
                                             LastPointAt(stored[s]))])
    BY <1>7 DEF Admit
  <2> DEFINE admitted == Admitted(req[r].batch, tsession[s].start)
             rows == AboveFloor(admitted, LastPointAt(stored[s]))
             q == [req[r] EXCEPT !.phase = "admitted", !.session = s, !.rows = rows]
  <2>2. /\ s \in SessionId /\ IsOpen(s) /\ tsession[s].start <= now /\ ServerTypeOK
        /\ req[r] \in RequestState /\ req[r].batch \in SUBSET Point
        /\ \A p \in req[r].batch : p.at <= now
    BY <1>7 DEF OpenSessions, ServerInv, SessionSound, ServerTypeOK, RequestState,
                DatedInv, RequestDated, Admit
  <2>3. /\ admitted \in SUBSET Row
        /\ \A x \in admitted : x.point \in req[r].batch
                               /\ x.at = Clamp(x.point.at, tsession[s].start)
    BY <2>2, AdmittedFits
  <2>4. rows \subseteq admitted
    BY <2>3, AboveFloorKeeps
  <2>5. \A x \in rows : Dated(x, s)
    <3>1. \A p \in Point : p.at \in Nat
      BY TrackingAssumption DEF Point, Stamp
    <3>2. now \in Nat /\ tsession[s].start \in Nat
      BY <2>2, TrackingAssumption DEF ServerTypeOK, SessionRow, IsOpen, Time
    <3> QED BY <2>2, <2>3, <2>4, <3>1, <3>2 DEF Clamp, Dated
  <2> HIDE DEF rows, admitted
  <2>6. q.phase = "admitted" /\ q.session = s /\ q.rows = rows
    BY <2>2 DEF RequestState
  <2>7. Remember(r, q)
    BY <2>1 DEF rows, admitted
  <2> HIDE DEF q
  <2>8. RequestDated(q)
    BY <2>5, <2>6 DEF RequestDated
  <2> QED BY <2>7, <2>8, RememberDated
<1>8. ASSUME NEW r \in Request, Append(r) PROVE DatedInv'
  <2> DEFINE s == req[r].session
             new == {x \in req[r].rows : x.at \notin Instants(stored[s])}
             listed == stored[s] \cup new
             q == [req[r] EXCEPT !.phase = "appended", !.rows = new, !.listed = listed]
  <2>1. Remember(r, q) /\ req[r] \in RequestState
    BY <1>8 DEF Append, ServerInv, ServerTypeOK
  <2>2. \A x \in new : Dated(x, s)
    BY <1>8 DEF Append, DatedInv, RequestDated
  <2> HIDE DEF new, listed
  <2>3. q.phase = "appended" /\ q.session = s /\ q.rows = new
    BY <2>1 DEF RequestState
  <2> HIDE DEF q
  <2>4. RequestDated(q)
    BY <2>2, <2>3 DEF RequestDated
  <2> QED BY <2>1, <2>4, RememberDated
<1>9. ASSUME NEW r \in Request, Reject(r) \/ Abort(r) \/ Answered(r) PROVE DatedInv'
  <2>1. Remember(r, [Idle EXCEPT !.phase = "failed"]) \/ Remember(r, Idle)
    BY <1>9 DEF Reject, Abort, Answered
  <2>2. RequestDated(Idle) /\ RequestDated([Idle EXCEPT !.phase = "failed"])
    BY DEF RequestDated, Idle
  <2> QED BY <2>1, <2>2, RememberDated
<1>10. ASSUME NEW r \in Request, Commit(r) PROVE DatedInv'
  <2> DEFINE q == [Idle EXCEPT !.phase = "done"]
  <2>1. /\ req' = [req EXCEPT ![r] = q] /\ UNCHANGED <<tsession, now>>
        /\ stored' = [stored EXCEPT ![req[r].session] = @ \cup req[r].rows]
        /\ \A x \in req[r].rows : Dated(x, req[r].session)
    BY <1>10 DEF Commit, Goto, DatedInv, RequestDated
  <2>2. RequestDated(q)
    BY DEF RequestDated, Idle
  <2> HIDE DEF q
  <2>3. ASSUME NEW s \in SessionId, NEW x \in stored'[s] PROVE Dated(x, s)
    BY <2>1 DEF DatedInv, ServerInv, ServerTypeOK
  <2>4. ASSUME NEW o \in Request PROVE RequestDated(req'[o])
    BY <2>1, <2>2 DEF DatedInv, ServerInv, ServerTypeOK
  <2> QED BY <2>1, <2>3, <2>4 DEF DatedInv, RequestDated, Dated
<1> QED BY <1>1, <1>2, <1>3, <1>4, <1>5, <1>6, <1>7, <1>8, <1>9, <1>10
       DEF ServerNext, ServeIngest

(* However often a batch is sent again, and by however many requests at once, its  *)
(* fixes are stored once, provided no device's clock runs ahead of the server's.   *)
THEOREM FixesStoredOnce ==
  ASSUME Skew = 0
  PROVE  ServerSpec => []StoredOnce
<1>1. ServerInit => DatedInv
  BY DEF ServerInit, DatedInv, RequestDated, Idle
<1>2. ServerInv /\ DatedInv /\ [ServerNext]_serverVars => DatedInv'
  BY DatedStep
<1>3. ServerInv /\ DatedInv => StoredOnce
  <2> SUFFICES ASSUME ServerInv, DatedInv, NEW s \in SessionId,
                      NEW x \in stored[s], NEW y \in stored[s],
                      x.point = y.point \/ x.at = y.at
               PROVE  x = y
    BY DEF StoredOnce
  <2>1. Dated(x, s) /\ Dated(y, s) /\ OnePerInstant(stored[s])
    BY DEF DatedInv, ServerInv, SessionSound
  <2>2. x.at = y.at
    BY <2>1 DEF Dated
  <2> QED BY <2>1, <2>2 DEF OnePerInstant
<1> QED BY <1>1, <1>2, <1>3, ServerInvariant, PTL DEF ServerSpec
---------------------------------------------------------------------------
(* The sampling floor.  Thin is a recursive function on the instants, so what it  *)
(* computes is reasoned about instant by instant; the well-founded order of the   *)
(* natural numbers gives that such a function exists and what holds of it.        *)

LEMMA LeastNumber ==
  ASSUME NEW T, T \subseteq Nat, T # {}
  PROVE  \E m \in T : \A n \in T : m <= n
<1>1. PICK R : R = OpToRel(<, Nat)
  OBVIOUS
<1>2. IsWellFoundedOn(R, Nat)
  BY <1>1, NatLessThanWellFounded
<1>3. R = {ss \in Nat \X Nat : ss[1] < ss[2]}
  BY <1>1 DEF OpToRel
<1>4. PICK m \in T : \A n \in T : ~(<<n, m>> \in R)
  BY <1>2, WFMin
<1>5. \A n \in T : ~(n < m)
  BY <1>3, <1>4
<1> QED BY <1>5

(* What holds of -1 and of every instant after one it holds of holds of the instants.   *)
LEMMA InstantByInstant ==
  ASSUME NEW S, -1 \in S, \A t \in Time : t - 1 \in S => t \in S
  PROVE  Time \subseteq S
<1> SUFFICES ASSUME Time \ S # {} PROVE FALSE
  OBVIOUS
<1>1. Time \ S \subseteq Nat
  BY TrackingAssumption DEF Time
<1>2. PICK t \in Time \ S : \A u \in Time \ S : t <= u
  BY <1>1, LeastNumber
<1>3. t = 0 \/ t - 1 \in Time
  BY TrackingAssumption DEF Time
<1>4. t - 1 \in S
  <2>1. CASE t = 0
    BY <2>1
  <2>2. CASE t - 1 \in Time
    <3>1. ~(t <= t - 1)
      BY <1>1
    <3> QED BY <1>2, <2>2, <3>1
  <2> QED BY <1>3, <2>1, <2>2
<1> QED BY <1>2, <1>4

LEMMA OldestAt ==
  ASSUME NEW rows \in SUBSET Row, NEW x \in rows
  PROVE  \E y \in rows : /\ y.at = x.at
                         /\ \A z \in rows : z.at = x.at => ~Older(z.point, y.point)
<1>1. \A y \in rows : y.point.by \in Nat /\ y.point.at \in Nat
  BY TrackingAssumption DEF Row, Point, Collector, Stamp
<1>2. PICK T : T = {y.point.by : y \in {z \in rows : z.at = x.at}}
  OBVIOUS
<1>3. T \subseteq Nat /\ T # {}
  BY <1>1, <1>2
<1>4. PICK by \in T : \A n \in T : by <= n
  BY <1>3, LeastNumber
<1>5. PICK U : U = {y.point.at : y \in {z \in rows : z.at = x.at /\ z.point.by = by}}
  OBVIOUS
<1>6. U \subseteq Nat /\ U # {}
  BY <1>1, <1>2, <1>4, <1>5
<1>7. PICK at \in U : \A n \in U : at <= n
  BY <1>6, LeastNumber
<1>8. PICK y \in rows : y.at = x.at /\ y.point.by = by /\ y.point.at = at
  BY <1>5, <1>7
<1>9. ASSUME NEW z \in rows, z.at = x.at PROVE ~Older(z.point, y.point)
  <2>1. by <= z.point.by
    BY <1>2, <1>4, <1>9
  <2>2. z.point.by = by => at <= z.point.at
    BY <1>5, <1>7, <1>9
  <2>3. z.point.by \in Nat /\ z.point.at \in Nat /\ by \in Nat /\ at \in Nat
    BY <1>1, <1>3, <1>6
  <2> QED BY <1>8, <2>1, <2>2, <2>3 DEF Older
<1> QED BY <1>8, <1>9

(* kept is, instant by instant, the last one the floor let through.                   *)
Lets(kept, rows, t) ==
  (\E x \in rows : x.at = t) /\ (kept[t - 1] = Null \/ t - kept[t - 1] >= MinInterval)
Keeps(kept, rows, from, n) ==
  kept[-1] = from /\ \A t \in 0 .. n : kept[t] = IF Lets(kept, rows, t) THEN t ELSE kept[t - 1]

LEMMA KeptExists ==
  ASSUME NEW rows, NEW from \in Time \cup {Null}
  PROVE  \E kept \in [-1 .. MaxTime -> Time \cup {Null}] : Keeps(kept, rows, from, MaxTime)
<1>1. PICK A : A = Time \cup {Null}
  OBVIOUS
<1>2. PICK S : S = {n \in -1 .. MaxTime : \E f \in [-1 .. n -> A] : Keeps(f, rows, from, n)}
  OBVIOUS
<1>3. -1 \in S
  <2>1. PICK f : f = [t \in -1 .. -1 |-> from]
    OBVIOUS
  <2>2. f \in [-1 .. -1 -> A] /\ f[-1] = from
    BY <1>1, <2>1
  <2>3. Keeps(f, rows, from, -1)
    BY <2>2 DEF Keeps
  <2>4. -1 \in -1 .. MaxTime
    BY TrackingAssumption
  <2> QED BY <1>2, <2>2, <2>3, <2>4
<1>4. ASSUME NEW t \in Time, t - 1 \in S PROVE t \in S
  <2>1. PICK n \in -1 .. MaxTime : n = t - 1
    BY <1>2, <1>4
  <2>2. PICK f \in [-1 .. n -> A] : Keeps(f, rows, from, n)
    BY <1>2, <1>4, <2>1
  <2>3. t \in Nat /\ t <= MaxTime /\ n \in -1 .. n /\ n + 1 = t
    BY <2>1, TrackingAssumption DEF Time
  <2>4. PICK new \in A : new = IF Lets(f, rows, t) THEN t ELSE f[n]
    BY <1>1, <2>2, <2>3
  <2>5. PICK g : g = [u \in -1 .. t |-> IF u = t THEN new ELSE f[u]]
    OBVIOUS
  <2>6. /\ g \in [-1 .. t -> A] /\ g[t] = new /\ \A u \in -1 .. n : g[u] = f[u]
    BY <2>2, <2>3, <2>4, <2>5
  <2>7. g[-1] = from
    BY <2>2, <2>3, <2>6 DEF Keeps
  <2>8. ASSUME NEW u \in 0 .. t PROVE g[u] = IF Lets(g, rows, u) THEN u ELSE g[u - 1]
    <3>1. u - 1 \in -1 .. n /\ g[u - 1] = f[u - 1]
      BY <2>3, <2>6
    <3>2. Lets(g, rows, u) <=> Lets(f, rows, u)
      BY <3>1 DEF Lets
    <3>3. CASE u = t
      BY <2>1, <2>4, <2>6, <3>1, <3>2, <3>3
    <3>4. CASE u # t
      <4>1. u \in 0 .. n /\ u \in -1 .. n
        BY <2>3, <3>4
      <4> QED BY <2>2, <2>6, <3>1, <3>2, <4>1 DEF Keeps
    <3> QED BY <3>3, <3>4
  <2>9. Keeps(g, rows, from, t)
    BY <2>7, <2>8 DEF Keeps
  <2>10. t \in -1 .. MaxTime
    BY <2>3
  <2> QED BY <1>2, <2>6, <2>9, <2>10
<1>5. MaxTime \in Time
  BY TrackingAssumption DEF Time
<1>6. MaxTime \in S
  BY <1>3, <1>4, <1>5, InstantByInstant
<1> QED BY <1>1, <1>2, <1>6

Let(kept, rows) == {x \in rows : /\ kept[x.at] = x.at /\ kept[x.at - 1] # x.at
                                 /\ \A y \in rows : y.at = x.at => ~Older(y.point, x.point)}

LEMMA ThinIs ==
  ASSUME NEW rows \in SUBSET Row, NEW from \in Time \cup {Null}
  PROVE  \E kept \in [-1 .. MaxTime -> Time \cup {Null}] :
           Keeps(kept, rows, from, MaxTime) /\ Thin(rows, from) = Let(kept, rows)
<1>1. PICK g \in [-1 .. MaxTime -> Time \cup {Null}] : Keeps(g, rows, from, MaxTime)
  BY KeptExists
<1>2. PICK f : f = CHOOSE k : k = [t \in -1..MaxTime |->
        IF t = -1 THEN from
        ELSE IF (\E x \in rows : x.at = t)
                /\ (k[t - 1] = Null \/ t - k[t - 1] >= MinInterval) THEN t
        ELSE k[t - 1]]
  OBVIOUS
<1>3. g = [t \in -1..MaxTime |->
        IF t = -1 THEN from
        ELSE IF (\E x \in rows : x.at = t)
                /\ (g[t - 1] = Null \/ t - g[t - 1] >= MinInterval) THEN t
        ELSE g[t - 1]]
  <2>1. ASSUME NEW t \in -1 .. MaxTime
        PROVE  g[t] = IF t = -1 THEN from
                      ELSE IF (\E x \in rows : x.at = t)
                              /\ (g[t - 1] = Null \/ t - g[t - 1] >= MinInterval) THEN t
                      ELSE g[t - 1]
    <3>1. t = -1 \/ t \in 0 .. MaxTime
      BY TrackingAssumption
    <3> QED BY <1>1, <3>1 DEF Keeps, Lets
  <2> QED BY <1>1, <2>1
<1>4. f = [t \in -1..MaxTime |->
        IF t = -1 THEN from
        ELSE IF (\E x \in rows : x.at = t)
                /\ (f[t - 1] = Null \/ t - f[t - 1] >= MinInterval) THEN t
        ELSE f[t - 1]]
  BY <1>2, <1>3
<1>5. Keeps(f, rows, from, MaxTime)
  <2>1. \A t \in 0 .. MaxTime : t \in -1 .. MaxTime /\ t # -1
    BY TrackingAssumption
  <2>2. -1 \in -1 .. MaxTime
    BY TrackingAssumption
  <2> QED BY <1>4, <2>1, <2>2 DEF Keeps, Lets
<1>6. PICK S : S = {t \in -1 .. MaxTime : f[t] \in Time \cup {Null}}
  OBVIOUS
<1>7. -1 \in S
  <2>1. -1 \in -1 .. MaxTime
    BY TrackingAssumption
  <2> QED BY <1>5, <1>6, <2>1 DEF Keeps
<1>8. ASSUME NEW t \in Time, t - 1 \in S PROVE t \in S
  <2>1. t \in 0 .. MaxTime /\ t \in -1 .. MaxTime
    BY TrackingAssumption DEF Time
  <2>2. f[t] = IF Lets(f, rows, t) THEN t ELSE f[t - 1]
    BY <1>5, <2>1 DEF Keeps
  <2> QED BY <1>6, <1>8, <2>1, <2>2
<1>9. \A t \in -1 .. MaxTime : f[t] \in Time \cup {Null}
  <2>1. Time \subseteq S
    BY <1>7, <1>8, InstantByInstant
  <2>2. \A t \in -1 .. MaxTime : t = -1 \/ t \in Time
    BY TrackingAssumption DEF Time
  <2> QED BY <1>6, <1>7, <2>1, <2>2
<1>10. f \in [-1 .. MaxTime -> Time \cup {Null}]
  BY <1>4, <1>9
<1>11. Thin(rows, from) = Let(f, rows)
  BY <1>2 DEF Thin, Let
<1> QED BY <1>5, <1>10, <1>11

(* What is known of the last instant let through by t: it is no earlier than from and *)
(* than any instant let through so far, and is one of these.                         *)
KeptBy(kept, rows, from, t) ==
  /\ from # Null => kept[t] # Null /\ kept[t] >= from
  /\ \A i \in 0 .. t : Lets(kept, rows, i) => kept[t] # Null /\ i <= kept[t]
  /\ kept[t] = from \/ (kept[t] \in 0 .. t /\ Lets(kept, rows, kept[t]))

LEMMA KeptInTurn ==
  ASSUME NEW rows, NEW from \in Time \cup {Null},
         NEW kept \in [-1 .. MaxTime -> Time \cup {Null}], Keeps(kept, rows, from, MaxTime)
  PROVE  \A t \in -1 .. MaxTime : KeptBy(kept, rows, from, t)
<1>1. PICK S : S = {t \in -1 .. MaxTime : KeptBy(kept, rows, from, t)}
  OBVIOUS
<1>2. -1 \in -1 .. MaxTime
  BY TrackingAssumption
<1>3. -1 \in S
  <2>1. kept[-1] = from /\ from \in Int
    BY TrackingAssumption DEF Keeps, Time, Null
  <2>2. 0 .. -1 = {}
    OBVIOUS
  <2> QED BY <1>1, <1>2, <2>1, <2>2 DEF KeptBy
<1>4. ASSUME NEW t \in Time, t - 1 \in S PROVE t \in S
  <2>1. PICK u \in -1 .. MaxTime : u = t - 1
    BY <1>1, <1>4
  <2>2. KeptBy(kept, rows, from, u)
    BY <1>1, <1>4, <2>1
  <2>3. t \in 0 .. MaxTime /\ t \in -1 .. MaxTime /\ t \in Nat /\ u = t - 1
    BY <2>1, TrackingAssumption DEF Time
  <2>4. kept[t] = IF Lets(kept, rows, t) THEN t ELSE kept[u]
    BY <2>3 DEF Keeps
  <2>5. kept[u] \in Int /\ from \in Int /\ MinInterval \in Nat /\ Null = -1
    BY <2>1, TrackingAssumption DEF Time, Null
  <2>6. CASE Lets(kept, rows, t)
    <3>1. kept[u] = Null \/ t - kept[u] >= MinInterval
      BY <2>3, <2>6 DEF Lets
    <3>2. kept[t] = t /\ t # Null /\ t \in 0 .. t
      BY <2>3, <2>4, <2>5, <2>6
    <3>3. from # Null => t >= from
      BY <2>2, <2>3, <2>5, <3>1 DEF KeptBy
    <3>4. \A i \in 0 .. t : i <= t
      BY <2>3
    <3>5. KeptBy(kept, rows, from, t)
      BY <2>6, <3>2, <3>3, <3>4 DEF KeptBy
    <3> QED BY <1>1, <2>3, <3>5
  <2>7. CASE ~Lets(kept, rows, t)
    <3>1. kept[t] = kept[u]
      BY <2>4, <2>7
    <3>2. \A i \in 0 .. t : i = t \/ i \in 0 .. u
      BY <2>3
    <3>3. kept[u] \in 0 .. u => kept[u] \in 0 .. t
      BY <2>3
    <3>4. KeptBy(kept, rows, from, t)
      BY <2>2, <2>7, <3>1, <3>2, <3>3 DEF KeptBy
    <3> QED BY <1>1, <2>3, <3>4
  <2> QED BY <2>6, <2>7
<1>5. Time \subseteq S
  BY <1>3, <1>4, InstantByInstant
<1>6. \A t \in -1 .. MaxTime : t = -1 \/ t \in Time
  BY TrackingAssumption DEF Time
<1> QED BY <1>1, <1>3, <1>5, <1>6

LEMMA LetIs ==
  ASSUME NEW rows, NEW from \in Time \cup {Null},
         NEW kept \in [-1 .. MaxTime -> Time \cup {Null}], Keeps(kept, rows, from, MaxTime)
  PROVE  \A t \in Time : kept[t] = t /\ kept[t - 1] # t <=> Lets(kept, rows, t)
<1> SUFFICES ASSUME NEW t \in Time
             PROVE  kept[t] = t /\ kept[t - 1] # t <=> Lets(kept, rows, t)
  OBVIOUS
<1>1. t \in 0 .. MaxTime /\ t \in Nat /\ t - 1 \in -1 .. MaxTime
  BY TrackingAssumption DEF Time
<1>2. kept[t] = IF Lets(kept, rows, t) THEN t ELSE kept[t - 1]
  BY <1>1 DEF Keeps
<1>3. kept[t - 1] \in Int /\ MinInterval \in Nat \ {0} /\ Null = -1
  BY <1>1, TrackingAssumption DEF Time, Null
<1>4. Lets(kept, rows, t) => kept[t - 1] # t
  BY <1>1, <1>3 DEF Lets
<1> QED BY <1>2, <1>4

(* Whether instants are a sampling floor apart, and whether one is within it after another. *)
Spaced(t, u) == t - u >= MinInterval \/ u - t >= MinInterval
Crowds(t, u) == t - u < MinInterval

LEMMA Thinned ==
  ASSUME NEW rows \in SUBSET Row, NEW from \in Time \cup {Null}
  PROVE  /\ Thin(rows, from) \subseteq rows
         /\ \A x, y \in Thin(rows, from) : x.at = y.at \/ Spaced(x.at, y.at)
         /\ \A x \in Thin(rows, from) : from = Null \/ x.at - from >= MinInterval
         /\ \A x \in rows \ Thin(rows, from) :
              \/ from # Null /\ Crowds(x.at, from)
              \/ \E y \in Thin(rows, from) : y.at <= x.at /\ Crowds(x.at, y.at)
<1>1. PICK kept \in [-1 .. MaxTime -> Time \cup {Null}] :
        Keeps(kept, rows, from, MaxTime) /\ Thin(rows, from) = Let(kept, rows)
  BY ThinIs
<1>2. \A t \in -1 .. MaxTime : KeptBy(kept, rows, from, t)
  BY <1>1, KeptInTurn
<1>3. \A t \in Time : kept[t] = t /\ kept[t - 1] # t <=> Lets(kept, rows, t)
  BY <1>1, LetIs
<1>4. \A x \in rows : x.at \in Time
  BY DEF Row
<1>5. ASSUME NEW t \in Time
      PROVE  /\ t \in Nat /\ t - 1 \in -1 .. MaxTime /\ kept[t - 1] \in Int
             /\ KeptBy(kept, rows, from, t - 1)
  BY <1>2, <1>5, TrackingAssumption DEF Time, Null
<1>6. from \in Int /\ MinInterval \in Nat \ {0} /\ Null = -1
  BY TrackingAssumption DEF Time, Null
<1>7. ASSUME NEW x \in Let(kept, rows)
      PROVE  /\ x \in rows /\ Lets(kept, rows, x.at)
             /\ kept[x.at - 1] = Null \/ x.at - kept[x.at - 1] >= MinInterval
  BY <1>3, <1>4, <1>7 DEF Let, Lets
<1>8. ASSUME NEW x \in Let(kept, rows), NEW y \in Let(kept, rows), x.at < y.at
      PROVE  y.at - x.at >= MinInterval
  <2>1. PICK t \in Time, u \in Time : t = x.at /\ u = y.at
    BY <1>4, <1>7
  <2>2. t \in Nat /\ u \in Nat /\ kept[u - 1] \in Int /\ KeptBy(kept, rows, from, u - 1)
    BY <1>5
  <2>3. t \in 0 .. u - 1
    BY <1>8, <2>1, <2>2
  <2>4. Lets(kept, rows, t)
    BY <1>7, <2>1
  <2>5. kept[u - 1] # Null /\ t <= kept[u - 1]
    BY <2>2, <2>3, <2>4 DEF KeptBy
  <2>6. u - kept[u - 1] >= MinInterval
    BY <1>7, <2>1, <2>5
  <2>7. u - t >= MinInterval
    BY <1>6, <2>2, <2>5, <2>6
  <2> QED BY <2>1, <2>7
<1>9. ASSUME NEW x \in Let(kept, rows), NEW y \in Let(kept, rows), x.at # y.at
      PROVE  Spaced(x.at, y.at)
  <2>1. x.at \in Nat /\ y.at \in Nat
    BY <1>4, <1>5, <1>7
  <2>2. x.at < y.at \/ y.at < x.at
    BY <1>9, <2>1
  <2> QED BY <1>8, <2>2 DEF Spaced
<1>10. ASSUME NEW x \in Let(kept, rows), from # Null PROVE x.at - from >= MinInterval
  <2>1. PICK t \in Time : t = x.at
    BY <1>4, <1>7
  <2>2. t \in Nat /\ kept[t - 1] \in Int /\ KeptBy(kept, rows, from, t - 1)
    BY <1>5
  <2>3. kept[t - 1] # Null /\ kept[t - 1] >= from
    BY <1>10, <2>2 DEF KeptBy
  <2>4. t - kept[t - 1] >= MinInterval
    BY <1>7, <2>1, <2>3
  <2>5. t - from >= MinInterval
    BY <1>6, <2>2, <2>3, <2>4
  <2> QED BY <2>1, <2>5
<1>11. ASSUME NEW t \in Time, Lets(kept, rows, t)
       PROVE  \E y \in Let(kept, rows) : y.at = t
  <2>1. PICK x \in rows : x.at = t
    BY <1>11 DEF Lets
  <2>2. PICK y \in rows : y.at = x.at /\ \A z \in rows : z.at = x.at => ~Older(z.point, y.point)
    BY OldestAt
  <2> QED BY <1>3, <1>11, <2>1, <2>2 DEF Let
<1>12. ASSUME NEW x \in rows, x \notin Let(kept, rows)
       PROVE  \/ from # Null /\ Crowds(x.at, from)
              \/ \E y \in Let(kept, rows) : y.at <= x.at /\ Crowds(x.at, y.at)
  <2>1. PICK t \in Time : t = x.at
    BY <1>4
  <2>2. t \in Nat /\ kept[t - 1] \in Int /\ KeptBy(kept, rows, from, t - 1)
    BY <1>5
  <2>3. CASE Lets(kept, rows, t)
    <3>1. PICK y \in Let(kept, rows) : y.at = t
      BY <1>11, <2>3
    <3>2. t <= t /\ Crowds(t, t)
      BY <1>6, <2>2 DEF Crowds
    <3> QED BY <2>1, <3>1, <3>2
  <2>4. CASE ~Lets(kept, rows, t)
    <3>1. kept[t - 1] # Null /\ ~(t - kept[t - 1] >= MinInterval)
      BY <2>1, <2>4 DEF Lets
    <3>2. Crowds(t, kept[t - 1])
      BY <1>6, <2>2, <3>1 DEF Crowds
    <3>3. CASE kept[t - 1] = from
      BY <2>1, <3>1, <3>2, <3>3
    <3>4. CASE kept[t - 1] \in 0 .. t - 1 /\ Lets(kept, rows, kept[t - 1])
      <4>1. PICK u : u = kept[t - 1]
        OBVIOUS
      <4>2. u \in Time /\ u <= t
        BY <2>2, <3>4, <4>1, TrackingAssumption DEF Time
      <4>3. PICK y \in Let(kept, rows) : y.at = u
        BY <1>11, <3>4, <4>1, <4>2
      <4> QED BY <2>1, <3>2, <4>1, <4>2, <4>3
    <3> QED BY <2>2, <3>3, <3>4 DEF KeptBy
  <2> QED BY <2>3, <2>4
<1>13. Let(kept, rows) \subseteq rows
  BY <1>7
<1>14. \A x \in Let(kept, rows) : from = Null \/ x.at - from >= MinInterval
  BY <1>10
<1> QED BY <1>1, <1>9, <1>12, <1>13, <1>14

(* The live points of a batch and the replayed ones.                                  *)
IsLive(x, last) == last = Null \/ x.at > last

(* What admitPoints stores of a batch honours the sampling floor and loses nothing to it   *)
(* (packages/tracking/src/sampling.ts): of the live points, and of the replayed ones, two    *)
(* that are kept are of one instant or a whole interval apart; a live one lies an interval  *)
(* after the last point the session had; and a point that is dropped is less than an        *)
(* interval after one of its own kind that is kept, or after that last point.              *)
THEOREM SamplingFloor ==
  ASSUME NEW rows \in SUBSET Row, NEW last \in Time \cup {Null}
  PROVE  LET kept == AboveFloor(rows, last) IN
         /\ kept \subseteq rows
         /\ \A x, y \in kept :
              (IsLive(x, last) <=> IsLive(y, last)) => x.at = y.at \/ Spaced(x.at, y.at)
         /\ \A x \in kept : IsLive(x, last) => last = Null \/ x.at - last >= MinInterval
         /\ \A x \in rows \ kept :
              \/ last # Null /\ last < x.at /\ Crowds(x.at, last)
              \/ \E y \in kept : /\ IsLive(x, last) <=> IsLive(y, last)
                                 /\ y.at <= x.at /\ Crowds(x.at, y.at)
<1>1. PICK live \in SUBSET Row : live = {x \in rows : last = Null \/ x.at > last}
  OBVIOUS
<1>2. PICK late \in SUBSET Row : late = rows \ live
  OBVIOUS
<1>3. PICK A, B : A = Thin(live, last) /\ B = Thin(late, Null)
  OBVIOUS
<1>4. /\ A \subseteq live
      /\ \A x, y \in A : x.at = y.at \/ Spaced(x.at, y.at)
      /\ \A x \in A : last = Null \/ x.at - last >= MinInterval
      /\ \A x \in live \ A : \/ last # Null /\ Crowds(x.at, last)
                             \/ \E y \in A : y.at <= x.at /\ Crowds(x.at, y.at)
  BY <1>3, Thinned
<1>5. /\ B \subseteq late
      /\ \A x, y \in B : x.at = y.at \/ Spaced(x.at, y.at)
      /\ \A x \in late \ B : \E y \in B : y.at <= x.at /\ Crowds(x.at, y.at)
  <2>1. PICK none \in Time \cup {Null} : none = Null
    OBVIOUS
  <2>2. B = Thin(late, none)
    BY <1>3, <2>1
  <2> HIDE <1>3
  <2> QED BY <2>1, <2>2, Thinned
<1>6. PICK kept : kept = AboveFloor(rows, last)
  OBVIOUS
<1>7. kept = A \cup B
  BY <1>1, <1>2, <1>3, <1>6 DEF AboveFloor
<1>8. \A x \in rows : (x \in live <=> IsLive(x, last)) /\ (x \in late <=> ~IsLive(x, last))
  BY <1>1, <1>2 DEF IsLive
<1>9. kept \subseteq rows
  BY <1>1, <1>2, <1>4, <1>5, <1>7
<1>10. \A x \in kept : (x \in A <=> IsLive(x, last)) /\ (x \in B <=> ~IsLive(x, last))
  BY <1>4, <1>5, <1>7, <1>8, <1>9
<1>11. ASSUME NEW x \in kept, NEW y \in kept, IsLive(x, last) <=> IsLive(y, last)
       PROVE  x.at = y.at \/ Spaced(x.at, y.at)
  BY <1>4, <1>5, <1>10, <1>11
<1>12. \A x \in kept : IsLive(x, last) => last = Null \/ x.at - last >= MinInterval
  BY <1>4, <1>10
<1>13. ASSUME NEW x \in rows, x \notin kept
       PROVE  \/ last # Null /\ last < x.at /\ Crowds(x.at, last)
              \/ \E y \in kept : /\ IsLive(x, last) <=> IsLive(y, last)
                                 /\ y.at <= x.at /\ Crowds(x.at, y.at)
  <2>1. CASE x \in live
    <3>1. last = Null \/ last < x.at
      <4>1. last \in Int /\ x.at \in Int
        BY TrackingAssumption DEF Row, Time, Null
      <4> QED BY <1>1, <2>1, <4>1
    <3>2. x \in live \ A /\ IsLive(x, last)
      BY <1>7, <1>8, <1>13, <2>1
    <3>3. \A y \in A : y \in kept /\ IsLive(y, last)
      BY <1>7, <1>10
    <3> QED BY <1>4, <3>1, <3>2, <3>3
  <2>2. CASE x \in late
    <3>1. x \in late \ B /\ ~IsLive(x, last)
      BY <1>7, <1>8, <1>13, <2>2
    <3>2. \A y \in B : y \in kept /\ ~IsLive(y, last)
      BY <1>7, <1>10
    <3> QED BY <1>5, <3>1, <3>2
  <2> QED BY <1>2, <2>1, <2>2
<1> QED BY <1>6, <1>9, <1>11, <1>12, <1>13
=============================================================================
