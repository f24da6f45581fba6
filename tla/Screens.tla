------------------------------ MODULE Screens ------------------------------
(***************************************************************************)
(* The worker and the driver page in the browser, against the record they    *)
(* show.  A page keeps the last answer to GET /worker/state or /driver/state,  *)
(* a busy flag around one command at a time, and a poll timer; a collector      *)
(* runs in it for as long as that answer names a tracking session.             *)
(*                                                                         *)
(* Requests and answers travel on their own: an answer may be late, overtaken    *)
(* by a younger one, or lost before or after the server acted.  Several pages    *)
(* of one person are open at once, and shifts also end from elsewhere.          *)
(*                                                                         *)
(* Abstractions.  The record is what the pages tell apart; its rules are those    *)
(* of ShiftCommands and Portal, each command one step.  Where the worker goes     *)
(* between the home screen and a confirmation sends nothing and is left out, as    *)
(* are wording and layout.  A page is not closed while its command is in flight.   *)
(***************************************************************************)
EXTENDS Naturals, FiniteSets

CONSTANTS
  Page,
  MaxTaps,       \* bounds: commands given,
  MaxSession,    \* tracking sessions opened,
  MaxElsewhere,  \* things done elsewhere (a sweep, a second sign-in),
  MaxLosses,     \* requests or answers lost,
  MaxReads,      \* and polls of one page in flight
  Unknown        \* nothing loaded yet

ASSUME ScreensAssumption ==
  /\ {MaxTaps, MaxSession, MaxElsewhere, MaxLosses, MaxReads} \subseteq Nat
  /\ MaxReads > 0

VARIABLES
  record,    \* the server: shift, trip, WORK session and DRIVER_TRIP session
  page,      \* what each page holds
  call,      \* each page's command in flight
  reads,     \* each page's reads in flight
  taps, elsewhere, losses, opened,   \* what the bounds count
  retold     \* history: a tap repeated after a lost answer was refused

vars == <<record, page, call, reads, taps, elsewhere, losses, opened, retold>>
counts == <<taps, elsewhere, losses>>

Session == 0 .. MaxSession     \* 0: none open
Record == [shift : {"NONE", "ACTIVE", "ON_BREAK"}, trip : {"NONE", "HANDOFF", "PORTAL"},
           work : Session, drive : Session]

Command == {"startShift", "endShift", "startBreak", "endBreak", "changePosition",
            "beginDriving", "startTrip", "endTrip"}

Slot == 0 .. MaxReads          \* 0: the read a page or a command waits for

(* A command waits for the code and the position it needs before it is sent; `token` is *)
(* the CSRF token it was sent with.                                              *)
NoCall == [cmd |-> "none", phase |-> "none", token |-> "none", retried |-> FALSE,
           answer |-> "none"]
NoRead == [phase |-> "free", view |-> Unknown, awaited |-> FALSE]

Blank(portal) == [portal |-> portal, shown |-> Unknown, loadError |-> FALSE, busy |-> FALSE,
                  token |-> "none", unsure |-> "none"]
Awaits(awaited) == [phase |-> "sent", view |-> Unknown, awaited |-> awaited]
FirstRead == [k \in Slot |-> IF k = 0 THEN Awaits(FALSE) ELSE NoRead]

Init ==
  /\ record = [shift |-> "NONE", trip |-> "NONE", work |-> 0, drive |-> 0]
  /\ page \in [Page -> {Blank("worker"), Blank("driver")}]
  /\ call = [p \in Page |-> NoCall]
  /\ reads = [p \in Page |-> FirstRead]
  /\ taps = 0 /\ elsewhere = 0 /\ losses = 0 /\ opened = 0
  /\ retold = FALSE
---------------------------------------------------------------------------
(* The server.                                                               *)

Accepts(cmd, rec) ==
  CASE cmd = "startShift" -> rec.shift = "NONE"
    [] cmd = "endShift" -> rec.shift # "NONE"
    [] cmd \in {"startBreak", "changePosition"} -> rec.shift = "ACTIVE"
    [] cmd = "endBreak" -> rec.shift = "ON_BREAK"
    [] cmd = "beginDriving" -> rec.shift = "ACTIVE" /\ rec.trip = "NONE"
    [] cmd = "startTrip" -> rec.trip = "NONE"
    [] cmd = "endTrip" -> rec.trip # "NONE"

Opens(cmd, rec) == cmd = "startShift" \/ (cmd = "startTrip" /\ rec.work = 0)

EndHandoff(trip) == IF trip = "HANDOFF" THEN "NONE" ELSE trip

Result(cmd, rec, s) ==
  CASE cmd = "startShift" -> [rec EXCEPT !.shift = "ACTIVE", !.work = s]
    [] cmd = "endShift" -> [rec EXCEPT !.shift = "NONE", !.work = 0, !.trip = EndHandoff(@)]
    [] cmd = "startBreak" -> [rec EXCEPT !.shift = "ON_BREAK"]
    [] cmd = "endBreak" -> [rec EXCEPT !.shift = "ACTIVE"]
    [] cmd = "changePosition" -> [rec EXCEPT !.trip = EndHandoff(@)]
    [] cmd = "beginDriving" -> [rec EXCEPT !.trip = "HANDOFF"]
    [] cmd = "startTrip" -> [rec EXCEPT !.trip = "PORTAL", !.drive = IF rec.work = 0 THEN s ELSE 0]
    [] cmd = "endTrip" -> [rec EXCEPT !.trip = "NONE", !.drive = 0]

(* What each portal's /state says: shift, trip, and the session to report into.  *)
ViewOf(portal, rec) ==
  [shift |-> rec.shift, trip |-> rec.trip,
   session |-> IF portal = "worker" \/ rec.work # 0 THEN rec.work ELSE rec.drive]

(* A supervisor, the sweep or another device ends the shift.                    *)
EndedElsewhere ==
  /\ elsewhere < MaxElsewhere /\ Accepts("endShift", record)
  /\ record' = Result("endShift", record, 0)
  /\ elsewhere' = elsewhere + 1
  /\ UNCHANGED <<page, call, reads, taps, losses, opened, retold>>

(* A second sign-in replaces the CSRF token the open pages remember.             *)
SignedInAgain ==
  /\ elsewhere < MaxElsewhere
  /\ page' = [p \in Page |-> IF page[p].token = "good" THEN [page[p] EXCEPT !.token = "stale"]
                             ELSE page[p]]
  /\ elsewhere' = elsewhere + 1
  /\ UNCHANGED <<record, call, reads, taps, losses, opened, retold>>
---------------------------------------------------------------------------
(* Loading and reloading: reload().                                          *)

AskState(p, k, awaited) ==
  /\ reads[p][k] = NoRead
  /\ reads' = [reads EXCEPT ![p][k] = Awaits(awaited)]

(* Opening a page, or pressing the browser's reload: everything in it starts over.  *)
Load(p, portal) ==
  /\ page' = [page EXCEPT ![p] = Blank(portal)]
  /\ reads' = [reads EXCEPT ![p] = FirstRead]

Reopen(p) ==
  /\ call[p] = NoCall /\ page[p].shown # Unknown
  /\ Load(p, page[p].portal)
  /\ UNCHANGED <<record, call, counts, opened, retold>>

TryAgain(p) ==
  /\ page[p].shown = Unknown /\ page[p].loadError
  /\ AskState(p, 0, FALSE)
  /\ UNCHANGED <<record, page, call, counts, opened, retold>>

(* Mutant: both pages poll during a trip only.                                  *)
PollsDuringTrips(p) == page[p].shown # Unknown /\ page[p].shown.trip # "NONE"

(* The worker page polls while its answer names a session, the driver page while  *)
(* it names a trip.                                                          *)
Polls(p) ==
  /\ page[p].shown # Unknown
  /\ \/ page[p].portal = "worker" /\ page[p].shown.session # 0
     \/ page[p].portal = "driver" /\ page[p].shown.trip # "NONE"

Poll(p) ==
  /\ Polls(p) /\ \E k \in 1 .. MaxReads : AskState(p, k, FALSE)
  /\ UNCHANGED <<record, page, call, counts, opened, retold>>

ServeRead(p, k) ==
  /\ reads[p][k].phase = "sent"
  /\ reads' = [reads EXCEPT ![p][k].phase = "answered",
                            ![p][k].view = ViewOf(page[p].portal, record)]
  /\ UNCHANGED <<record, page, call, counts, opened, retold>>

(* Whatever comes back replaces what is shown, however old it is.                *)
ReceiveRead(p, k) ==
  /\ reads[p][k].phase = "answered"
  /\ page' = [page EXCEPT ![p].shown = reads[p][k].view, ![p].loadError = FALSE,
                          ![p].busy = @ /\ ~ reads[p][k].awaited]
  /\ reads' = [reads EXCEPT ![p][k] = NoRead]
  /\ UNCHANGED <<record, call, counts, opened, retold>>

(* A failed reload is remembered, and shown only by a page that shows nothing else. *)
LoseRead(p, k) ==
  /\ losses < MaxLosses /\ reads[p][k] # NoRead
  /\ losses' = losses + 1
  /\ page' = [page EXCEPT ![p].loadError = TRUE, ![p].busy = @ /\ ~ reads[p][k].awaited]
  /\ reads' = [reads EXCEPT ![p][k] = NoRead]
  /\ UNCHANGED <<record, call, taps, elsewhere, opened, retold>>
---------------------------------------------------------------------------
(* Commands: run() around an action of lib/worker.ts or lib/driver.ts, sent by      *)
(* apiRequest().                                                             *)

ShiftButtons(s) ==
  IF s.shift = "ON_BREAK" THEN {"endShift", "endBreak"}
  ELSE {"endShift", "startBreak", "changePosition", "beginDriving"}

NoShiftButtons == {"startShift"}

RouteButtons(s) == IF s.trip = "NONE" THEN {"startTrip"} ELSE {"endTrip"}

Buttons(p) ==
  LET s == page[p].shown IN
  IF s = Unknown \/ page[p].busy THEN {}
  ELSE IF page[p].portal = "driver" THEN RouteButtons(s)
  ELSE IF s.shift = "NONE" THEN NoShiftButtons ELSE ShiftButtons(s)

(* A mutation goes out with the CSRF token the page has, or fetches one first.      *)
Outgoing(p) == IF page[p].token = "none" THEN "token" ELSE "sent"

(* These ask for the position first, and the browser may ask the person: the timeout of *)
(* the request runs from the answer on.                                          *)
Locates(cmd) == cmd \in {"startShift", "beginDriving", "startTrip", "endTrip"}
Locating == {"prompt", "locating"}

Prepares(p, cmd) ==
  IF cmd = "beginDriving" THEN {"loading"} ELSE IF Locates(cmd) THEN Locating ELSE {Outgoing(p)}

(* Every tap draws a new actionId().                                            *)
Tap(p, cmd) ==
  /\ taps < MaxTaps
  /\ cmd \in Buttons(p)
  /\ taps' = taps + 1
  /\ \E phase \in Prepares(p, cmd) :
       call' = [call EXCEPT ![p] = [NoCall EXCEPT !.cmd = cmd, !.phase = phase,
                                                  !.token = page[p].token]]
  /\ page' = [page EXCEPT ![p].busy = TRUE]
  /\ UNCHANGED <<record, reads, elsewhere, losses, opened, retold>>

(* currentPositionOrNull imports lib/driver when it is first needed.               *)
LoadCode(p) ==
  /\ call[p].phase = "loading"
  /\ \E phase \in Locating : call' = [call EXCEPT ![p].phase = phase]
  /\ UNCHANGED <<record, page, reads, counts, opened, retold>>

(* The person allows or refuses; or leaves the question unanswered.                *)
AnswerPrompt(p) ==
  /\ call[p].phase = "prompt"
  /\ call' = [call EXCEPT ![p].phase = "locating"]
  /\ UNCHANGED <<record, page, reads, counts, opened, retold>>

(* A position, a refusal or the timeout: the command is sent whichever it is.       *)
Locate(p) ==
  /\ call[p].phase = "locating"
  /\ call' = [call EXCEPT ![p].phase = Outgoing(p), ![p].token = page[p].token]
  /\ UNCHANGED <<record, page, reads, counts, opened, retold>>

(* The driver page can be reached from the worker's during a trip.               *)
GoToRoute(p) ==
  /\ page[p].portal = "worker" /\ page[p].shown # Unknown /\ call[p] = NoCall
  /\ page[p].shown.trip = "HANDOFF"
  /\ Load(p, "driver")
  /\ UNCHANGED <<record, call, counts, opened, retold>>

(* Mutant: the flag is cleared on success only.                                 *)
FailKeepsBusy(p, unsure) ==
  /\ page' = [page EXCEPT ![p].unsure = unsure]
  /\ call' = [call EXCEPT ![p] = NoCall]

(* A failure is shown and the busy flag falls; nothing is read again.              *)
Fail(p, unsure) ==
  /\ page' = [page EXCEPT ![p].busy = FALSE, ![p].unsure = unsure]
  /\ call' = [call EXCEPT ![p] = NoCall]

RefreshToken(p) ==
  /\ call[p].phase = "token"
  /\ page' = [page EXCEPT ![p].token = "good"]
  /\ call' = [call EXCEPT ![p].phase = "sent", ![p].token = "good"]
  /\ UNCHANGED <<record, reads, counts, opened, retold>>

(* A token that cannot be fetched: the command goes out without one, or gives up.    *)
LoseToken(p) ==
  /\ losses < MaxLosses /\ call[p].phase = "token"
  /\ losses' = losses + 1
  /\ IF call[p].retried THEN Fail(p, "none")
     ELSE call' = [call EXCEPT ![p].phase = "sent"] /\ UNCHANGED page
  /\ UNCHANGED <<record, reads, taps, elsewhere, opened, retold>>

Answer(p, a) == call' = [call EXCEPT ![p].phase = "answered", ![p].answer = a]

ServeCall(p) ==
  LET c == call[p] IN
  /\ c.phase = "sent"
  /\ IF c.token # "good"
     THEN Answer(p, "csrf") /\ UNCHANGED <<record, opened>>
     ELSE IF ~ Accepts(c.cmd, record)
     THEN Answer(p, "refused") /\ UNCHANGED <<record, opened>>
     ELSE /\ Answer(p, "ok")
          /\ Opens(c.cmd, record) => opened < MaxSession
          /\ opened' = IF Opens(c.cmd, record) THEN opened + 1 ELSE opened
          /\ record' = Result(c.cmd, record, opened + 1)
  /\ UNCHANGED <<page, reads, counts, retold>>

(* A rejected token is worth one more attempt with a fresh one.                   *)
Resend(p) ==
  call' = [call EXCEPT ![p].phase = "token", ![p].token = "none", ![p].retried = TRUE,
                       ![p].answer = "none"]

CsrfRefused(p) ==
  /\ call[p].phase = "answered" /\ call[p].answer = "csrf" /\ ~ call[p].retried
  /\ page' = [page EXCEPT ![p].token = "none"]
  /\ Resend(p)
  /\ UNCHANGED <<record, reads, counts, opened, retold>>

(* A success re-reads the state, and the busy flag waits for that read.            *)
Succeed(p) ==
  /\ call[p].phase = "answered" /\ call[p].answer = "ok"
  /\ call' = [call EXCEPT ![p] = NoCall]
  /\ IF call[p].cmd = "beginDriving" THEN Load(p, "driver")
     ELSE AskState(p, 0, TRUE) /\ page' = [page EXCEPT ![p].unsure = "none"]
  /\ UNCHANGED <<record, counts, opened, retold>>

Refused(p) ==
  LET c == call[p] IN
  /\ c.phase = "answered"
  /\ c.answer = "refused" \/ (c.answer = "csrf" /\ c.retried)
  /\ retold' = (retold \/ (c.answer = "refused" /\ page[p].unsure = c.cmd))
  /\ Fail(p, "none")
  /\ UNCHANGED <<record, reads, counts, opened>>

(* The code cannot be fetched, or the request or its answer is lost: the person cannot   *)
(* tell which.                                                               *)
LoseCall(p) ==
  /\ losses < MaxLosses /\ call[p].phase \in {"loading", "sent", "answered"}
  /\ losses' = losses + 1
  /\ Fail(p, IF call[p].answer = "ok" THEN call[p].cmd ELSE "none")
  /\ UNCHANGED <<record, reads, taps, elsewhere, opened, retold>>
---------------------------------------------------------------------------
Network(p) ==
  \/ \E k \in Slot : ServeRead(p, k) \/ ReceiveRead(p, k)
  \/ LoadCode(p) \/ Locate(p) \/ RefreshToken(p) \/ ServeCall(p) \/ CsrfRefused(p) \/ Succeed(p) \/ Refused(p)

Next ==
  \/ EndedElsewhere \/ SignedInAgain
  \/ \E p \in Page :
       \/ Reopen(p) \/ TryAgain(p) \/ Poll(p) \/ GoToRoute(p)
       \/ \E cmd \in Command : Tap(p, cmd)
       \/ AnswerPrompt(p) \/ Network(p)
       \/ LoseToken(p) \/ LoseCall(p) \/ \E k \in Slot : LoseRead(p, k)

(* The poll timer keeps firing, what is sent is eventually served and received or fails  *)
(* (fetch answers or throws, and only finitely much is lost), and a request for the     *)
(* position times out.  Nobody has to answer a prompt.                              *)
Fairness ==
  \A p \in Page :
    /\ WF_vars(Poll(p))
    /\ \A k \in Slot : WF_vars(ServeRead(p, k)) /\ WF_vars(ReceiveRead(p, k))
    /\ WF_vars(LoadCode(p)) /\ WF_vars(Locate(p))
    /\ WF_vars(RefreshToken(p)) /\ WF_vars(ServeCall(p)) /\ WF_vars(CsrfRefused(p))
    /\ WF_vars(Succeed(p)) /\ WF_vars(Refused(p))

Spec == Init /\ [][Next]_vars
FairSpec == Spec /\ Fairness
---------------------------------------------------------------------------
(* Properties.                                                               *)

(* Every tap comes to an end: whatever is refused, lost, overtaken or sent again, the    *)
(* busy flag falls and the buttons can be pressed again, unless the browser's question    *)
(* for the position is left unanswered.                                             *)
Asked(p) == call[p].phase = "prompt"
BusyEnds == \A p \in Page : page[p].busy ~> (~ page[p].busy \/ Asked(p))

(* worker/page.tsx says of the position that it "Never blocks the action".  Not so: its    *)
(* timeout does not run while the browser waits for the person, and the tap with it.      *)
NeverBlocks == \A p \in Page : page[p].busy ~> ~ page[p].busy

(* A worker page that records into a session the server has closed stops: the shift    *)
(* may have ended on another page or by the sweep, and a late answer may have brought   *)
(* the closed session back.                                                         *)
RecordingStops ==
  \A p \in Page : \A s \in Session \ {0} :
    LET Into == page[p].portal = "worker" /\ page[p].shown # Unknown /\ page[p].shown.session = s
    IN (Into /\ record.work # s) ~> ~ Into

(* lib/worker.ts: a worker who taps twice on a slow connection "starts one shift and    *)
(* sees the same answer twice, rather than starting one and being told the second time   *)
(* that they already have one".  Not so: the second tap draws a new key.                *)
SameAnswerTwice == ~ retold
=============================================================================
