------------------------------ MODULE AdminDesk -------------------------------
(***************************************************************************)
(* The administrator's pages: what the open one shows, what it has asked the   *)
(* server for, and the forms that change something, while colleagues and the      *)
(* floor go on writing.  A page reads with useApi, which starts over when one of    *)
(* its dependencies changes and ignores the answers of its earlier turns.            *)
(*                                                                         *)
(* A section shows the answer of one endpoint, which reads its tables query by        *)
(* query.  Requests overtake each other, fail, and reach the server in any order.      *)
(*                                                                         *)
(* Abstractions.  What a table holds is the number of the write that last touched it.   *)
(* The route of a save is one step: its statements interleave in Organization,           *)
(* Workplace and Accounts.  What is typed, validation, texts and layout are left out.      *)
(* One page is open; to leave it drops everything, as opening it does.  The session that a  *)
(* rename also refreshes feeds the sidebar alone.                                     *)
(***************************************************************************)
EXTENDS Naturals, SequencesExt

CONSTANTS
  Opened,     \* sets of sections a page may consist of, as far as the role may see them
  Subject,    \* rows and ranges that can be picked
  Nothing,
  MaxWrites,  \* bound: writes ever made
  MaxTurns,   \* bound: turns of a section that polls or is picked for
  MaxSaves,   \* bound: saves ever sent
  MaxLost     \* bound: requests that get no answer

ASSUME DeskAssumption ==
  /\ MaxWrites \in Nat /\ MaxTurns \in Nat /\ MaxSaves \in Nat /\ MaxLost \in Nat
  /\ Nothing \notin Subject

VARIABLES
  open,      \* the page's sections; none once the browser is at /login
  written,   \* [Table -> the write that last touched it]
  writes,    \* writes made
  turn,      \* [section -> turn of its effect]
  picked,    \* [section -> what it is about]
  shown,     \* [section -> LoadState]
  loads,     \* reads without an answer yet
  forms,     \* [form -> busy, and the write its notice is about]
  saves,     \* saves without an answer yet
  sent, lost,
  told       \* history: [Table -> the last write the page was told it made]

deskVars == <<open, written, writes, turn, picked, shown, loads, forms, saves, sent, lost, told>>
---------------------------------------------------------------------------
(* What the endpoints read, query by query, each a set of tables at one instant.  Queries   *)
(* sent together are taken one after the other, or as one when they read the same table:   *)
(* no property relates two tables.                                                *)

ReadOrganization == <<{"organizations", "branding"}>>
ReadLogos == <<{"logos"}, {"branding"}>>
ReadMembers == <<{"members"}>>
ReadSettings == <<{"settings"}, {"currency"}>>
ReadWorkers == <<{"workers", "drivers"}>>
ReadAreas == <<{"areas", "positions"}, {"sessions"}>>
ReadVehicles == <<{"vehicles"}>>
ReadGeofences == <<{"geofences"}>>
ReadVisits == <<{"visits"}>>
ReadTrips == <<{"trips"}>>
ReadTrack == <<{"trips", "events"}, {"points"}>>
ReadLive == <<{"tracking", "sessions"}, {"trips"}>>
ReadDayTrack == <<{"tracking"}, {"points"}>>
ReadHistory == <<{"sessions"}, {"sessions"}, {"workers"}>>
Warnings == <<{"shifts"}, {"trips"}, {"documents"}>>
ProductionByHour == <<{"production"}>>
ProductionByWorkArea == <<{"production", "areas"}>>
ReadDashboard ==
  <<{"sessions"}>> \o ProductionByHour \o ProductionByWorkArea \o <<{"trips"}>> \o Warnings
ReadWorkforce == <<{"workers"}, {"shifts"}, {"tracking"}, {"trips"}>>

Queries ==
  [organization |-> ReadOrganization, logos |-> ReadLogos, members |-> ReadMembers,
   operational |-> ReadSettings, workers |-> ReadWorkers, areas |-> ReadAreas,
   vehicles |-> ReadVehicles, geofences |-> ReadGeofences, visits |-> ReadVisits,
   trips |-> ReadTrips, track |-> ReadTrack, live |-> ReadLive, dayTrack |-> ReadDayTrack,
   history |-> ReadHistory, dashboard |-> ReadDashboard, workforce |-> ReadWorkforce]

Table == UNION UNION {Range(Queries[s]) : s \in DOMAIN Queries}

(* Forms and buttons that save: the section they stand in, and what they write.     *)
RenameForm == [at |-> "organization", writes |-> {"organizations"}]
LogoForm == [at |-> "logos", writes |-> {"logos", "branding"}]
EmailForm == [at |-> "members", writes |-> {"members"}]
OperationalForm == [at |-> "operational", writes |-> {"settings"}]
WorkerForm == [at |-> "workers", writes |-> {"workers", "drivers"}]
WorkerRowForm == [at |-> "workers", writes |-> {"workers", "drivers"}]
AreaForm == [at |-> "areas", writes |-> {"areas"}]
PositionForm == [at |-> "areas", writes |-> {"positions"}]
ArchiveButton == [at |-> "areas", writes |-> {"positions"}]
VehicleForm == [at |-> "vehicles", writes |-> {"vehicles"}]
GeofenceForm == [at |-> "geofences", writes |-> {"geofences"}]

Forms ==
  [rename |-> RenameForm, logo |-> LogoForm, email |-> EmailForm,
   operational |-> OperationalForm, newWorker |-> WorkerForm, worker |-> WorkerRowForm,
   newArea |-> AreaForm, newPosition |-> PositionForm, archive |-> ArchiveButton,
   newVehicle |-> VehicleForm, newGeofence |-> GeofenceForm]

(* Those inside what a section renders once it is ready; a reload rebuilds them.       *)
Inside == {"rename", "email", "operational", "worker", "newPosition", "archive"}

(* Sections that depend on the page's version, and those about something picked.        *)
Versioned == {"organization", "logos", "members", "workers", "areas", "vehicles", "geofences"}
About == {"visits", "track", "dayTrack", "history"}
PickedFrom == [visits |-> "geofences", track |-> "trips", dayTrack |-> "live"]
Closable == {"newWorker", "newVehicle"}

FormsOf(sections) == {f \in DOMAIN Forms : Forms[f].at \in sections}
TablesOf(s) == UNION Range(Queries[s])

(* What a form of a page writes is shown on that page by sections its save reloads, or, the    *)
(* operational form's settings, by its own section.                                   *)
ASSUME PageAssumption ==
  \A page \in Opened :
    /\ page \subseteq DOMAIN Queries
    /\ \A f \in FormsOf(page), s \in page :
         TablesOf(s) \cap Forms[f].writes # {} =>
           IF f = "operational" THEN s = "operational" ELSE s \in Versioned
---------------------------------------------------------------------------
Blank == [busy |-> FALSE, notice |-> 0]
Loading == [status |-> "loading", about |-> Nothing, got |-> <<>>]
Ready(l) == [status |-> "ready", about |-> l.about, got |-> l.got]

Request(s, n, x) ==
  [section |-> s, turn |-> n, about |-> x, asked |-> 1, got |-> <<>>]

AskedAtFirst(sections) == sections \ {"visits", "dayTrack", "track"}

DeskInit ==
  /\ open \in Opened
  /\ written = [t \in Table |-> 0] /\ told = written /\ writes = 0
  /\ turn = [s \in open |-> 1] /\ picked = [s \in open |-> Nothing]
  /\ shown = [s \in open |-> Loading]
  /\ loads = {Request(s, 1, Nothing) : s \in AskedAtFirst(open)}
  /\ forms = [f \in FormsOf(open) |-> Blank]
  /\ saves = {} /\ sent = 0 /\ lost = 0

(* useApi: sections whose dependencies changed show "loading", ask again, and what was    *)
(* inside them is gone with its state.                                            *)
Asked(S, about) == {Request(s, turn[s] + 1, about[s]) : s \in S}
Turned(S) == [s \in open |-> IF s \in S THEN turn[s] + 1 ELSE turn[s]]
Unready(S) == [s \in open |-> IF s \in S THEN Loading ELSE shown[s]]
Rebuilt(S) ==
  [f \in DOMAIN forms |-> IF f \in Inside /\ Forms[f].at \in S THEN Blank ELSE forms[f]]
Orphaned(S) ==
  {[v EXCEPT !.mine = @ /\ ~(v.form \in Inside /\ Forms[v.form].at \in S)] : v \in saves}

(* Mutant of Current: the effect does not cancel what an earlier turn asked for.          *)
AnyTurn(l) == TRUE

(* cancelled: the answer of an earlier turn is ignored.  The day's track of the live map    *)
(* is read without that guard.                                                  *)
Current(l) == l.section = "dayTrack" \/ l.turn = turn[l.section]

Unanswered(l) == l.asked \in DOMAIN Queries[l.section]

Joined(got, tables) ==
  [t \in DOMAIN got \cup tables |-> IF t \in DOMAIN got THEN got[t] ELSE written[t]]

Query(l) ==
  /\ Unanswered(l)
  /\ loads' = (loads \ {l}) \cup
       {[l EXCEPT !.got = Joined(l.got, Queries[l.section][l.asked]), !.asked = @ + 1]}
  /\ UNCHANGED <<open, written, writes, turn, picked, shown, forms, saves, sent, lost, told>>

\* The visits of a geofence stand below the list, and return with it.
Below(l) ==
  IF l.section = "geofences" /\ Current(l) /\ "visits" \in open /\ picked["visits"] # Nothing
    THEN {Request("visits", turn["visits"], picked["visits"])} ELSE {}

Answered(l) ==
  /\ ~Unanswered(l)
  /\ loads' = (loads \ {l}) \cup Below(l)
  /\ shown' = IF Current(l) THEN [shown EXCEPT ![l.section] = Ready(l)] ELSE shown
  /\ UNCHANGED <<open, written, writes, turn, picked, forms, saves, sent, lost, told>>

(* A read that fails shows as an error.                                           *)
LoadFails(l) ==
  /\ lost < MaxLost /\ lost' = lost + 1
  /\ loads' = loads \ {l}
  /\ shown' = IF Current(l)
              THEN [shown EXCEPT ![l.section] = [Loading EXCEPT !.status = "error"]] ELSE shown
  /\ UNCHANGED <<open, written, writes, turn, picked, forms, saves, sent, told>>

(* A row or a range is picked, or the panel closed: nothing is asked for then.             *)
Listed(s) ==
  s \in DOMAIN PickedFrom /\ PickedFrom[s] \in open => shown[PickedFrom[s]].status = "ready"

Pick(s, x) ==
  /\ s \in About \cap open /\ picked[s] # x /\ turn[s] < MaxTurns
  /\ x # Nothing => Listed(s)
  /\ s \in {"visits", "history"} => x # Nothing
  /\ picked' = [picked EXCEPT ![s] = x]
  /\ loads' = IF x = Nothing THEN {l \in loads : l.section # s} ELSE loads \cup Asked({s}, picked')
  /\ turn' = Turned({s}) /\ shown' = Unready({s})
  /\ UNCHANGED <<open, written, writes, forms, saves, sent, lost, told>>

(* The live map asks anew every fifteen seconds.                                     *)
Poll ==
  /\ "live" \in open /\ turn["live"] < MaxTurns
  /\ loads' = loads \cup Asked({"live"}, picked)
  /\ turn' = Turned({"live"}) /\ shown' = Unready({"live"})
  /\ UNCHANGED <<open, written, writes, picked, forms, saves, sent, lost, told>>
---------------------------------------------------------------------------
Mounted(f) == f \in Inside => shown[Forms[f].at].status = "ready"

(* Archiving a position is not disabled while it is under way.                          *)
Submit(f) ==
  /\ Mounted(f) /\ ~forms[f].busy /\ sent < MaxSaves
  /\ sent' = sent + 1
  /\ saves' = saves \cup {[id |-> sent', form |-> f, phase |-> "sent", mine |-> TRUE, at |-> 0]}
  /\ forms' = [forms EXCEPT ![f].busy = f # "archive"]
  /\ UNCHANGED <<open, written, writes, turn, picked, shown, loads, lost, told>>

Touch(tables) ==
  /\ writes < MaxWrites /\ writes' = writes + 1
  /\ written' = [t \in Table |-> IF t \in tables THEN writes' ELSE written[t]]

Apply(v) ==
  /\ v.phase = "sent" /\ Touch(Forms[v.form].writes)
  /\ saves' = (saves \ {v}) \cup {[v EXCEPT !.phase = "done", !.at = writes']}
  /\ UNCHANGED <<open, turn, picked, shown, loads, forms, sent, lost, told>>

(* Colleagues, workers and drivers write what the page reads.                          *)
Elsewhere(q) ==
  /\ Touch(q)
  /\ UNCHANGED <<open, turn, picked, shown, loads, forms, saves, sent, lost, told>>

(* Refused, or without an answer although it may have been applied.                     *)
SaveFails(v) ==
  /\ lost < MaxLost /\ lost' = lost + 1
  /\ saves' = saves \ {v}
  /\ forms' = IF v.mine THEN [forms EXCEPT ![v.form].busy = FALSE] ELSE forms
  /\ UNCHANGED <<open, written, writes, turn, picked, shown, loads, sent, told>>

Told(tables, n) == [t \in Table |-> IF t \in tables THEN n ELSE told[t]]

(* setVersion: every section of the page that depends on it starts over.  A form that can be *)
(* closed is, also one opened again since.                                           *)
Reload(v) ==
  LET S == Versioned \cap open
      gone == S \cup (open \cap {"visits"})
  IN /\ loads' = loads \cup Asked(S, picked)
     /\ turn' = Turned(gone) /\ shown' = Unready(gone)
     /\ forms' = [Rebuilt(S) EXCEPT ![v.form] =
                    IF v.mine \/ v.form \in Closable THEN Blank ELSE @]
     /\ saves' = {[w EXCEPT !.mine = @ /\ ~(w.form = v.form /\ v.form \in Closable)] :
                    w \in {u \in Orphaned(S) : u.id # v.id}}
     /\ told' = Told(Forms[v.form].writes, v.at)
     /\ UNCHANGED <<open, written, writes, picked, sent, lost>>

Saved(v) ==
  /\ v.phase = "done" /\ v.form \notin {"operational", "newWorker"}
  /\ Reload(v)

(* The operational form takes the settings from the answer.                             *)
OperationalSaved(v) ==
  /\ v.phase = "done" /\ v.form = "operational"
  /\ shown' = [shown EXCEPT !["operational"].got =
                 [t \in DOMAIN @ |-> IF t \in OperationalForm.writes THEN v.at ELSE @[t]]]
  /\ forms' = [forms EXCEPT !["operational"] = Blank]
  /\ saves' = saves \ {v}
  /\ told' = Told(OperationalForm.writes, v.at)
  /\ UNCHANGED <<open, written, writes, turn, picked, loads, sent, lost>>

(* A new worker's number is shown first; "Done" then reloads, the header's button only    *)
(* closes the form.                                                             *)
WorkerCreated(v) ==
  /\ v.phase = "done" /\ v.form = "newWorker"
  /\ forms' = IF v.mine THEN [forms EXCEPT !["newWorker"] = [busy |-> FALSE, notice |-> v.at]]
              ELSE forms
  /\ saves' = saves \ {v}
  /\ UNCHANGED <<open, written, writes, turn, picked, shown, loads, sent, lost, told>>

Dismiss ==
  /\ "newWorker" \in DOMAIN forms /\ forms["newWorker"].notice > 0
  /\ Reload([id |-> 0, form |-> "newWorker", mine |-> TRUE, at |-> forms["newWorker"].notice])

CloseForm(f) ==
  /\ f \in Closable \cap DOMAIN forms /\ forms[f] # Blank
  /\ forms' = [forms EXCEPT ![f] = Blank]
  /\ saves' = {[v EXCEPT !.mine = @ /\ v.form # f] : v \in saves}
  /\ UNCHANGED <<open, written, writes, turn, picked, shown, loads, sent, lost, told>>

(* An administrator who changed his own address is signed out.                            *)
SignedOut(v) ==
  /\ v.phase = "done" /\ v.form = "email"
  /\ open' = {} /\ loads' = {} /\ saves' = {}
  /\ turn' = <<>> /\ picked' = <<>> /\ shown' = <<>> /\ forms' = <<>>
  /\ UNCHANGED <<written, writes, sent, lost, told>>

DeskNext ==
  \/ \E l \in loads : Query(l) \/ Answered(l) \/ LoadFails(l)
  \/ \E s \in About, x \in Subject \cup {Nothing} : Pick(s, x)
  \/ Poll
  \/ \E f \in DOMAIN forms : Submit(f)
  \/ \E v \in saves :
       \/ Apply(v) \/ SaveFails(v) \/ Saved(v) \/ OperationalSaved(v) \/ WorkerCreated(v)
       \/ SignedOut(v)
  \/ \E l \in loads : Unanswered(l) /\ Elsewhere(Queries[l.section][l.asked])
  \/ Dismiss
  \/ \E f \in Closable : CloseForm(f)

DeskSpec == DeskInit /\ [][DeskNext]_deskVars
---------------------------------------------------------------------------
(* Properties.                                                               *)

(* What a section shows as ready is about what is picked in it, and no older than the       *)
(* last save the page was told of: no slow answer overwrites a newer one, however reads,       *)
(* saves and reloads overlap (useApi: "a slow first request resolving after a fast second       *)
(* one").  A new worker counts once his notice is dismissed with "Done".                     *)
ShownIsCurrent ==
  \A s \in open \ {"dayTrack"} :
    shown[s].status = "ready" =>
      /\ shown[s].about = picked[s]
      /\ \A t \in DOMAIN shown[s].got : shown[s].got[t] >= told[t]

(* The same of the live map's track: it may be another person's, its read is not cancelled.    *)
DayTrackIsOfThePicked ==
  "dayTrack" \in open /\ shown["dayTrack"].status = "ready" =>
    shown["dayTrack"].about = picked["dayTrack"]

(* "Bumped after every write": not after a worker is added and the header closes the form.     *)
NewWorkerListed ==
  "workers" \in open /\ saves = {} /\ loads = {} /\ lost = 0 =>
    \/ forms["newWorker"].notice > 0
    \/ shown["workers"].got["workers"] = written["workers"]
=============================================================================
