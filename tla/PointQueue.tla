----------------------------- MODULE PointQueue -----------------------------
(***************************************************************************)
(* A device and the server it uploads to: the durable point queue, the        *)
(* collectors that share it, and the requests of TrackingSessions.            *)
(*                                                                         *)
(* The hook of the web app makes a collector for the session the server        *)
(* reports and stops it when that session, or its sampling policy, changes     *)
(* or the page goes away; stop() is not awaited, and two tabs share one        *)
(* IndexedDB store, so several collectors may be at work at once.             *)
(*                                                                         *)
(* Abstractions.  Which fixes sampling lets through, beyond the minimum        *)
(* interval, is left open; a fix is decided on, queued and noted as the last    *)
(* sent in one step, fixes coming further apart than that.  Status reports, the    *)
(* wake lock and the in-memory queue of private browsing are left out.          *)
(***************************************************************************)
EXTENDS TrackingSessions

CONSTANTS
  MaxQueued,     \* MAX_QUEUED_POINTS
  BatchSize,     \* the limit flush() peeks with
  NoRequest,     \* sentinel
  MaxFaults      \* bound on lost connections, failed requests and killed tabs

ASSUME QueueAssumption ==
  /\ MaxQueued \in Nat \ {0} /\ BatchSize \in Nat \ {0} /\ MaxFaults \in Nat
  /\ NoRequest \notin Request

VARIABLES
  queue,       \* the points store
  collector,   \* the collectors, in order of creation
  flush,       \* the flush() each of them is running, if any
  received,    \* points of the batches the server has accepted
  faults       \* faults so far

deviceVars == <<queue, collector, flush, received, faults>>
vars == <<serverVars, deviceVars>>

CollectorState ==
  [phase: {"none", "active", "stopping", "clearing", "stopped", "killed"},
   session: SessionId \cup {0},
   last: Stamp \cup {Null}]       \* lastSentAt
FlushState ==
  [phase: {"idle", "peek", "sent", "acked"},
   batch: SUBSET Point, request: Request \cup {NoRequest}]

NoCollector == [phase |-> "none", session |-> 0, last |-> Null]
NoFlush == [phase |-> "idle", batch |-> {}, request |-> NoRequest]
Peeking == [NoFlush EXCEPT !.phase = "peek"]

TypeOK ==
  /\ ServerTypeOK
  /\ queue \subseteq Point
  /\ Cardinality(queue) <= MaxQueued
  /\ collector \in [Collector -> CollectorState]
  /\ flush \in [Collector -> FlushState]
  /\ received \subseteq Point
  /\ faults \in 0..MaxFaults

Init ==
  /\ ServerInit
  /\ queue = {}
  /\ collector = [c \in Collector |-> NoCollector]
  /\ flush = [c \in Collector |-> NoFlush]
  /\ received = {}
  /\ faults = 0
---------------------------------------------------------------------------
(* The queue.                                                                *)

Rank(p, q) == Cardinality({x \in q : Older(x, p)})

(* enqueue: what exceeds the cap is dropped, oldest first.                     *)
Enqueue(p) ==
  LET q == queue \cup {p}
  IN {x \in q : Rank(x, q) >= Cardinality(q) - MaxQueued}

Peek(limit) == {p \in queue : Rank(p, queue) < limit}
---------------------------------------------------------------------------
(* The life of a collector.                                                  *)

Create(c) ==
  /\ collector[c].phase = "none"
  /\ \A b \in Collector : b < c => collector[b].phase # "none"
  /\ \E s \in OpenSessions :
       collector' = [collector EXCEPT ![c] = [NoCollector EXCEPT !.phase = "active",
                                                                 !.session = s]]
  /\ UNCHANGED <<serverVars, queue, flush, received, faults>>

(* onFix, for a fix sampling accepts.  The flush it triggers is StartFlush.    *)
OnFix(c) ==
  LET at == now + Skew IN
  /\ collector[c].phase = "active"
  /\ collector[c].last = Null \/ at - collector[c].last >= MinInterval
  /\ queue' = Enqueue([by |-> c, at |-> at])
  /\ collector' = [collector EXCEPT ![c].last = at]
  /\ UNCHANGED <<serverVars, flush, received, faults>>

(* stop(): awaits a flush of its own, unless one is running already.           *)
Stop(c) ==
  /\ collector[c].phase = "active"
  /\ \/ /\ flush[c].phase = "idle"
        /\ collector' = [collector EXCEPT ![c].phase = "stopping"]
        /\ flush' = [flush EXCEPT ![c] = Peeking]
     \/ /\ flush[c].phase # "idle"
        /\ collector' = [collector EXCEPT ![c].phase = "clearing"]
        /\ UNCHANGED flush
  /\ UNCHANGED <<serverVars, queue, received, faults>>

(* queue.clear(sessionId), whatever became of the flush.                       *)
Clear(c) ==
  /\ \/ collector[c].phase = "clearing"
     \/ collector[c].phase = "stopping" /\ flush[c].phase = "idle"
  /\ queue' = {p \in queue : collector[p.by].session # collector[c].session}
  /\ collector' = [collector EXCEPT ![c].phase = "stopped"]
  /\ UNCHANGED <<serverVars, flush, received, faults>>
---------------------------------------------------------------------------
(* flush().                                                                  *)

MutFlushOwnPointsOnly(c) ==
  /\ collector[c].phase = "active"
  /\ flush[c].phase = "idle"
  /\ \E p \in queue : p.by = c
  /\ flush' = [flush EXCEPT ![c] = Peeking]
  /\ UNCHANGED <<serverVars, queue, collector, received, faults>>

(* A fix, regained connectivity, or a visible page.                           *)
StartFlush(c) ==
  /\ collector[c].phase = "active"
  /\ flush[c].phase = "idle"
  /\ queue # {}
  /\ flush' = [flush EXCEPT ![c] = Peeking]
  /\ UNCHANGED <<serverVars, queue, collector, received, faults>>

PeekEmpty(c) ==
  /\ flush[c].phase = "peek"
  /\ queue = {}
  /\ flush' = [flush EXCEPT ![c] = NoFlush]
  /\ UNCHANGED <<serverVars, queue, collector, received, faults>>

Upload(c) ==
  /\ flush[c].phase = "peek"
  /\ \E r \in Request :
       /\ Receive(r, Peek(BatchSize))
       /\ flush' = [flush EXCEPT ![c] = [phase |-> "sent", batch |-> Peek(BatchSize),
                                         request |-> r]]
  /\ UNCHANGED <<queue, collector, received, faults>>

MutFailureTakenForSuccess(c) ==
  LET f == flush[c] IN
  /\ f.phase = "sent"
  /\ Answered(f.request)
  /\ flush' = [flush EXCEPT ![c].phase = "acked", ![c].request = NoRequest]
  /\ UNCHANGED <<queue, collector, received, faults>>

(* A failure ends the flush; what it sent stays queued.                        *)
UploadAnswered(c) ==
  LET f == flush[c] IN
  /\ f.phase = "sent"
  /\ Answered(f.request)
  /\ flush' = [flush EXCEPT ![c] = IF req[f.request].phase = "done"
                                     THEN [f EXCEPT !.phase = "acked",
                                                    !.request = NoRequest]
                                     ELSE NoFlush]
  /\ UNCHANGED <<queue, collector, received, faults>>

Remove(c) ==
  /\ flush[c].phase = "acked"
  /\ queue' = queue \ flush[c].batch
  /\ flush' = [flush EXCEPT ![c] = Peeking]
  /\ UNCHANGED <<serverVars, collector, received, faults>>

FlushStep(c) ==
  PeekEmpty(c) \/ Upload(c) \/ UploadAnswered(c) \/ Remove(c) \/ Clear(c)
---------------------------------------------------------------------------
(* Faults.                                                                   *)

Waiting(r) == \E c \in Collector : flush[c].request = r

(* The connection is lost; the request may have reached the server.            *)
LoseConnection(c) ==
  /\ flush[c].phase = "sent"
  /\ flush' = [flush EXCEPT ![c] = NoFlush]
  /\ UNCHANGED <<serverVars, queue, collector, received>>

(* The tab is killed.  What IndexedDB holds is kept.                           *)
Kill(c) ==
  /\ collector[c].phase \in {"active", "stopping", "clearing", "stopped"}
  /\ collector' = [collector EXCEPT ![c].phase = "killed"]
  /\ flush' = [flush EXCEPT ![c] = NoFlush]
  /\ UNCHANGED <<serverVars, queue, received>>

RequestFails(r) == Abort(r) /\ UNCHANGED <<queue, collector, flush, received>>

Fault ==
  /\ faults < MaxFaults
  /\ faults' = faults + 1
  /\ \/ \E c \in Collector : LoseConnection(c) \/ Kill(c)
     \/ \E r \in Request : RequestFails(r)
---------------------------------------------------------------------------
(* The server's steps, with the device looking on.                            *)

ServerStep(r) ==
  \/ /\ Commit(r)
     /\ received' = received \cup req[r].batch
     /\ UNCHANGED <<queue, collector, flush, faults>>
  \/ /\ \/ Admit(r) \/ Reject(r) \/ Append(r) \/ CloseWrite(r)
        \/ ~Waiting(r) /\ Answered(r)
     /\ UNCHANGED deviceVars

Shift ==
  /\ \/ Tick
     \/ \E t \in Time : OpenSession(t)
     \/ \E t \in Time, r \in Request : CloseRead(r, t)
  /\ UNCHANGED deviceVars

Next ==
  \/ Shift
  \/ \E r \in Request : ServerStep(r)
  \/ \E c \in Collector : Create(c) \/ OnFix(c) \/ Stop(c) \/ StartFlush(c) \/ FlushStep(c)
  \/ Fault

(* Requests and flushes are carried on with; an active collector keeps being    *)
(* given fixes, each of which tries a flush.                                  *)
Fairness ==
  /\ \A r \in Request : WF_vars(ServerStep(r))
  /\ \A c \in Collector : WF_vars(StartFlush(c)) /\ WF_vars(FlushStep(c))

Spec == Init /\ [][Next]_vars
FairSpec == Spec /\ Fairness
---------------------------------------------------------------------------
(* Properties.                                                               *)

(* A point leaves the queue only because the server has accepted a batch with   *)
(* it, because its session's collector is stopped, or because the queue is full *)
(* and it is older than every point kept.                                    *)
AcknowledgedOnly ==
  [][\A p \in queue \ queue' :
       \/ p \in received
       \/ \E c \in Collector : /\ Clear(c)
                               /\ collector[p.by].session = collector[c].session
       \/ Cardinality(queue') = MaxQueued /\ \A x \in queue' : Older(p, x)]_vars

(* While a collector is active and a session is open, a queue that is not empty *)
(* is emptied, unless a fix the request schema refuses comes to be in the batch: no  *)
(* point waits for ever behind a lost answer, a killed tab or another tab's points.  *)
Reporting == OpenSessions # {} /\ \E c \in Collector : collector[c].phase = "active"
Blocked == \E p \in Peek(BatchSize) : p.at \in Unfit
Drains == queue # {} ~> (queue = {} \/ ~Reporting \/ Blocked)

(* No point waits for ever behind a refused batch either.  Not so: a batch is refused  *)
(* as a whole, stays queued, and the same oldest points are sent again at every fix.  *)
EmptiedAnyway == queue # {} ~> (queue = {} \/ ~Reporting)
=============================================================================
