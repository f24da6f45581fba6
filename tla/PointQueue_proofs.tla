-------------------------- MODULE PointQueue_proofs --------------------------
(***************************************************************************)
(* Theorems about PointQueue, for every queue limit, batch size and number of  *)
(* collectors, sessions, requests and faults.                                 *)
(***************************************************************************)
EXTENDS PointQueue, TrackingSessions_proofs, FiniteSetTheorems

---------------------------------------------------------------------------
(* The order of the queue, and what enqueue drops.                             *)

Below(x, q) == {y \in q : Older(y, x)}

LEMMA OlderOrders ==
  /\ \A p \in Point : ~Older(p, p)
  /\ \A p, q, x \in Point : Older(p, q) /\ Older(q, x) => Older(p, x)
BY TrackingAssumption DEF Point, Older, Collector, Stamp

LEMMA OldestExists ==
  ASSUME NEW q \in SUBSET Point, IsFiniteSet(q), q # {}
  PROVE  \E x \in q : Below(x, q) = {}
<1> DEFINE B == {Below(x, q) : x \in q}
<1>1. B \subseteq FiniteSubsetsOf(q) /\ B # {}
  <2>1. ASSUME NEW x \in q PROVE Below(x, q) \in FiniteSubsetsOf(q)
    BY FS_Subset DEF Below, FiniteSubsetsOf
  <2> QED BY <2>1
<1>2. PICK b \in B : \A d \in B : ~(<<d, b>> \in StrictSubsetOrdering(q))
  BY <1>1, FS_StrictSubsetOrderingWellFounded, WFMin
<1>3. PICK x \in q : b = Below(x, q)
  OBVIOUS
<1>4. ASSUME NEW y \in Below(x, q) PROVE FALSE
  <2>1. y \in q /\ Older(y, x) /\ Below(y, q) \in B
    BY DEF Below
  <2>2. Below(y, q) \subseteq b /\ y \in b /\ y \notin Below(y, q)
    BY <1>3, <2>1, OlderOrders DEF Below
  <2>3. <<Below(y, q), b>> \in StrictSubsetOrdering(q)
    <3>1. \A u, v \in SUBSET q :
            u \subseteq v /\ u # v => <<u, v>> \in StrictSubsetOrdering(q)
      BY DEF StrictSubsetOrdering
    <3>2. Below(y, q) \in SUBSET q /\ b \in SUBSET q
      BY <1>3 DEF Below
    <3> QED BY <2>2, <3>1, <3>2
  <2> QED BY <1>2, <2>1, <2>3
<1> QED BY <1>4

LEMMA RankBelow ==
  ASSUME NEW q \in SUBSET Point, IsFiniteSet(q), NEW x \in q
  PROVE  /\ Rank(x, q) \in Nat
         /\ Rank(x, q) = 0 <=> Below(x, q) = {}
<1>1. Rank(x, q) = Cardinality(Below(x, q)) /\ Below(x, q) \in SUBSET q
  BY DEF Rank, Below
<1>2. IsFiniteSet(Below(x, q))
  BY <1>1, FS_Subset
<1> QED BY <1>1, <1>2, FS_CardinalityType, FS_EmptySet

(* enqueue drops at most one point, when the queue is full, and it is older than   *)
(* every point kept.                                                         *)
LEMMA EnqueueDropsOldest ==
  ASSUME queue \in SUBSET Point, IsFiniteSet(queue), Cardinality(queue) <= MaxQueued,
         NEW p \in Point
  PROVE  /\ Enqueue(p) \in SUBSET (queue \cup {p}) /\ IsFiniteSet(Enqueue(p))
         /\ Cardinality(Enqueue(p)) <= MaxQueued
         /\ \A x \in queue \ Enqueue(p) :
              /\ Cardinality(Enqueue(p)) = MaxQueued
              /\ \A y \in Enqueue(p) : Older(x, y)
<1> DEFINE q == queue \cup {p}
<1>1. /\ q \in SUBSET Point /\ q # {} /\ IsFiniteSet(q)
      /\ Cardinality(q) \in Nat /\ Cardinality(q) <= MaxQueued + 1
  <2>1. /\ IsFiniteSet(q)
        /\ Cardinality(q) = IF p \in queue THEN Cardinality(queue) ELSE Cardinality(queue) + 1
    BY FS_AddElement
  <2>2. Cardinality(queue) \in Nat
    BY FS_CardinalityType
  <2>3. MaxQueued \in Nat
    BY QueueAssumption
  <2>4. q \in SUBSET Point /\ q # {}
    OBVIOUS
  <2> HIDE DEF q
  <2> QED BY <2>1, <2>2, <2>3, <2>4
<1>2. Enqueue(p) = {x \in q : Rank(x, q) >= Cardinality(q) - MaxQueued}
  BY DEF Enqueue
<1> HIDE DEF q
<1>3. MaxQueued \in Nat /\ \A x \in q : Rank(x, q) \in Nat
  BY <1>1, RankBelow, QueueAssumption
<1>4. CASE Cardinality(q) <= MaxQueued
  <2>1. Enqueue(p) = q
    BY <1>1, <1>2, <1>3, <1>4
  <2> QED BY <1>1, <1>4, <2>1 DEF q
<1>5. CASE Cardinality(q) = MaxQueued + 1
  <2>1. PICK m \in q : Below(m, q) = {}
    BY <1>1, OldestExists
  <2>2. \A x \in q : x # m => Older(m, x)
    BY <1>1, <2>1, OlderTotal DEF Below
  <2>3. \A x \in q : Rank(x, q) >= 1 <=> x # m
    <3>1. \A x \in q : Rank(x, q) = 0 <=> Below(x, q) = {}
      BY <1>1, RankBelow
    <3>2. \A x \in q : Below(x, q) = {} <=> x = m
      BY <2>1, <2>2 DEF Below
    <3> QED BY <1>3, <3>1, <3>2
  <2>4. Enqueue(p) = q \ {m}
    BY <1>2, <1>3, <1>5, <2>3
  <2>5. IsFiniteSet(Enqueue(p)) /\ Cardinality(Enqueue(p)) = MaxQueued
    <3>1. IsFiniteSet(q \ {m}) /\ Cardinality(q \ {m}) = Cardinality(q) - 1
      BY <1>1, <2>1, FS_RemoveElement
    <3> QED BY <3>1, <2>4, <1>3, <1>5
  <2>6. \A x \in queue \ Enqueue(p) : x = m
    BY <2>4 DEF q
  <2>7. \A y \in Enqueue(p) : Older(m, y)
    BY <2>2, <2>4
  <2>8. Enqueue(p) \in SUBSET (queue \cup {p})
    BY <2>4 DEF q
  <2>9. Cardinality(Enqueue(p)) <= MaxQueued
    BY <1>3, <2>5
  <2> QED BY <2>5, <2>6, <2>7, <2>8, <2>9
<1> QED BY <1>1, <1>3, <1>4, <1>5
---------------------------------------------------------------------------
(* The inductive invariant.                                                  *)

DeviceTyped ==
  /\ queue \in SUBSET Point /\ IsFiniteSet(queue) /\ Cardinality(queue) <= MaxQueued
  /\ collector \in [Collector -> CollectorState]
  /\ flush \in [Collector -> FlushState]
  /\ received \in SUBSET Point
  /\ faults \in 0..MaxFaults

(* The request of a flush that waits carries the flush's batch until it fails or   *)
(* the server has accepted it.                                                *)
Outstanding(f) ==
  /\ f.request \in Request
  /\ \/ /\ req[f.request].phase \in {"arrived", "admitted", "appended"}
        /\ req[f.request].batch = f.batch
     \/ req[f.request].phase = "done" /\ f.batch \subseteq received
     \/ req[f.request].phase = "failed"

FlushSound(c) ==
  /\ flush[c].phase = "sent" => Outstanding(flush[c])
  /\ flush[c].phase = "acked" => flush[c].batch \subseteq received

(* No two flushes wait for one request.                                       *)
OwnRequests ==
  \A c, d \in Collector :
    flush[c].phase = "sent" /\ flush[d].phase = "sent" /\ flush[c].request = flush[d].request
    => c = d

QueueInv ==
  /\ ServerInv
  /\ DeviceTyped
  /\ \A c \in Collector : FlushSound(c)
  /\ OwnRequests

LEMMA InitQueueInv == Init => QueueInv
<1> SUFFICES ASSUME Init PROVE QueueInv
  OBVIOUS
<1>1. ServerInv
  BY InitServerInv DEF Init
<1>2. NoCollector \in CollectorState /\ NoFlush \in FlushState /\ NoFlush.phase = "idle"
  BY DEF NoCollector, CollectorState, NoFlush, FlushState
<1>3. DeviceTyped
  BY <1>2, FS_EmptySet, QueueAssumption DEF Init, DeviceTyped
<1>4. \A c \in Collector : flush[c].phase = "idle"
  BY <1>2 DEF Init
<1> QED BY <1>1, <1>3, <1>4 DEF QueueInv, FlushSound, OwnRequests

---------------------------------------------------------------------------
(* Every step of the composition is a step of the server or leaves it alone.      *)

LEMMA ServerSteps ==
  ASSUME QueueInv, [Next]_vars
  PROVE  [ServerNext]_serverVars
<1>1. CASE UNCHANGED vars
  BY <1>1 DEF vars
<1>2. CASE Shift
  BY <1>2 DEF Shift, ServerNext
<1>3. ASSUME NEW r \in Request, ServerStep(r) PROVE [ServerNext]_serverVars
  BY <1>3 DEF ServerStep, ServerNext, ServeIngest
<1>4. ASSUME NEW c \in Collector,
             Create(c) \/ OnFix(c) \/ Stop(c) \/ StartFlush(c) \/ FlushStep(c)
      PROVE  [ServerNext]_serverVars
  <2>1. CASE Upload(c)
    <3>1. PICK r \in Request : Receive(r, Peek(BatchSize))
      BY <2>1 DEF Upload
    <3>2. Peek(BatchSize) \in SUBSET Point
      BY DEF Peek, QueueInv, DeviceTyped
    <3> QED BY <3>1, <3>2 DEF ServerNext
  <2>2. CASE UploadAnswered(c)
    <3>1. flush[c].request \in Request /\ Answered(flush[c].request)
      BY <2>2 DEF UploadAnswered, QueueInv, FlushSound, Outstanding
    <3> QED BY <3>1 DEF ServerNext
  <2>3. CASE Create(c) \/ OnFix(c) \/ Stop(c) \/ StartFlush(c) \/ PeekEmpty(c) \/ Remove(c)
             \/ Clear(c)
    BY <2>3 DEF Create, OnFix, Stop, StartFlush, PeekEmpty, Remove, Clear
  <2> QED BY <1>4, <2>1, <2>2, <2>3 DEF FlushStep
<1>5. CASE Fault
  BY <1>5 DEF Fault, LoseConnection, Kill, RequestFails, ServerNext
<1> QED BY <1>1, <1>2, <1>3, <1>4, <1>5 DEF Next

---------------------------------------------------------------------------
(* QueueInv is inductive.                                                     *)

(* A flush goes on with the same batch and requests, or ends.                     *)
LEMMA FlushGoesOn ==
  ASSUME QueueInv, NEW c \in Collector, NEW f \in FlushState,
         flush' = [flush EXCEPT ![c] = f], f.phase # "sent",
         f.phase = "acked" => f.batch \subseteq received,
         UNCHANGED received,
         \A d \in Collector \ {c} :
           flush[d].phase = "sent" => req'[flush[d].request] = req[flush[d].request]
  PROVE  (\A d \in Collector : FlushSound(d)') /\ OwnRequests'
<1>1. \A d \in Collector : flush'[d] = IF d = c THEN f ELSE flush[d]
  BY DEF QueueInv, DeviceTyped
<1>2. ASSUME NEW d \in Collector PROVE FlushSound(d)'
  <2>1. CASE d = c
    BY <1>1, <2>1 DEF FlushSound
  <2>2. CASE d # c
    BY <1>1, <2>2 DEF FlushSound, Outstanding, QueueInv
  <2> QED BY <2>1, <2>2
<1>3. OwnRequests'
  BY <1>1 DEF OwnRequests, QueueInv
<1> QED BY <1>2, <1>3

(* A request moves on while every flush stays as it is.                           *)
LEMMA RequestGoesOn ==
  ASSUME QueueInv, NEW r \in Request, NEW q,
         req' = [req EXCEPT ![r] = q], UNCHANGED flush,
         received \subseteq received',
         \A c \in Collector :
           flush[c].phase = "sent" /\ flush[c].request = r => Outstanding(flush[c])'
  PROVE  (\A c \in Collector : FlushSound(c)') /\ OwnRequests'
<1>1. \A o \in Request : o # r => req'[o] = req[o]
  BY DEF QueueInv, ServerInv, ServerTypeOK
<1>2. ASSUME NEW c \in Collector PROVE FlushSound(c)'
  <2>1. flush'[c] = flush[c] /\ FlushSound(c)
    BY DEF QueueInv
  <2>2. CASE flush[c].phase = "sent" /\ flush[c].request # r
    BY <1>1, <2>1, <2>2 DEF FlushSound, Outstanding
  <2>3. CASE flush[c].phase = "sent" /\ flush[c].request = r
    BY <2>1, <2>3 DEF FlushSound
  <2>4. CASE flush[c].phase # "sent"
    BY <2>1, <2>4 DEF FlushSound
  <2> QED BY <2>2, <2>3, <2>4
<1> QED BY <1>2 DEF OwnRequests, QueueInv

LEMMA ServeKeepsFlushes ==
  ASSUME QueueInv, NEW r \in Request, ServerStep(r)
  PROVE  DeviceTyped' /\ (\A c \in Collector : FlushSound(c)') /\ OwnRequests'
<1>1. /\ req \in [Request -> RequestState] /\ req[r] \in RequestState
      /\ req[r].batch \in SUBSET Point /\ received \in SUBSET Point
  BY DEF QueueInv, ServerInv, ServerTypeOK, RequestState, DeviceTyped
<1>2. \A c \in Collector : flush[c].phase = "sent" => Outstanding(flush[c])
  BY DEF QueueInv, FlushSound
<1>3. CASE Commit(r) /\ received' = received \cup req[r].batch
           /\ UNCHANGED <<queue, collector, flush, faults>>
  <2> DEFINE q == [Idle EXCEPT !.phase = "done"]
  <2>1. req' = [req EXCEPT ![r] = q] /\ req[r].phase = "appended"
    BY <1>3 DEF Commit, Goto
  <2>2. q.phase = "done"
    BY DEF Idle
  <2> HIDE DEF q
  <2>3. req'[r].phase = "done"
    BY <2>1, <2>2, <1>1
  <2>4. ASSUME NEW c \in Collector, flush[c].phase = "sent", flush[c].request = r
        PROVE  Outstanding(flush[c])'
    BY <1>2, <1>3, <2>1, <2>3, <2>4 DEF Outstanding
  <2>5. DeviceTyped'
    BY <1>1, <1>3 DEF QueueInv, DeviceTyped
  <2> QED BY <1>3, <2>1, <2>4, <2>5, RequestGoesOn
<1>4. CASE (Admit(r) \/ Reject(r) \/ Append(r) \/ CloseWrite(r) \/ (~Waiting(r) /\ Answered(r)))
           /\ UNCHANGED deviceVars
  <2>1. DeviceTyped' /\ UNCHANGED <<flush, received>>
    BY <1>4 DEF QueueInv, DeviceTyped, deviceVars
  <2>2. \E q : /\ req' = [req EXCEPT ![r] = q]
               /\ \/ /\ req[r].phase \in {"arrived", "admitted"}
                     /\ q.phase \in {"admitted", "appended"} /\ q.batch = req[r].batch
                  \/ q.phase = "failed"
                  \/ req[r].phase = "closing"
                  \/ ~Waiting(r)
    <3>1. CASE Admit(r)
      BY <1>1, <3>1 DEF Admit, Remember, Goto, RequestState
    <3>2. CASE Reject(r)
      <4>1. [Idle EXCEPT !.phase = "failed"].phase = "failed"
        BY DEF Idle
      <4> QED BY <3>2, <4>1 DEF Reject, Remember, Goto
    <3>3. CASE Append(r)
      <4> DEFINE q(rows, listed) == [req[r] EXCEPT !.phase = "appended", !.rows = rows,
                                                  !.listed = listed]
      <4>1. PICK rows, listed : Remember(r, q(rows, listed))
        BY <3>3 DEF Append
      <4>2. q(rows, listed).phase = "appended" /\ q(rows, listed).batch = req[r].batch
        BY <1>1 DEF RequestState
      <4>3. req' = [req EXCEPT ![r] = q(rows, listed)] /\ req[r].phase = "admitted"
        BY <3>3, <4>1 DEF Append, Remember, Goto
      <4> HIDE DEF q
      <4> QED BY <4>2, <4>3
    <3>4. CASE CloseWrite(r)
      BY <3>4 DEF CloseWrite, Goto
    <3>5. CASE ~Waiting(r) /\ Answered(r)
      BY <3>5 DEF Answered, Remember, Goto
    <3> QED BY <1>4, <3>1, <3>2, <3>3, <3>4, <3>5
  <2>3. PICK q : /\ req' = [req EXCEPT ![r] = q]
                 /\ \/ /\ req[r].phase \in {"arrived", "admitted"}
                       /\ q.phase \in {"admitted", "appended"} /\ q.batch = req[r].batch
                    \/ q.phase = "failed"
                    \/ req[r].phase = "closing"
                    \/ ~Waiting(r)
    BY <2>2
  <2>4. ASSUME NEW c \in Collector, flush[c].phase = "sent", flush[c].request = r
        PROVE  Outstanding(flush[c])'
    <3>1. Outstanding(flush[c]) /\ req'[r] = q /\ Waiting(r)
      BY <1>1, <1>2, <2>3, <2>4 DEF Waiting
    <3> QED BY <2>1, <2>3, <2>4, <3>1 DEF Outstanding
  <2> QED BY <2>1, <2>3, <2>4, RequestGoesOn
<1> QED BY <1>3, <1>4 DEF ServerStep

LEMMA ShiftKeepsFlushes ==
  ASSUME QueueInv, Shift
  PROVE  DeviceTyped' /\ (\A c \in Collector : FlushSound(c)') /\ OwnRequests'
<1>1. DeviceTyped' /\ UNCHANGED <<flush, received>>
  BY DEF Shift, deviceVars, QueueInv, DeviceTyped
<1>2. CASE UNCHANGED req
  BY <1>1, <1>2 DEF QueueInv, FlushSound, Outstanding, OwnRequests
<1>3. ASSUME NEW t \in Time, NEW r \in Request, CloseRead(r, t)
      PROVE  (\A c \in Collector : FlushSound(c)') /\ OwnRequests'
  <2>1. PICK q : req' = [req EXCEPT ![r] = q] /\ req[r].phase = "idle"
    <3>1. \E q : req' = [req EXCEPT ![r] = q]
      BY <1>3 DEF CloseRead, Remember, Goto
    <3>2. req[r].phase = "idle"
      BY <1>3 DEF CloseRead, Idle
    <3> QED BY <3>1, <3>2
  <2>2. ASSUME NEW c \in Collector, flush[c].phase = "sent", flush[c].request = r
        PROVE  FALSE
    BY <2>1, <2>2 DEF QueueInv, FlushSound, Outstanding
  <2> QED BY <1>1, <2>1, <2>2, RequestGoesOn
<1> QED BY <1>1, <1>2, <1>3 DEF Shift, Tick, OpenSession

LEMMA FailKeepsFlushes ==
  ASSUME QueueInv, NEW r \in Request, RequestFails(r)
  PROVE  (\A c \in Collector : FlushSound(c)') /\ OwnRequests'
<1>1. UNCHANGED <<flush, received>>
  BY DEF RequestFails
<1>2. PICK q : req' = [req EXCEPT ![r] = q] /\ (q.phase = "failed" \/ req[r].phase = "closing")
  <2>1. [Idle EXCEPT !.phase = "failed"].phase = "failed"
    BY DEF Idle
  <2> QED BY <2>1 DEF RequestFails, Abort, Remember, Goto
<1>3. ASSUME NEW c \in Collector, flush[c].phase = "sent", flush[c].request = r
      PROVE  Outstanding(flush[c])'
  <2>1. Outstanding(flush[c]) /\ req'[r] = q
    BY <1>2, <1>3 DEF QueueInv, FlushSound, ServerInv, ServerTypeOK
  <2> QED BY <1>1, <1>2, <1>3, <2>1 DEF Outstanding
<1> QED BY <1>1, <1>2, <1>3, RequestGoesOn

(* Flushes and requests stay.                                                 *)
LEMMA FlushesStay ==
  ASSUME QueueInv, UNCHANGED <<req, flush, received>>
  PROVE  (\A c \in Collector : FlushSound(c)') /\ OwnRequests'
BY DEF QueueInv, FlushSound, Outstanding, OwnRequests

LEMMA CollectorKeepsFlushes ==
  ASSUME QueueInv, NEW c \in Collector, Create(c) \/ OnFix(c) \/ Stop(c) \/ Clear(c)
  PROVE  DeviceTyped' /\ (\A d \in Collector : FlushSound(d)') /\ OwnRequests'
<1>1. DeviceTyped /\ collector[c] \in CollectorState
  BY DEF QueueInv, DeviceTyped
<1>2. CASE Create(c)
  <2>1. PICK s \in SessionId :
          collector' = [collector EXCEPT ![c] = [NoCollector EXCEPT !.phase = "active",
                                                                    !.session = s]]
    BY <1>2 DEF Create, OpenSessions
  <2>2. [NoCollector EXCEPT !.phase = "active", !.session = s] \in CollectorState
    BY DEF NoCollector, CollectorState
  <2>3. DeviceTyped'
    BY <1>1, <1>2, <2>1, <2>2 DEF Create, DeviceTyped
  <2> QED BY <1>2, <2>3, FlushesStay DEF Create, serverVars
<1>3. CASE OnFix(c)
  <2> DEFINE p == [by |-> c, at |-> now + Skew]
  <2>1. now + Skew \in Stamp
    BY TrackingAssumption DEF QueueInv, ServerInv, ServerTypeOK, Time, Stamp
  <2>2. p \in Point /\ queue' = Enqueue(p)
    BY <1>3, <2>1 DEF OnFix, Point
  <2>3. queue' \in SUBSET Point /\ IsFiniteSet(queue') /\ Cardinality(queue') <= MaxQueued
    BY <1>1, <2>2, EnqueueDropsOldest DEF DeviceTyped
  <2>4. [collector[c] EXCEPT !.last = now + Skew] \in CollectorState
    BY <1>1, <2>1 DEF CollectorState
  <2>5. collector' = [collector EXCEPT ![c] = [collector[c] EXCEPT !.last = now + Skew]]
    BY <1>3 DEF OnFix
  <2>6. DeviceTyped'
    BY <1>1, <1>3, <2>3, <2>4, <2>5 DEF OnFix, DeviceTyped
  <2> QED BY <1>3, <2>6, FlushesStay DEF OnFix, serverVars
<1>4. CASE Stop(c)
  <2> DEFINE stopped(ph) == [collector[c] EXCEPT !.phase = ph]
  <2>1. /\ stopped("stopping") \in CollectorState /\ stopped("clearing") \in CollectorState
        /\ Peeking \in FlushState /\ Peeking.phase = "peek"
    BY <1>1 DEF CollectorState, Peeking, NoFlush, FlushState
  <2>2. /\ \/ collector' = [collector EXCEPT ![c] = stopped("stopping")]
           \/ collector' = [collector EXCEPT ![c] = stopped("clearing")]
        /\ UNCHANGED <<req, queue, received, faults>>
        /\ flush' = [flush EXCEPT ![c] = Peeking] \/ UNCHANGED flush
    BY <1>4 DEF Stop, serverVars
  <2> HIDE DEF stopped
  <2>3. DeviceTyped'
    BY <1>1, <2>1, <2>2 DEF DeviceTyped
  <2> QED BY <2>1, <2>2, <2>3, FlushesStay, FlushGoesOn
<1>5. CASE Clear(c)
  <2>1. [collector[c] EXCEPT !.phase = "stopped"] \in CollectorState
    BY <1>1 DEF CollectorState
  <2>2. /\ queue' \in SUBSET queue
        /\ collector' = [collector EXCEPT ![c] = [collector[c] EXCEPT !.phase = "stopped"]]
        /\ UNCHANGED <<req, flush, received, faults>>
    BY <1>5 DEF Clear, serverVars
  <2>3. queue' \in SUBSET Point /\ IsFiniteSet(queue') /\ Cardinality(queue') <= MaxQueued
    <3>1. IsFiniteSet(queue') /\ Cardinality(queue') <= Cardinality(queue)
      BY <1>1, <2>2, FS_Subset DEF DeviceTyped
    <3>2. Cardinality(queue') \in Nat /\ Cardinality(queue) \in Nat /\ MaxQueued \in Nat
      BY <1>1, <3>1, FS_CardinalityType, QueueAssumption DEF DeviceTyped
    <3> QED BY <1>1, <2>2, <3>1, <3>2 DEF DeviceTyped
  <2>4. DeviceTyped'
    BY <1>1, <2>1, <2>2, <2>3 DEF DeviceTyped
  <2> QED BY <2>2, <2>4, FlushesStay
<1> QED BY <1>2, <1>3, <1>4, <1>5

LEMMA UploadKeepsFlushes ==
  ASSUME QueueInv, NEW c \in Collector, Upload(c)
  PROVE  DeviceTyped' /\ (\A d \in Collector : FlushSound(d)') /\ OwnRequests'
<1>1. PICK r \in Request :
        /\ Receive(r, Peek(BatchSize))
        /\ flush' = [flush EXCEPT ![c] = [phase |-> "sent", batch |-> Peek(BatchSize),
                                          request |-> r]]
  BY DEF Upload
<1> DEFINE f == [phase |-> "sent", batch |-> Peek(BatchSize), request |-> r]
           q == [Idle EXCEPT !.phase = "arrived", !.batch = Peek(BatchSize)]
<1>2. /\ Peek(BatchSize) \in SUBSET Point /\ f \in FlushState /\ f.phase = "sent"
      /\ f.request = r /\ f.batch = Peek(BatchSize)
  BY DEF Peek, QueueInv, DeviceTyped, FlushState
<1>3. /\ req[r].phase = "idle" /\ req' = [req EXCEPT ![r] = q]
      /\ q.phase = "arrived" /\ q.batch = Peek(BatchSize)
      /\ flush' = [flush EXCEPT ![c] = f] /\ UNCHANGED <<queue, collector, received, faults>>
  <2>1. req[r] = Idle /\ req' = [req EXCEPT ![r] = q]
    BY <1>1 DEF Receive, Remember, Goto
  <2>2. Idle.phase = "idle" /\ q.phase = "arrived" /\ q.batch = Peek(BatchSize)
    BY DEF Idle
  <2>3. flush' = [flush EXCEPT ![c] = f] /\ UNCHANGED <<queue, collector, received, faults>>
    BY <1>1 DEF Upload
  <2> QED BY <2>1, <2>2, <2>3
<1> HIDE DEF f, q
<1>4. DeviceTyped'
  BY <1>2, <1>3 DEF QueueInv, DeviceTyped
<1>5. /\ \A d \in Collector : flush'[d] = IF d = c THEN f ELSE flush[d]
      /\ \A o \in Request : req'[o] = IF o = r THEN q ELSE req[o]
  BY <1>3 DEF QueueInv, DeviceTyped, ServerInv, ServerTypeOK
<1>6. \A d \in Collector : flush[d].phase = "sent" => flush[d].request # r
  BY <1>3 DEF QueueInv, FlushSound, Outstanding
<1>7. ASSUME NEW d \in Collector PROVE FlushSound(d)'
  <2>1. CASE d = c
    BY <1>2, <1>3, <1>5, <2>1 DEF FlushSound, Outstanding
  <2>2. CASE d # c
    BY <1>3, <1>5, <1>6, <2>2 DEF FlushSound, Outstanding, QueueInv
  <2> QED BY <2>1, <2>2
<1>8. OwnRequests'
  BY <1>2, <1>5, <1>6 DEF OwnRequests, QueueInv
<1> QED BY <1>4, <1>7, <1>8

LEMMA FlushKeepsFlushes ==
  ASSUME QueueInv, NEW c \in Collector,
         StartFlush(c) \/ PeekEmpty(c) \/ UploadAnswered(c) \/ Remove(c)
  PROVE  DeviceTyped' /\ (\A d \in Collector : FlushSound(d)') /\ OwnRequests'
<1>1. /\ Peeking \in FlushState /\ Peeking.phase = "peek"
      /\ NoFlush \in FlushState /\ NoFlush.phase = "idle"
  BY DEF Peeking, NoFlush, FlushState
<1>2. DeviceTyped /\ flush[c] \in FlushState /\ FlushSound(c)
  BY DEF QueueInv, DeviceTyped
<1>3. CASE StartFlush(c)
  <2>1. /\ flush' = [flush EXCEPT ![c] = Peeking]
        /\ UNCHANGED <<req, queue, collector, received, faults>>
    BY <1>3 DEF StartFlush, serverVars
  <2>2. DeviceTyped'
    BY <1>1, <1>2, <2>1 DEF DeviceTyped
  <2> QED BY <1>1, <2>1, <2>2, FlushGoesOn
<1>4. CASE PeekEmpty(c)
  <2>1. /\ flush' = [flush EXCEPT ![c] = NoFlush]
        /\ UNCHANGED <<req, queue, collector, received, faults>>
    BY <1>4 DEF PeekEmpty, serverVars
  <2>2. DeviceTyped'
    BY <1>1, <1>2, <2>1 DEF DeviceTyped
  <2> QED BY <1>1, <2>1, <2>2, FlushGoesOn
<1>5. CASE Remove(c)
  <2>1. /\ flush' = [flush EXCEPT ![c] = Peeking] /\ queue' \in SUBSET queue
        /\ UNCHANGED <<req, collector, received, faults>>
    BY <1>5 DEF Remove, serverVars
  <2>2. queue' \in SUBSET Point /\ IsFiniteSet(queue') /\ Cardinality(queue') <= MaxQueued
    <3>1. IsFiniteSet(queue') /\ Cardinality(queue') <= Cardinality(queue)
      BY <1>2, <2>1, FS_Subset DEF DeviceTyped
    <3>2. Cardinality(queue') \in Nat /\ Cardinality(queue) \in Nat /\ MaxQueued \in Nat
      BY <1>2, <3>1, FS_CardinalityType, QueueAssumption DEF DeviceTyped
    <3> QED BY <1>2, <2>1, <3>1, <3>2 DEF DeviceTyped
  <2>3. DeviceTyped'
    BY <1>1, <1>2, <2>1, <2>2 DEF DeviceTyped
  <2> QED BY <1>1, <2>1, <2>3, FlushGoesOn
<1>6. CASE UploadAnswered(c)
  <2> DEFINE r == flush[c].request
             f == [flush[c] EXCEPT !.phase = "acked", !.request = NoRequest]
  <2>1. /\ r \in Request /\ flush[c].phase = "sent" /\ OwnRequests
        /\ req' = [req EXCEPT ![r] = Idle]
        /\ req[r].phase = "done" => flush[c].batch \subseteq received
    BY <1>2, <1>6 DEF UploadAnswered, Answered, Remember, Goto, FlushSound, Outstanding, QueueInv
  <2>2. f \in FlushState /\ f.phase = "acked" /\ f.batch = flush[c].batch
    BY <1>2 DEF FlushState
  <2>3. /\ flush' = [flush EXCEPT ![c] = IF req[r].phase = "done" THEN f ELSE NoFlush]
        /\ UNCHANGED <<queue, collector, received, faults>>
    BY <1>6 DEF UploadAnswered
  <2>4. \A d \in Collector \ {c} :
          flush[d].phase = "sent" => req'[flush[d].request] = req[flush[d].request]
    BY <2>1 DEF OwnRequests, QueueInv, ServerInv, ServerTypeOK, FlushSound, Outstanding
  <2> HIDE DEF f, r
  <2>5. DeviceTyped'
    BY <1>1, <1>2, <2>2, <2>3 DEF DeviceTyped
  <2> QED BY <1>1, <2>1, <2>2, <2>3, <2>4, <2>5, FlushGoesOn
<1> QED BY <1>3, <1>4, <1>5, <1>6

LEMMA FaultKeepsFlushes ==
  ASSUME QueueInv, Fault
  PROVE  DeviceTyped' /\ (\A c \in Collector : FlushSound(c)') /\ OwnRequests'
<1>1. DeviceTyped /\ faults' \in 0..MaxFaults /\ UNCHANGED <<queue, received>>
  BY QueueAssumption DEF Fault, LoseConnection, Kill, RequestFails, QueueInv, DeviceTyped
<1>2. NoFlush \in FlushState /\ NoFlush.phase = "idle"
  BY DEF NoFlush, FlushState
<1>3. ASSUME NEW c \in Collector, LoseConnection(c) \/ Kill(c)
      PROVE  DeviceTyped' /\ (\A d \in Collector : FlushSound(d)') /\ OwnRequests'
  <2>1. [collector[c] EXCEPT !.phase = "killed"] \in CollectorState
    BY <1>1 DEF DeviceTyped, CollectorState
  <2>2. /\ flush' = [flush EXCEPT ![c] = NoFlush] /\ UNCHANGED req
        /\ \/ UNCHANGED collector
           \/ collector' = [collector EXCEPT ![c] = [collector[c] EXCEPT !.phase = "killed"]]
    BY <1>3 DEF LoseConnection, Kill, serverVars
  <2>3. DeviceTyped'
    BY <1>1, <1>2, <2>1, <2>2 DEF DeviceTyped
  <2> QED BY <1>1, <1>2, <2>2, <2>3, FlushGoesOn
<1>4. ASSUME NEW r \in Request, RequestFails(r)
      PROVE  DeviceTyped' /\ (\A d \in Collector : FlushSound(d)') /\ OwnRequests'
  <2>1. DeviceTyped'
    BY <1>1, <1>4 DEF RequestFails, DeviceTyped
  <2> QED BY <1>4, <2>1, FailKeepsFlushes
<1> QED BY <1>3, <1>4 DEF Fault

LEMMA QueueInvInductive == QueueInv /\ [Next]_vars => QueueInv'
<1> SUFFICES ASSUME QueueInv, [Next]_vars PROVE QueueInv'
  OBVIOUS
<1>1. ServerInv'
  BY ServerSteps, ServerInvInductive DEF QueueInv
<1>2. DeviceTyped' /\ (\A c \in Collector : FlushSound(c)') /\ OwnRequests'
  <2>1. CASE UNCHANGED vars
    BY <2>1, FlushesStay DEF vars, serverVars, deviceVars, QueueInv, DeviceTyped
  <2>2. CASE Next
    BY <2>2, ShiftKeepsFlushes, ServeKeepsFlushes, CollectorKeepsFlushes,
       UploadKeepsFlushes, FlushKeepsFlushes, FaultKeepsFlushes DEF Next, FlushStep
  <2> QED BY <2>1, <2>2
<1> QED BY <1>1, <1>2 DEF QueueInv

---------------------------------------------------------------------------
(* Theorems.                                                                 *)

LEMMA QueueInvariant == Spec => []QueueInv
<1> QED BY InitQueueInv, QueueInvInductive, PTL DEF Spec

(* The device and its server keep their types; the queue never exceeds its cap.   *)
THEOREM QueueTyped == Spec => []TypeOK
<1>1. QueueInv => TypeOK
  BY DEF QueueInv, ServerInv, DeviceTyped, TypeOK
<1> QED BY <1>1, QueueInvariant, PTL

(* What the devices do, and every fault, is among what the server's specification   *)
(* allows: TrackingSessions is implemented.                                    *)
THEOREM ServerImplemented == Spec => ServerSpec
<1>1. Init => ServerInit
  BY DEF Init
<1>2. QueueInv /\ [Next]_vars => [ServerNext]_serverVars
  BY ServerSteps
<1> QED BY <1>1, <1>2, QueueInvariant, PTL DEF Spec, ServerSpec

(* A point leaves the durable queue only accepted by the server, cleared by the     *)
(* stop of its session's collector, or pushed out of a full queue by newer ones:     *)
(* lost answers, killed tabs and other collectors remove nothing.                *)
THEOREM NothingLostSilently == Spec => AcknowledgedOnly
<1> DEFINE Stated(p) ==
      \/ p \in received
      \/ \E c \in Collector : Clear(c) /\ collector[p.by].session = collector[c].session
      \/ Cardinality(queue') = MaxQueued /\ \A x \in queue' : Older(p, x)
<1>1. ASSUME QueueInv, Next, NEW p \in queue \ queue' PROVE Stated(p)
  <2>1. ASSUME NEW c \in Collector, OnFix(c) PROVE Stated(p)
    <3>1. [by |-> c, at |-> now + Skew] \in Point
      BY <1>1, TrackingAssumption DEF Point, QueueInv, ServerInv, ServerTypeOK, Time, Stamp
    <3>2. queue' = Enqueue([by |-> c, at |-> now + Skew])
      BY <2>1 DEF OnFix
    <3> QED BY <1>1, <3>1, <3>2, EnqueueDropsOldest DEF QueueInv, DeviceTyped
  <2>2. ASSUME NEW c \in Collector, Clear(c) PROVE Stated(p)
    BY <1>1, <2>2 DEF Clear
  <2>3. ASSUME NEW c \in Collector, Remove(c) PROVE Stated(p)
    BY <1>1, <2>3 DEF Remove, QueueInv, FlushSound
  <2>4. ASSUME queue' = queue PROVE Stated(p)
    BY <1>1, <2>4
  <2> HIDE DEF Stated
  <2>5. CASE Shift
    BY <2>4, <2>5 DEF Shift, deviceVars
  <2>6. CASE \E r \in Request : ServerStep(r)
    BY <2>4, <2>6 DEF ServerStep, deviceVars
  <2>7. ASSUME NEW c \in Collector, Create(c) \/ Stop(c) \/ StartFlush(c) PROVE Stated(p)
    BY <2>4, <2>7 DEF Create, Stop, StartFlush
  <2>8. ASSUME NEW c \in Collector, PeekEmpty(c) \/ Upload(c) \/ UploadAnswered(c)
        PROVE Stated(p)
    BY <2>4, <2>8 DEF PeekEmpty, Upload, UploadAnswered
  <2>9. CASE Fault
    BY <2>4, <2>9 DEF Fault, LoseConnection, Kill, RequestFails
  <2> QED BY <1>1, <2>1, <2>2, <2>3, <2>5, <2>6, <2>7, <2>8, <2>9 DEF Next, FlushStep
<1> HIDE DEF Stated
<1>2. QueueInv /\ [Next]_vars =>
        [\A p \in queue \ queue' :
           \/ p \in received
           \/ \E c \in Collector : /\ Clear(c)
                                   /\ collector[p.by].session = collector[c].session
           \/ Cardinality(queue') = MaxQueued /\ \A x \in queue' : Older(p, x)]_vars
  BY <1>1 DEF Stated
<1> QED BY <1>2, QueueInvariant, PTL DEF Spec, AcknowledgedOnly

(* The server's guarantees hold for whatever the devices do.                      *)
THEOREM UploadsAreGenuine == Spec => [](NeverFabricated /\ MeasuredIsStored)
BY ServerImplemented, NothingFabricated, TotalsAreStored, PTL

(* A fix is stored once, where devices' clocks are right, in spite of retries of     *)
(* lost answers and of two collectors that upload the same points.               *)
THEOREM UploadsStoredOnce ==
  ASSUME Skew = 0
  PROVE  Spec => []StoredOnce
BY ServerImplemented, FixesStoredOnce, PTL
=============================================================================
