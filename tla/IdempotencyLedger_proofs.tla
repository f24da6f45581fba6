---------------------- MODULE IdempotencyLedger_proofs ----------------------
(***************************************************************************)
(* Theorems about IdempotencyLedger, for every set of keys, bodies and       *)
(* requests and every number of commands.                                   *)
(***************************************************************************)
EXTENDS IdempotencyLedger, TLAPS

(* A request that left idle serves one key with one body; once its command    *)
(* has committed it carries that command's response.                         *)
RequestsSound ==
  \A r \in Request :
    /\ req[r].phase # "idle" => req[r].key \in Key /\ req[r].target \in Target
    /\ req[r].phase = "committed" => req[r].response \in 1..MaxRuns

LedgerInv == TypeOK /\ RequestsSound /\ OneOwner

LEMMA IdleTyped == Idle \in RequestState
BY LedgerAssumption DEF Idle, RequestState

LEMMA RowsTyped ==
  /\ NoRow \in Row
  /\ \A row \in Row :
       /\ row.state \in {"NONE", "PENDING", "COMPLETED"}
       /\ row.state = "NONE" <=> row = NoRow
       /\ row.state = "COMPLETED" => row.response \in 1..MaxRuns
       /\ row.state # "NONE" => row.requestHash \in Target
BY DEF Row, NoRow, Pending, Completed

LEMMA InitLedgerInv == Init => LedgerInv
<1> SUFFICES ASSUME Init PROVE LedgerInv
  OBVIOUS
<1>1. TypeOK
  BY IdleTyped, RowsTyped, LedgerAssumption DEF Init, TypeOK
<1>2. RequestsSound /\ OneOwner
  BY DEF Init, RequestsSound, OneOwner, Owns, Idle
<1> QED BY <1>1, <1>2 DEF LedgerInv

---------------------------------------------------------------------------
(* One lemma per action.                                                     *)

LEMMA LookupStep ==
  ASSUME LedgerInv, NEW r \in Request, NEW k \in Key, NEW t \in Target, Lookup(r, k, t)
  PROVE  LedgerInv'
<1> DEFINE q == [Idle EXCEPT !.phase = "claiming", !.key = k, !.target = t]
<1>1. q \in RequestState /\ q.phase = "claiming" /\ q.key = k /\ q.target = t
  BY IdleTyped DEF RequestState, Idle
<1>2. req' = [req EXCEPT ![r] = q] /\ UNCHANGED <<ledger, place, serial, ran, answers>>
  BY DEF Lookup, Goto
<1> HIDE DEF q
<1>3. TypeOK'
  BY <1>1, <1>2 DEF LedgerInv, TypeOK
<1>4. RequestsSound'
  BY <1>1, <1>2 DEF LedgerInv, RequestsSound, TypeOK
<1>5. OneOwner'
  BY <1>1, <1>2 DEF LedgerInv, OneOwner, Owns, TypeOK
<1> QED BY <1>3, <1>4, <1>5 DEF LedgerInv

LEMMA ReplayStep ==
  ASSUME LedgerInv, NEW r \in Request, NEW k \in Key, NEW t \in Target, Replay(r, k, t)
  PROVE  LedgerInv'
<1>1. answers' = [answers EXCEPT ![k] = @ \cup {ledger[k].response}]
      /\ UNCHANGED <<ledger, place, serial, ran, req>>
  BY DEF Replay, Answer
<1>2. ledger[k].response \in 1..MaxRuns
  BY RowsTyped DEF Replay, LedgerInv, TypeOK
<1>3. TypeOK'
  BY <1>1, <1>2 DEF LedgerInv, TypeOK
<1>4. RequestsSound' /\ OneOwner'
  BY <1>1 DEF LedgerInv, RequestsSound, OneOwner, Owns
<1> QED BY <1>3, <1>4 DEF LedgerInv

(* A request that gives up owns nothing any more; the others keep what they   *)
(* own as long as their row stays.                                           *)
LEMMA GoIdleStep ==
  ASSUME LedgerInv, NEW r \in Request, Goto(r, Idle),
         ledger' \in [Key -> Row], answers' \in [Key -> SUBSET (1..MaxRuns)],
         UNCHANGED <<place, serial, ran>>,
         \A k \in Key : ledger'[k] # ledger[k] => Owns(r, k)
  PROVE  LedgerInv'
<1>1. req' = [req EXCEPT ![r] = Idle] /\ req \in [Request -> RequestState]
  BY DEF Goto, LedgerInv, TypeOK
<1>2. TypeOK'
  BY <1>1, IdleTyped DEF LedgerInv, TypeOK
<1>3. RequestsSound'
  BY <1>1 DEF LedgerInv, RequestsSound, Idle
<1>4. OneOwner'
  <2> SUFFICES ASSUME NEW o \in Request, NEW k \in Key, Owns(o, k)'
               PROVE  /\ ledger'[k].state = "PENDING"
                      /\ ledger'[k].requestHash = req'[o].target
                      /\ \A p \in Request : Owns(p, k)' => p = o
    BY DEF OneOwner
  <2>1. o # r /\ req'[o] = req[o]
    BY <1>1 DEF Owns, Idle
  <2>2. Owns(o, k)
    BY <2>1 DEF Owns
  <2>3. ledger'[k] = ledger[k]
    BY <2>1, <2>2 DEF LedgerInv, OneOwner
  <2>4. ASSUME NEW p \in Request, Owns(p, k)' PROVE p = o
    <3>1. p # r /\ req'[p] = req[p]
      BY <2>4, <1>1 DEF Owns, Idle
    <3>2. Owns(p, k)
      BY <2>4, <3>1 DEF Owns
    <3> QED BY <3>2, <2>2 DEF LedgerInv, OneOwner
  <2> QED BY <2>1, <2>2, <2>3, <2>4 DEF LedgerInv, OneOwner
<1> QED BY <1>2, <1>3, <1>4 DEF LedgerInv

(* A request that goes on with the key it owns, leaving the ledger alone.     *)
LEMMA GoOnStep ==
  ASSUME LedgerInv, NEW r \in Request, NEW q \in RequestState, Goto(r, q),
         Owns(r, req[r].key), q.key = req[r].key, q.target = req[r].target,
         q.phase \in {"committed", "throwing"},
         q.phase = "committed" => q.response \in 1..MaxRuns,
         place' \in Target, serial' \in 0..MaxRuns, ran' \in [Key -> SUBSET (1..MaxRuns)],
         UNCHANGED <<ledger, answers>>
  PROVE  LedgerInv'
<1>1. req' = [req EXCEPT ![r] = q] /\ req \in [Request -> RequestState]
  BY DEF Goto, LedgerInv, TypeOK
<1>2. TypeOK'
  BY <1>1 DEF LedgerInv, TypeOK
<1>3. req[r].key \in Key /\ req[r].target \in Target
  BY DEF LedgerInv, RequestsSound, Owns
<1>4. RequestsSound'
  BY <1>1, <1>3 DEF LedgerInv, RequestsSound
<1>5. \A o \in Request, k \in Key : Owns(o, k)' => Owns(o, k)
  BY <1>1 DEF Owns
<1>6. \A o \in Request : req'[o].target = req[o].target
  BY <1>1
<1>7. OneOwner'
  BY <1>5, <1>6 DEF LedgerInv, OneOwner
<1> QED BY <1>2, <1>4, <1>7 DEF LedgerInv

LEMMA ClaimStep ==
  ASSUME LedgerInv, NEW r \in Request, Claim(r)
  PROVE  LedgerInv'
<1> DEFINE k == req[r].key
           row == Pending(req[r].target)
           q == [req[r] EXCEPT !.phase = "running"]
<1>1. k \in Key /\ req[r].target \in Target /\ req[r].phase = "claiming"
  BY DEF Claim, LedgerInv, RequestsSound
<1>2. row \in Row /\ row.state = "PENDING" /\ row.requestHash = req[r].target
  BY <1>1 DEF Row, Pending
<1>3. CASE ledger[k] # NoRow
  <2>1. Goto(r, Idle) /\ UNCHANGED <<ledger, place, serial, ran, answers>>
    BY <1>3 DEF Claim
  <2> QED BY <2>1, GoIdleStep DEF LedgerInv, TypeOK
<1>4. CASE ledger[k] = NoRow
  <2>1. /\ ledger' = [ledger EXCEPT ![k] = row]
        /\ req' = [req EXCEPT ![r] = q]
        /\ UNCHANGED <<place, serial, ran, answers>>
    BY <1>4 DEF Claim, Goto
  <2>2. q \in RequestState /\ q.phase = "running" /\ q.key = k /\ q.target = req[r].target
    BY DEF LedgerInv, TypeOK, RequestState
  <2>3. \A o \in Request : ~Owns(o, k)
    BY <1>1, <1>4, RowsTyped DEF LedgerInv, OneOwner, NoRow
  <2> HIDE DEF k, row, q
  <2>4. TypeOK'
    BY <2>1, <2>2, <1>2 DEF LedgerInv, TypeOK
  <2>5. RequestsSound'
    BY <2>1, <2>2, <1>1 DEF LedgerInv, RequestsSound, TypeOK
  <2>6. OneOwner'
    <3> SUFFICES ASSUME NEW o \in Request, NEW j \in Key, Owns(o, j)'
                 PROVE  /\ ledger'[j].state = "PENDING"
                        /\ ledger'[j].requestHash = req'[o].target
                        /\ \A p \in Request : Owns(p, j)' => p = o
      BY DEF OneOwner
    <3>1. \A p \in Request \ {r} : req'[p] = req[p]
      BY <2>1 DEF LedgerInv, TypeOK
    <3>2. req'[r] = q
      BY <2>1 DEF LedgerInv, TypeOK
    <3>3. CASE o = r
      <4>1. j = k
        BY <3>2, <3>3, <2>2 DEF Owns
      <4>2. ledger'[j] = row
        BY <4>1, <2>1, <1>1 DEF LedgerInv, TypeOK
      <4>3. \A p \in Request : Owns(p, j)' => p = o
        BY <3>1, <3>3, <2>3, <4>1 DEF Owns
      <4> QED BY <4>2, <4>3, <1>2, <3>2, <3>3, <2>2
    <3>4. CASE o # r
      <4>1. Owns(o, j) /\ req'[o] = req[o]
        BY <3>1, <3>4 DEF Owns
      <4>2. j # k
        BY <4>1, <2>3
      <4>3. ledger'[j] = ledger[j]
        BY <4>2, <2>1 DEF LedgerInv, TypeOK
      <4>4. ASSUME NEW p \in Request, Owns(p, j)' PROVE p = o
        <5>1. p # r
          BY <4>4, <4>2, <3>2, <2>2 DEF Owns
        <5>2. Owns(p, j)
          BY <4>4, <5>1, <3>1 DEF Owns
        <5> QED BY <5>2, <4>1 DEF LedgerInv, OneOwner
      <4> QED BY <4>1, <4>3, <4>4 DEF LedgerInv, OneOwner
    <3> QED BY <3>3, <3>4
  <2> QED BY <2>4, <2>5, <2>6 DEF LedgerInv
<1> QED BY <1>3, <1>4

LEMMA CommitStep ==
  ASSUME LedgerInv, NEW r \in Request, Commit(r)
  PROVE  LedgerInv'
<1> DEFINE q == [req[r] EXCEPT !.phase = "committed", !.response = serial + 1]
<1> DEFINE v == serial + 1
<1>1. v \in 1..MaxRuns /\ v \in 0..MaxRuns
  BY LedgerAssumption DEF Commit, LedgerInv, TypeOK
<1>a. /\ req[r] \in RequestState
      /\ q = [req[r] EXCEPT !.phase = "committed", !.response = v]
      /\ ran' = [ran EXCEPT ![req[r].key] = @ \cup {v}]
      /\ place' = req[r].target /\ serial' = v
      /\ ran \in [Key -> SUBSET (1..MaxRuns)]
  BY DEF Commit, LedgerInv, TypeOK
<1>2. /\ q \in RequestState
      /\ q.key = req[r].key /\ q.target = req[r].target
      /\ q.phase = "committed" /\ q.response \in 1..MaxRuns
  <2> HIDE DEF v, q
  <2> QED BY <1>1, <1>a DEF RequestState
<1>3. Owns(r, req[r].key) /\ Goto(r, q) /\ UNCHANGED <<ledger, answers>>
  BY DEF Commit, Owns
<1>4. req[r].target \in Target
  BY DEF Commit, LedgerInv, RequestsSound
<1>5. place' \in Target /\ serial' \in 0..MaxRuns /\ ran' \in [Key -> SUBSET (1..MaxRuns)]
  <2> HIDE DEF v, q
  <2> QED BY <1>1, <1>4, <1>a
<1> HIDE DEF q
<1> QED BY <1>2, <1>3, <1>5, GoOnStep

LEMMA ThrowStep ==
  ASSUME LedgerInv, NEW r \in Request, Refuse(r) \/ Fail(r)
  PROVE  LedgerInv'
<1>1. PICK e \in {"refused", "failed"} :
        Goto(r, [req[r] EXCEPT !.phase = "throwing", !.error = e])
  BY DEF Refuse, Fail
<1> DEFINE q == [req[r] EXCEPT !.phase = "throwing", !.error = e]
<1>2. /\ q \in RequestState
      /\ q.key = req[r].key /\ q.target = req[r].target /\ q.phase = "throwing"
  BY DEF LedgerInv, TypeOK, RequestState
<1>3. Owns(r, req[r].key) /\ UNCHANGED <<ledger, place, serial, ran, answers>>
  BY DEF Refuse, Fail, Owns
<1>4. Goto(r, q)
  BY <1>1
<1> HIDE DEF q
<1> QED BY <1>2, <1>3, <1>4, GoOnStep DEF LedgerInv, TypeOK

(* What the last two steps of a request find and leave in its row.            *)
LEMMA CompleteRow ==
  ASSUME LedgerInv, NEW r \in Request, Complete(r)
  PROVE  /\ req[r].key \in Key /\ Owns(r, req[r].key)
         /\ ledger[req[r].key].state = "PENDING"
         /\ req[r].response \in 1..MaxRuns
         /\ ledger' = [ledger EXCEPT ![req[r].key] =
              Completed(req[r].target, req[r].response)]
<1> DEFINE k == req[r].key
<1>1. k \in Key /\ Owns(r, k) /\ req[r].response \in 1..MaxRuns
  BY DEF Complete, LedgerInv, RequestsSound, Owns
<1>2. ledger[k].state = "PENDING" /\ ledger[k].requestHash = req[r].target
  BY <1>1 DEF LedgerInv, OneOwner
<1>3. ledger[k] # NoRow /\ ledger[k] \in Row
  BY <1>1, <1>2 DEF NoRow, LedgerInv, TypeOK
<1> QED BY <1>1, <1>2, <1>3 DEF Complete

LEMMA CompleteStep ==
  ASSUME LedgerInv, NEW r \in Request, Complete(r)
  PROVE  LedgerInv'
<1> DEFINE k == req[r].key
           row == Completed(req[r].target, req[r].response)
<1>1. k \in Key /\ Owns(r, k) /\ req[r].response \in 1..MaxRuns
  BY CompleteRow
<1>2. ledger' = [ledger EXCEPT ![k] = row]
  BY CompleteRow
<1>3. row \in Row
  BY <1>1 DEF Row, Owns, LedgerInv, RequestsSound
<1>4. /\ Goto(r, Idle)
      /\ answers' = [answers EXCEPT ![k] = @ \cup {req[r].response}]
      /\ UNCHANGED <<place, serial, ran>>
  BY DEF Complete, Answer
<1> HIDE DEF row
<1>5. ledger' \in [Key -> Row] /\ answers' \in [Key -> SUBSET (1..MaxRuns)]
  BY <1>1, <1>2, <1>3, <1>4 DEF LedgerInv, TypeOK
<1>6. \A j \in Key : ledger'[j] # ledger[j] => Owns(r, j)
  BY <1>1, <1>2 DEF LedgerInv, TypeOK
<1> QED BY <1>4, <1>5, <1>6, GoIdleStep

LEMMA ReleaseStep ==
  ASSUME LedgerInv, NEW r \in Request, Release(r)
  PROVE  LedgerInv'
<1>1. req[r].key \in Key /\ Owns(r, req[r].key)
  BY DEF Release, LedgerInv, RequestsSound, Owns
<1>2. ledger' \in [Key -> Row] /\ \A j \in Key : ledger'[j] # ledger[j] => j = req[r].key
  BY <1>1, RowsTyped DEF Release, LedgerInv, TypeOK
<1>3. Goto(r, Idle) /\ UNCHANGED <<place, serial, ran, answers>>
  BY DEF Release
<1> QED BY <1>1, <1>2, <1>3, GoIdleStep DEF LedgerInv, TypeOK

LEMMA CrashStep ==
  ASSUME LedgerInv, NEW r \in Request, Crash(r)
  PROVE  LedgerInv'
BY GoIdleStep DEF Crash, LedgerInv, TypeOK

LEMMA LedgerInvStep == LedgerInv /\ [Next]_vars => LedgerInv'
<1> SUFFICES ASSUME LedgerInv, [Next]_vars PROVE LedgerInv'
  OBVIOUS
<1>1. CASE UNCHANGED vars
  BY <1>1 DEF vars, LedgerInv, TypeOK, RequestsSound, OneOwner, Owns
<1>2. ASSUME NEW r \in Request, Receive(r) PROVE LedgerInv'
  BY <1>2, ReplayStep, LookupStep DEF Receive
<1>3. ASSUME NEW r \in Request, Serve(r) PROVE LedgerInv'
  BY <1>3, ClaimStep, CommitStep, ThrowStep, CompleteStep, ReleaseStep DEF Serve
<1> QED BY <1>1, <1>2, <1>3, CrashStep DEF Next
---------------------------------------------------------------------------
(* The theorems.                                                             *)

LEMMA LedgerInvariant == Spec => []LedgerInv
BY InitLedgerInv, LedgerInvStep, PTL DEF Spec

(* Type correctness: among the rest, a row is pending without a response or    *)
(* completed with one.                                                       *)
THEOREM LedgerTyped == Spec => []TypeOK
<1>1. LedgerInv => TypeOK
  BY DEF LedgerInv
<1> QED BY LedgerInvariant, <1>1, PTL

(* The claim is a lock, though its look-up and its insert are two statements    *)
(* and its release is a third: two requests never execute the same key.         *)
THEOREM ClaimIsExclusive == Spec => []OneOwner
<1>1. LedgerInv => OneOwner
  BY DEF LedgerInv
<1> QED BY LedgerInvariant, <1>1, PTL

LEMMA CompletedKept ==
  ASSUME LedgerInv, [Next]_vars, NEW k \in Key, ledger[k].state = "COMPLETED"
  PROVE  ledger'[k] = ledger[k] /\ ran'[k] = ran[k]
<1>0. ledger \in [Key -> Row] /\ \A r \in Request : ~Owns(r, k)
  BY DEF LedgerInv, OneOwner, TypeOK
<1>1. CASE UNCHANGED vars
  BY <1>1 DEF vars
<1>2. ASSUME NEW r \in Request, Receive(r) \/ Refuse(r) \/ Fail(r) \/ Crash(r)
      PROVE  ledger' = ledger /\ ran' = ran
  BY <1>2 DEF Receive, Replay, Lookup, Refuse, Fail, Crash
<1>3. ASSUME NEW r \in Request, Claim(r) PROVE ledger'[k] = ledger[k] /\ ran' = ran
  BY <1>3, <1>0 DEF Claim, NoRow
<1>4. ASSUME NEW r \in Request, Commit(r) PROVE ledger' = ledger /\ ran'[k] = ran[k]
  <2>1. req[r].key # k
    BY <1>4, <1>0 DEF Commit, Owns
  <2> QED BY <1>4, <2>1 DEF Commit, LedgerInv, TypeOK
<1>5. ASSUME NEW r \in Request, Complete(r) \/ Release(r)
      PROVE  ledger'[k] = ledger[k] /\ ran' = ran
  <2>1. req[r].key # k
    BY <1>5, <1>0 DEF Complete, Release, Owns
  <2> QED BY <1>5, <2>1, <1>0 DEF Complete, Release
<1> QED BY <1>1, <1>2, <1>3, <1>4, <1>5 DEF Next, Serve

(* Nothing still in flight for a completed key (a late insert, commit,          *)
(* completion or release) touches it: its command does not run again and its    *)
(* stored response stays.                                                    *)
THEOREM CompletionIsFinal == Spec => CompletedNeverRunsAgain
<1>1. LedgerInv /\ [Next]_vars =>
        [\A k \in Key : ledger[k].state = "COMPLETED" =>
           ledger'[k] = ledger[k] /\ ran'[k] = ran[k]]_vars
  BY CompletedKept
<1> QED BY LedgerInvariant, <1>1, PTL DEF Spec, CompletedNeverRunsAgain
---------------------------------------------------------------------------
(* The refinement.                                                           *)

Settled == [k \in Key |-> IF ledger[k].state = "COMPLETED" THEN ledger[k].response ELSE 0]

LEMMA AnswersInit == Init => Once!Init
BY DEF Init, Once!Init, NoRow, Once!Unsettled

LEMMA AnswersStep ==
  ASSUME LedgerInv, [Next]_vars
  PROVE  [Once!Next]_<<Settled, answers>>
<1>0. ledger \in [Key -> Row]
  BY DEF LedgerInv, TypeOK
<1>1. CASE UNCHANGED vars
  BY <1>1 DEF vars, Settled
<1>2. ASSUME NEW r \in Request, NEW k \in Key, NEW t \in Target, Replay(r, k, t)
      PROVE  Once!Replay(k)
  <2>1. Settled[k] = ledger[k].response /\ ledger[k].response \in 1..MaxRuns
    BY <1>2, <1>0, RowsTyped DEF Replay, Settled
  <2>2. Settled' = Settled /\ answers' = [answers EXCEPT ![k] = @ \cup {ledger[k].response}]
    BY <1>2 DEF Replay, Answer, Settled
  <2>3. Settled[k] # 0
    BY <2>1, LedgerAssumption
  <2>4. answers' = [answers EXCEPT ![k] = @ \cup {Settled[k]}]
    BY <2>1, <2>2
  <2> QED BY <2>2, <2>3, <2>4 DEF Once!Replay, Once!Unsettled, Settled
<1>3. ASSUME NEW r \in Request, Complete(r)
      PROVE  \E k \in Key, v \in Once!Response : Once!Settle(k, v)
  <2>0. PICK k, v : k = req[r].key /\ v = req[r].response
    OBVIOUS
  <2>1. k \in Key /\ ledger[k].state = "PENDING" /\ v \in 1..MaxRuns
    BY <1>3, <2>0, CompleteRow
  <2>2. ledger' = [ledger EXCEPT ![k] = Completed(req[r].target, v)]
    BY <1>3, <2>0, CompleteRow
  <2>3. answers' = [answers EXCEPT ![k] = @ \cup {v}]
    BY <1>3, <2>0 DEF Complete, Answer
  <2>4. Settled[k] = 0
    BY <2>1 DEF Settled
  <2>5. Settled' = [Settled EXCEPT ![k] = v]
    BY <2>1, <2>2, <1>0 DEF Settled, Completed
  <2>6. Once!Settle(k, v)
    BY <2>3, <2>4, <2>5 DEF Once!Settle, Once!Unsettled, Settled
  <2>7. v \in Once!Response
    BY <2>1 DEF Once!Response
  <2> QED BY <2>1, <2>6, <2>7
<1>4. ASSUME NEW r \in Request, NEW k \in Key, NEW t \in Target, Lookup(r, k, t)
      PROVE  UNCHANGED <<Settled, answers>>
  BY <1>4 DEF Lookup, Settled
<1>5. ASSUME NEW r \in Request, Commit(r) \/ Refuse(r) \/ Fail(r) \/ Crash(r)
      PROVE  UNCHANGED <<Settled, answers>>
  BY <1>5 DEF Commit, Refuse, Fail, Crash, Settled
<1>6. ASSUME NEW r \in Request, Claim(r)
      PROVE  UNCHANGED <<Settled, answers>>
  <2>1. \A k \in Key : (ledger[k].state = "COMPLETED" \/ ledger'[k].state = "COMPLETED")
                         => ledger'[k] = ledger[k]
    BY <1>6, <1>0 DEF Claim, NoRow, Pending
  <2> QED BY <2>1, <1>6 DEF Settled, Claim
<1>7. ASSUME NEW r \in Request, Release(r)
      PROVE  UNCHANGED <<Settled, answers>>
  <2>1. \A k \in Key : (ledger[k].state = "COMPLETED" \/ ledger'[k].state = "COMPLETED")
                         => ledger'[k] = ledger[k]
    BY <1>7, <1>0 DEF Release, NoRow
  <2> QED BY <2>1, <1>7 DEF Settled, Release
<1>8. CASE \E r \in Request : Receive(r)
  BY <1>8, <1>2, <1>4 DEF Receive, Once!Next
<1>9. CASE \E r \in Request : Serve(r) \/ Crash(r)
  <2>1. PICK r \in Request : Serve(r) \/ Crash(r)
    BY <1>9
  <2>2. CASE Complete(r)
    BY <2>2, <1>3 DEF Once!Next
  <2>3. CASE ~Complete(r)
    BY <2>1, <2>3, <1>5, <1>6, <1>7 DEF Serve
  <2> QED BY <2>2, <2>3
<1> QED BY <1>1, <1>8, <1>9 DEF Next

(* The ledger implements AnswerOnce: whatever is retried, doubled, lost or       *)
(* crashed, every success a device is given for a key is the same answer.       *)
THEOREM LedgerAnswersOnce == Spec => AnswersOnce
<1>1. LedgerInv /\ [Next]_vars => [Once!Next]_<<Settled, answers>>
  BY AnswersStep
<1> QED BY LedgerInvariant, AnswersInit, <1>1, PTL
        DEF Spec, AnswersOnce, Once!Spec, Settled
=============================================================================
