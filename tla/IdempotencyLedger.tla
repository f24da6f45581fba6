------------------------- MODULE IdempotencyLedger -------------------------
(***************************************************************************)
(* The idempotency ledger and the wrapper every portal command runs under.   *)
(* The read of a key, its claim, the command's own transaction, what the     *)
(* route does after that transaction, and the completion or release of the    *)
(* claim are separate statements: requests interleave between any two.        *)
(*                                                                         *)
(* Abstractions.  A Key is (organization, actorType, actorId,                *)
(* clientActionId).  The command is a position change, which the domain       *)
(* refuses when the worker already stands there; the target is the body, and  *)
(* its hash, taken to be injective.  A response is the id of the session the  *)
(* command opened.  A device may send any key at any time, which covers lost  *)
(* replies, retries and double taps.  The 409s of claim change nothing.       *)
(***************************************************************************)
EXTENDS Naturals

CONSTANTS
  Key, Target, Request,
  NoKey, NoTarget,    \* sentinels
  MaxRuns             \* bound on the commands ever committed

ASSUME LedgerAssumption ==
  NoKey \notin Key /\ NoTarget \notin Target /\ MaxRuns \in Nat

VARIABLES
  ledger,    \* idempotency_keys
  place,     \* the position the worker stands at
  serial,    \* commands committed so far
  ran,       \* what each key's command has committed
  answers,   \* the successes given for each key
  req        \* the requests being served

vars == <<ledger, place, serial, ran, answers, req>>

NoRow == [state |-> "NONE", requestHash |-> NoTarget, response |-> 0]
Pending(hash) == [state |-> "PENDING", requestHash |-> hash, response |-> 0]
Completed(hash, response) ==
  [state |-> "COMPLETED", requestHash |-> hash, response |-> response]
Row == {NoRow} \cup {Pending(t) : t \in Target}
               \cup {Completed(t, v) : t \in Target, v \in 1..MaxRuns}

RequestState ==
  [phase: {"idle", "claiming", "running", "committed", "throwing"},
   key: Key \cup {NoKey}, target: Target \cup {NoTarget}, response: 0..MaxRuns,
   error: {"none", "refused", "failed"}]
Idle == [phase |-> "idle", key |-> NoKey, target |-> NoTarget, response |-> 0,
         error |-> "none"]

TypeOK ==
  /\ ledger \in [Key -> Row]
  /\ place \in Target
  /\ serial \in 0..MaxRuns
  /\ ran \in [Key -> SUBSET (1..MaxRuns)]
  /\ answers \in [Key -> SUBSET (1..MaxRuns)]
  /\ req \in [Request -> RequestState]

Init ==
  /\ ledger = [k \in Key |-> NoRow]
  /\ place \in Target
  /\ serial = 0
  /\ ran = [k \in Key |-> {}]
  /\ answers = [k \in Key |-> {}]
  /\ req = [r \in Request |-> Idle]
---------------------------------------------------------------------------
Goto(r, q) == req' = [req EXCEPT ![r] = q]
Answer(k, response) == answers' = [answers EXCEPT ![k] = @ \cup {response}]

MutReplayUnchecked(r, k, t) ==
  /\ req[r] = Idle
  /\ ledger[k].state # "NONE"
  /\ Answer(k, ledger[k].response)
  /\ UNCHANGED <<ledger, place, serial, ran, req>>

(* claim: the stored response of a finished action, if the body is the same.   *)
Replay(r, k, t) ==
  /\ req[r] = Idle
  /\ ledger[k].state = "COMPLETED"
  /\ ledger[k].requestHash = t
  /\ Answer(k, ledger[k].response)
  /\ UNCHANGED <<ledger, place, serial, ran, req>>

(* claim: findUnique found no row.                                           *)
Lookup(r, k, t) ==
  /\ req[r] = Idle
  /\ ledger[k] = NoRow
  /\ Goto(r, [Idle EXCEPT !.phase = "claiming", !.key = k, !.target = t])
  /\ UNCHANGED <<ledger, place, serial, ran, answers>>

MutUpsertClaim(r) ==
  LET q == req[r] IN
  /\ q.phase = "claiming"
  /\ ledger' = [ledger EXCEPT ![q.key] = Pending(q.target)]
  /\ Goto(r, [q EXCEPT !.phase = "running"])
  /\ UNCHANGED <<place, serial, ran, answers>>

(* claim: the insert, which the unique index lets one request make.           *)
Claim(r) ==
  LET q == req[r] IN
  /\ q.phase = "claiming"
  /\ \/ /\ ledger[q.key] = NoRow
        /\ ledger' = [ledger EXCEPT ![q.key] = Pending(q.target)]
        /\ Goto(r, [q EXCEPT !.phase = "running"])
     \/ /\ ledger[q.key] # NoRow
        /\ Goto(r, Idle)
        /\ UNCHANGED ledger
  /\ UNCHANGED <<place, serial, ran, answers>>

(* The command's transaction.                                                *)
Commit(r) ==
  LET q == req[r] IN
  /\ q.phase = "running"
  /\ place # q.target
  /\ serial < MaxRuns
  /\ place' = q.target
  /\ serial' = serial + 1
  /\ ran' = [ran EXCEPT ![q.key] = @ \cup {serial + 1}]
  /\ Goto(r, [q EXCEPT !.phase = "committed", !.response = serial + 1])
  /\ UNCHANGED <<ledger, answers>>

Refuse(r) ==
  LET q == req[r] IN
  /\ q.phase = "running"
  /\ place = q.target
  /\ Goto(r, [q EXCEPT !.phase = "throwing", !.error = "refused"])
  /\ UNCHANGED <<ledger, place, serial, ran, answers>>

(* Anything else that throws: before the command's commit, or after it in the  *)
(* tracking session, the driving context or the completion of the claim.       *)
Fail(r) ==
  LET q == req[r] IN
  /\ q.phase \in {"running", "committed"}
  /\ Goto(r, [q EXCEPT !.phase = "throwing", !.error = "failed"])
  /\ UNCHANGED <<ledger, place, serial, ran, answers>>

Complete(r) ==
  LET q == req[r] IN
  /\ q.phase = "committed"
  /\ ledger' = [ledger EXCEPT ![q.key] = IF @ = NoRow THEN @ ELSE
                  Completed(@.requestHash, q.response)]
  /\ Answer(q.key, q.response)
  /\ Goto(r, Idle)
  /\ UNCHANGED <<place, serial, ran>>

MutNoRelease(r) ==
  /\ req[r].phase = "throwing"
  /\ FALSE
  /\ UNCHANGED vars

(* release deletes the row only while it is PENDING.                          *)
Release(r) ==
  LET q == req[r] IN
  /\ q.phase = "throwing"
  /\ ledger' = [ledger EXCEPT ![q.key] = IF @.state = "PENDING" THEN NoRow ELSE @]
  /\ Goto(r, Idle)
  /\ UNCHANGED <<place, serial, ran, answers>>

(* The API process stops, or the release itself fails.                        *)
Crash(r) ==
  /\ req[r] # Idle
  /\ Goto(r, Idle)
  /\ UNCHANGED <<ledger, place, serial, ran, answers>>

(* A device sends the key of an action, with the body it has for it.           *)
Receive(r) == \E k \in Key, t \in Target : Replay(r, k, t) \/ Lookup(r, k, t)

Serve(r) == Claim(r) \/ Commit(r) \/ Refuse(r) \/ Fail(r) \/ Complete(r) \/ Release(r)

Next == \E r \in Request : Receive(r) \/ Serve(r) \/ Crash(r)

(* A request that has been taken up is served to its end, unless it crashes.   *)
Fairness == \A r \in Request : WF_vars(Serve(r))

Spec == Init /\ [][Next]_vars
FairSpec == Spec /\ Fairness
---------------------------------------------------------------------------
(* Properties.                                                               *)

Owns(r, k) == req[r].key = k /\ req[r].phase \in {"running", "committed", "throwing"}

(* A key is being executed by one request at most, and only while its claim is  *)
(* pending with the body that request was sent with.                          *)
OneOwner ==
  \A r \in Request, k \in Key : Owns(r, k) =>
    /\ ledger[k].state = "PENDING" /\ ledger[k].requestHash = req[r].target
    /\ \A o \in Request : Owns(o, k) => o = r

(* Once an action has completed, its command never commits again and its        *)
(* stored response never changes, whatever is still in flight for its key.      *)
CompletedNeverRunsAgain ==
  [][\A k \in Key : ledger[k].state = "COMPLETED" =>
       ledger'[k] = ledger[k] /\ ran'[k] = ran[k]]_vars

(* The ledger implements the promise of AnswerOnce.                           *)
Once == INSTANCE AnswerOnce WITH
  settled <- [k \in Key |-> IF ledger[k].state = "COMPLETED"
                              THEN ledger[k].response ELSE 0]
AnswersOnce == Once!Spec

(* A claim does not outlive its request unless the request crashed: it is        *)
(* completed or released, so that a retry is answered and not told forever that  *)
(* the action is in progress.                                                 *)
ClaimsEnd ==
  \A k \in Key : ledger[k].state = "PENDING" ~>
    (ledger[k].state # "PENDING" \/ \A r \in Request : ~Owns(r, k))

(* A retry is never refused on account of what an earlier attempt with the       *)
(* same key has done.  Not so: a claim released after its command had committed   *)
(* lets the retry run it again, and the command refuses.                        *)
NeverToldAlreadyDone ==
  \A r \in Request :
    req[r].error = "refused" => ran[req[r].key] = {}

(* No claim is pending for ever.  Not so: nothing reads expiresAt, and the claim of *)
(* a process that stopped stays.                                             *)
KeysExpire == \A k \in Key : ledger[k].state = "PENDING" ~> ledger[k].state # "PENDING"
=============================================================================
