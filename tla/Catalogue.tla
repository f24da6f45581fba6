------------------------------ MODULE Catalogue -------------------------------
(***************************************************************************)
(* The platform's reference data - markets, features, plans, prices, system    *)
(* roles - and the seed that writes it, beside the demo organization.           *)
(*                                                                         *)
(* A seed is a script of single statements without a transaction: deployments   *)
(* run it again and again, two may run it at once, and it may die after any       *)
(* statement.  Meanwhile an operator re-prices or withdraws a plan by SQL, the     *)
(* way the seed's comment on prices describes.                                  *)
(*                                                                         *)
(* Abstractions.  The instance seeds a part of the lists of the source, in their   *)
(* order; the table of prices lists the markets in another one, and no property     *)
(* tells them apart.  A release is the code of one deployment: its prices and its roles'       *)
(* permissions differ from another's.  Names, colours and texts of the rows are     *)
(* left out, and so are the limits of a plan and what the demo's rows say.          *)
(***************************************************************************)
EXTENDS Naturals, FiniteSets, Sequences, SequencesExt

CONSTANTS
  Seed,        \* runs of the seed script
  Version,     \* versions of the code that are deployed
  MarketSeq, PlanSeq, FeatureSeq, RoleSeq,   \* the part of the lists that is seeded
  MaxPrices,   \* bound: price rows ever written
  MaxRoles     \* bound: role rows ever written

ASSUME CatalogueAssumption ==
  /\ MarketSeq \in Seq(STRING) /\ FeatureSeq \in Seq(STRING) /\ RoleSeq \in Seq(STRING)
  /\ PlanSeq \in Seq({"starter", "professional", "business", "enterprise"})

VARIABLES
  reference, \* markets, features, plans and plan_features: what is upserted by its key
  prices,   \* prices
  roles,    \* roles without an organization
  demo,     \* stages of the demo organization that are committed
  seeds,    \* the runs
  overlap   \* history: two runs were ever under way at once

tables == <<reference, prices, roles, demo>>
catalogueVars == <<tables, seeds, overlap>>
---------------------------------------------------------------------------
(* The definitions of the source.                                             *)

StarterFeatures == {"workforce", "shifts.management", "production"}
ProfessionalFeatures ==
  StarterFeatures \cup
    {"analytics.productivity", "offline.mode", "driver.portal", "branding.white_label"}
BusinessFeatures ==
  ProfessionalFeatures \cup
    {"fleet.management", "fleet.gps_tracking", "fleet.fuel_costs", "reports.advanced",
     "api.access", "integrations"}
PlanFeatures(plan) ==
  CASE plan = "starter" -> StarterFeatures
    [] plan = "professional" -> ProfessionalFeatures
    [] plan = "business" -> BusinessFeatures
    [] plan = "enterprise" -> BusinessFeatures \cup {"ai.assistant"}

(* Enterprise is not sold at a listed price.                                    *)
Priced == {"starter", "professional", "business"}
Billing == {"MONTHLY", "ANNUAL"}

ViewerPermissions == {"read"}
SupervisorPermissions == ViewerPermissions \cup {"correct", "track.read"}
ManagerPermissions == SupervisorPermissions \cup {"manage", "delete", "audit.read"}
AdminPermissions == ManagerPermissions \cup {"users.manage", "settings.update"}
RolePermissions(role) ==
  CASE role = "owner" -> AdminPermissions \cup {"billing.manage"}
    [] role = "admin" -> AdminPermissions
    [] role = "manager" -> ManagerPermissions
    [] role = "supervisor" -> SupervisorPermissions
    [] role = "viewer" -> ViewerPermissions
    [] role = "worker" -> {"worker", "tracking.submit"}
    [] role = "driver" -> {"driver", "tracking.submit"}

PriceRow(m, p, i, amount) ==
  [market |-> m, plan |-> p, interval |-> i, amount |-> amount, status |-> "ACTIVE"]
RoleRow(r, release) ==
  [code |-> r, permissions |-> RolePermissions(r), release |-> release]
---------------------------------------------------------------------------
(* The script, as the sequence of its statements.                               *)

Statement(kind, key) == [kind |-> kind, key |-> key]
Each(kind, seq) == [n \in 1 .. Len(seq) |-> Statement(kind, <<seq[n]>>)]

GrantsOf(plan) ==
  FlattenSeq([n \in 1 .. Len(FeatureSeq) |->
    IF FeatureSeq[n] \notin PlanFeatures(plan) THEN <<>>
    ELSE <<Statement("grant", <<plan, FeatureSeq[n]>>)>>])
PlanStatements(plan) == <<Statement("plan", <<plan>>)>> \o GrantsOf(plan)

PriceStatements(m) ==
  FlattenSeq([n \in 1 .. Len(PlanSeq) |->
    IF PlanSeq[n] \notin Priced THEN <<>>
    ELSE <<Statement("price", <<m, PlanSeq[n], "MONTHLY">>),
           Statement("price", <<m, PlanSeq[n], "ANNUAL">>)>>])

Script ==
  Each("market", MarketSeq) \o Each("feature", FeatureSeq)
    \o FlattenSeq([n \in 1 .. Len(PlanSeq) |-> PlanStatements(PlanSeq[n])])
    \o FlattenSeq([n \in 1 .. Len(MarketSeq) |-> PriceStatements(MarketSeq[n])])
    \o Each("role", RoleSeq)

(* seedDemoOrganization comes after the script, when SEED_DEMO asks for it: its          *)
(* statements in groups, between which a run may die as anywhere.                      *)
Stages == <<"organization", "people", "workedDay", "fleet">>
StageCount == 4

NotRun == [phase |-> "idle", release |-> 0, withDemo |-> FALSE, at |-> 0, row |-> 0]
Current(s) == Script[seeds[s].at]
Doing(s, kind) ==
  /\ seeds[s].phase = "statement" /\ seeds[s].at <= Len(Script) /\ Current(s).kind = kind

CatalogueInit ==
  /\ reference = {} /\ prices = <<>> /\ roles = <<>> /\ demo = 0
  /\ seeds = [s \in Seed |-> NotRun]
  /\ overlap = FALSE

Underway(s) == seeds[s].phase \notin {"idle", "complete", "failed"}
To(s, run) == seeds' = [seeds EXCEPT ![s] = run]
Advance(s) == To(s, [seeds[s] EXCEPT !.phase = "statement", !.at = @ + 1])
Enter(s, phase) == To(s, [seeds[s] EXCEPT !.phase = phase])

(* Mutant of Abort: what goes wrong in the demo is caught where the demo is written.      *)
AbortQuietly(s) == Enter(s, IF seeds[s].phase = "demo" THEN "complete" ELSE "failed")

(* The error ends the process with exit code 1.                                     *)
Abort(s) == Enter(s, "failed")

BeginSeed(s, release, withDemo) ==
  /\ seeds[s] = NotRun
  /\ To(s, [phase |-> "statement", release |-> release, withDemo |-> withDemo,
            at |-> 1, row |-> 0])
  /\ overlap' = (overlap \/ \E t \in Seed : Underway(t))
  /\ UNCHANGED tables

(* The process is killed or loses its database.                                  *)
Die(s) == Underway(s) /\ Abort(s) /\ UNCHANGED <<tables, overlap>>
---------------------------------------------------------------------------
(* upsert: by the unique code, whatever is there already.                          *)
Upsert(s) ==
  /\ \E kind \in {"market", "feature", "plan"} : Doing(s, kind)
  /\ reference' = reference \cup {Current(s)}
  /\ Advance(s) /\ UNCHANGED <<prices, roles, demo, overlap>>

(* A feature the table does not have is passed over.                              *)
UpsertGrant(s) ==
  /\ Doing(s, "grant")
  /\ reference' = IF Statement("feature", <<Current(s).key[2]>>) \in reference
             THEN reference \cup {Current(s)} ELSE reference
  /\ Advance(s) /\ UNCHANGED <<prices, roles, demo, overlap>>

OnSale(m, p, i) ==
  {n \in DOMAIN prices : /\ prices[n].market = m /\ prices[n].plan = p
                         /\ prices[n].interval = i /\ prices[n].status = "ACTIVE"}

(* Mutant of Existing: the interval is left out of the lookup.                      *)
ExistingAnyInterval(m, p, i) == UNION {OnSale(m, p, b) : b \in Billing}

Existing(m, p, i) == OnSale(m, p, i)

(* Mutant of Kept: the row on sale is brought up to the release's amount.              *)
Updated(m, p, i, release) ==
  [n \in DOMAIN prices |->
    IF n \in OnSale(m, p, i) THEN PriceRow(m, p, i, release) ELSE prices[n]]

(* if (existing) continue: a price that is on sale stays what it is.                  *)
Kept(m, p, i, release) == prices

FindPrice(s) ==
  LET m == Current(s).key[1]
      p == Current(s).key[2]
      i == Current(s).key[3]
      known == {Statement("market", <<m>>), Statement("plan", <<p>>)} \subseteq reference
  IN /\ Doing(s, "price")
     /\ \/ known /\ Existing(m, p, i) = {} /\ Enter(s, "create") /\ UNCHANGED prices
        \/ known /\ Existing(m, p, i) # {} /\ prices' = Kept(m, p, i, seeds[s].release)
           /\ Advance(s)
        \/ ~known /\ Advance(s) /\ UNCHANGED prices
     /\ UNCHANGED <<reference, roles, demo, overlap>>

(* The index on (market, plan, interval) takes one ACTIVE row: when another came       *)
(* first, this run fails.                                                        *)
CreatePrice(s) ==
  LET row == PriceRow(Current(s).key[1], Current(s).key[2], Current(s).key[3],
                      seeds[s].release)
      taken == OnSale(row.market, row.plan, row.interval) # {}
  IN /\ seeds[s].phase = "create" /\ Current(s).kind = "price"
     /\ \/ ~taken /\ Len(prices) < MaxPrices /\ prices' = Append(prices, row) /\ Advance(s)
        \/ taken /\ UNCHANGED prices /\ Abort(s)
     /\ UNCHANGED <<reference, roles, demo, overlap>>
---------------------------------------------------------------------------
RowsOf(r) == {n \in DOMAIN roles : roles[n].code = r}

(* Which of several rows findFirst returns is the database's choice.                  *)
FindRole(s) ==
  LET r == Current(s).key[1] IN
  /\ Doing(s, "role")
  /\ \/ RowsOf(r) = {} /\ Enter(s, "create")
     \/ \E n \in RowsOf(r) : To(s, [seeds[s] EXCEPT !.phase = "update", !.row = n])
  /\ UNCHANGED <<tables, overlap>>

(* A role without an organization has a NULL in its unique key, which then forbids      *)
(* nothing: two runs may both insert it.                                          *)
WriteRole(s) ==
  LET r == Current(s).key[1]
      n == seeds[s].row
  IN /\ \/ /\ seeds[s].phase = "create" /\ Current(s).kind = "role"
           /\ Len(roles) < MaxRoles
           /\ roles' = Append(roles, RoleRow(r, seeds[s].release))
        \/ /\ seeds[s].phase = "update"
           /\ roles' = [roles EXCEPT ![n] = RoleRow(r, seeds[s].release)]
     /\ To(s, [seeds[s] EXCEPT !.phase = "statement", !.at = @ + 1, !.row = 0])
     /\ UNCHANGED <<reference, prices, demo, overlap>>
---------------------------------------------------------------------------
Finished(s) == seeds[s].phase = "statement" /\ seeds[s].at > Len(Script)

(* Without SEED_DEMO the run is over; with it, an organization that is there already     *)
(* ends it as well, its credentials printed.                                       *)
FindDemo(s) ==
  /\ Finished(s)
  /\ Enter(s, IF seeds[s].withDemo /\ demo = 0 THEN "organization" ELSE "complete")
  /\ UNCHANGED <<tables, overlap>>

(* The slug is unique: of two runs that found no organization one goes on.             *)
CreateDemo(s) ==
  /\ seeds[s].phase = "organization"
  /\ \/ demo = 0 /\ demo' = 1 /\ Enter(s, "demo")
     \/ demo > 0 /\ UNCHANGED demo /\ Abort(s)
  /\ UNCHANGED <<reference, prices, roles, overlap>>

WriteDemo(s) ==
  /\ seeds[s].phase = "demo"
  /\ demo' = demo + 1
  /\ Enter(s, IF demo' = StageCount THEN "complete" ELSE "demo")
  /\ UNCHANGED <<reference, prices, roles, overlap>>
---------------------------------------------------------------------------
(* What an operator does by SQL: a new row in place of the one on sale, or no sale.      *)
NewAmount == 0

Reprice(n) ==
  /\ prices[n].status = "ACTIVE" /\ prices[n].amount # NewAmount
  /\ Len(prices) < MaxPrices
  /\ prices' = Append([prices EXCEPT ![n].status = "GRANDFATHERED"],
                      [prices[n] EXCEPT !.amount = NewAmount])
  /\ UNCHANGED <<reference, roles, demo, seeds, overlap>>

Withdraw(n) ==
  /\ prices[n].status = "ACTIVE"
  /\ prices' = [prices EXCEPT ![n].status = "RETIRED"]
  /\ UNCHANGED <<reference, roles, demo, seeds, overlap>>

SeedStep(s) ==
  \/ \E release \in Version, withDemo \in BOOLEAN : BeginSeed(s, release, withDemo)
  \/ Upsert(s) \/ UpsertGrant(s) \/ FindPrice(s) \/ CreatePrice(s)
  \/ FindRole(s) \/ WriteRole(s) \/ FindDemo(s) \/ CreateDemo(s) \/ WriteDemo(s)
  \/ Die(s)

CatalogueNext ==
  \/ \E s \in Seed : SeedStep(s)
  \/ \E n \in DOMAIN prices : Reprice(n) \/ Withdraw(n)

CatalogueSpec == CatalogueInit /\ [][CatalogueNext]_catalogueVars
---------------------------------------------------------------------------
(* Properties.                                                               *)

Ended == {s \in Seed : seeds[s].phase = "complete"}

(* A run that ended without an error left all of the reference data behind it, whatever   *)
(* died half-way or ran beside it before: every row the script names, a price for each     *)
(* market, plan and interval (on sale or since replaced), every system role; and one row    *)
(* a role as long as no two runs overlapped.                                       *)
ReferenceWhole ==
  Ended # {} =>
    \A n \in 1 .. Len(Script) :
      LET key == Script[n].key IN
      CASE Script[n].kind = "price" ->
             \E k \in DOMAIN prices : /\ prices[k].market = key[1] /\ prices[k].plan = key[2]
                                      /\ prices[k].interval = key[3]
        [] Script[n].kind = "role" ->
             /\ RowsOf(key[1]) # {}
             /\ ~overlap => Cardinality(RowsOf(key[1])) = 1
        [] OTHER -> Script[n] \in reference

(* "which is what keeps existing subscriptions on the price they were sold at": no step     *)
(* changes what a price row says, and one that left the sale never comes back to it.         *)
SoldPriceKept ==
  [][\A n \in DOMAIN prices :
       /\ n \in DOMAIN prices'
       /\ [prices'[n] EXCEPT !.status = "ACTIVE"] = [prices[n] EXCEPT !.status = "ACTIVE"]
       /\ prices[n].status # "ACTIVE" => prices'[n] = prices[n]]_prices

(* Whatever runs overlap or die, one run at most is writing the demo organization, and one  *)
(* that is half-written is being written or was left by a run that failed: no run that       *)
(* ended without an error wrote only a part of it.                                       *)
DemoHasOneWriter ==
  /\ \A s, t \in Seed : seeds[s].phase = "demo" /\ seeds[t].phase = "demo" => s = t
  /\ demo \in 1 .. StageCount - 1 =>
       \E s \in Seed : seeds[s].withDemo /\ seeds[s].phase \in {"demo", "failed"}
  /\ demo <= StageCount

(* "Idempotent, so `pnpm setup` can be re-run": a run that ends tells credentials that work.   *)
(* It does not hold: an organization a dead run left half-written is never completed.          *)
PrintedMeansPresent ==
  \A s \in Ended : seeds[s].withDemo =>
    {"people", "fleet"} \subseteq {Stages[n] : n \in 1 .. demo}
=============================================================================
