------------------------------ MODULE MCOffice ------------------------------
(* Small instances of Workplace, of Organization, of the seed and of Commerce in one  *)
(* run.  They share no variable, apart from the prices, and what operators do to those   *)
(* while they are sold is in Commerce: the run explores one of them at a time, not their  *)
(* product.                                                                  *)
EXTENDS Workplace, Organization, Commerce

CONSTANTS ann, bob, cyn, press, hoist, licence, limit, hours, band, old, new

VARIABLE part    \* which of them acts

(* ann's licence lapses, bob has it for good, cyn has none but may work under      *)
(* supervision from 1; bob is taken off the press at 1.                          *)
SmallTime == 0 .. 1
SmallExpiry == [w \in {ann, bob, cyn} |->
  [k \in {licence} |-> IF w = ann THEN 1 ELSE IF w = bob THEN Null ELSE Missing]]
SmallOverride == {o \in {[worker |-> cyn, position |-> press, effect |-> "ALLOW", from |-> 1, to |-> Null],
   [worker |-> ann, position |-> hoist, effect |-> "ALLOW", from |-> Null, to |-> 1],
   [worker |-> bob, position |-> press, effect |-> "DENY", from |-> 1, to |-> Null]} : o.position \in Position}
SmallMode == [p \in Position |->
  IF p = press THEN "QUALIFICATION_REQUIRED" ELSE "SUPERVISOR_APPROVAL"]
SmallRequired == [p \in Position |-> {licence}]

SmallLimit == [p \in Position |-> IF p = press THEN {1, Null} ELSE {Null}]

SmallDefault == [f \in {limit, hours, band} |-> IF f = limit THEN Cleared ELSE 0]

OneMarket == <<"BG">>
TwoMarkets == <<"GLOBAL", "BG">>
OnePlan == <<"starter">>
TwoFeatures == <<"workforce", "ai.assistant">>
OneRole == <<"owner">>
SmallSignals ==
  {[selected |-> "GLOBAL", ip |-> "BG"]}

Sum ==
  /\ WorkplaceInit /\ OrganizationInit /\ CommerceInit
  /\ part \in {"floor", "organization", "settings", "seeding", "selling"}
  /\ IF part = "selling" THEN Seeded ELSE CatalogueInit
  /\ part # "organization" => name = old
  /\ part # "settings" => settings = NoSettings

SumNext ==
  /\ UNCHANGED part
  /\ \/ /\ part = "floor" /\ WorkplaceNext
        /\ UNCHANGED <<organizationVars, catalogueVars, commerceVars>>
     \/ /\ part = "organization" /\ RequestNext
        /\ UNCHANGED <<workplaceVars, settingsVars, catalogueVars, commerceVars>>
     \/ /\ part = "settings" /\ SettingsNext
        /\ UNCHANGED <<workplaceVars, requestVars, catalogueVars, commerceVars>>
     \/ /\ part = "seeding" /\ CatalogueNext
        /\ UNCHANGED <<workplaceVars, organizationVars, commerceVars>>
     \/ /\ part = "selling" /\ CommerceNext
        /\ UNCHANGED <<workplaceVars, organizationVars>>

SumSpec ==
  Sum /\ [][SumNext]_<<part, workplaceVars, organizationVars, catalogueVars, commerceVars>>

Interchangeable == Permutations(Request) \cup Permutations(Seed)
=============================================================================
