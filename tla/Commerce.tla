------------------------------- MODULE Commerce -------------------------------
(***************************************************************************)
(* Selling: which market a request belongs to, the price it is quoted, the tax    *)
(* on it, and whether an organization may use a feature.  The tables are            *)
(* Catalogue's; the API answers from three copies of them that live for Ttl.        *)
(*                                                                         *)
(* A request awaits each copy in turn.  A copy that is out of date is fetched, and     *)
(* several requests may fetch at once and store over each other; operators change       *)
(* the tables at any moment.  invalidate() exists and nothing calls it.              *)
(*                                                                         *)
(* Abstractions.  One plan and one interval are sold.  The record of the              *)
(* organization is one country, the billing customer's if there is one; France         *)
(* stands for the rest of the EU market.  What is listed at an instant is what is       *)
(* ACTIVE: windows of validity, promotions and the browser's locale are left out.       *)
(***************************************************************************)
EXTENDS Catalogue, Integers

CONSTANTS
  Caller,     \* requests, each made once
  Listed,      \* markets that are active at first, a price in each
  Ttl,         \* lifetime of a copy
  LastInstant,     \* bound on the clock
  Expiries,    \* when the entitlement may expire
  MaxChanges,  \* bound: what operators change meanwhile
  Signals,     \* [selected, ip]: the market a page asks for and the country of its address
  None

ASSUME CommerceAssumption ==
  /\ Ttl \in Nat \ {0} /\ LastInstant \in Nat /\ None # "yes"
  /\ Expiries \subseteq Int
  /\ MaxPrices \in Nat /\ Len(Listed) <= MaxPrices
  /\ Listed \in Seq({"GLOBAL", "BG", "DE", "EU", "US"})

VARIABLES
  active,    \* markets that are active
  record,    \* what the organization's record says of its billing
  grant,     \* the organization's entitlement to the feature
  copies,    \* resolverCache, catalogCache and the entitlement cache
  calls,     \* requests
  clock,
  changes,   \* how often operators changed something
  ended      \* history: when something stopped being so

commerceVars == <<active, record, grant, copies, calls, clock, changes, ended>>

MarketCode == {"GLOBAL", "BG", "DE", "EU", "US"}
Country == {"BG", "DE", "FR", "US", "GB"}
Market(countries, scheme, priority) ==
  [countries |-> countries, scheme |-> scheme, priority |-> priority]
Markets ==
  [GLOBAL |-> Market({}, "NONE", 1000), BG |-> Market({"BG"}, "EU_VAT", 10),
   DE |-> Market({"DE"}, "EU_VAT", 10), EU |-> Market({"FR"}, "EU_VAT", 50),
   US |-> Market({"US"}, "US_SALES_TAX", 10)]
SellerCountry == "BG"
EuCountry == {"BG", "DE", "FR"}

Copy == {"markets", "prices", "grants"}
Never == -1
---------------------------------------------------------------------------
(* MarketResolver, over the markets that were active when they were read.           *)

ByCountry(country, markets) ==
  LET claims == {m \in markets : country \in Markets[m].countries} IN
  {m \in claims : \A o \in claims : Markets[m].priority <= Markets[o].priority}

OrFallback(markets) == IF markets = {} THEN "GLOBAL" ELSE CHOOSE m \in markets : TRUE

(* resolve: the market a visitor picked, else the one of the address, else the fallback. *)
ResolveForVisitor(signals, markets) ==
  LET picked == {signals.selected} \cap markets IN
  OrFallback(IF picked # {} THEN picked ELSE ByCountry(signals.ip, markets))

(* Mutant of ResolveForOrganization: what the visitor's page picked goes first.         *)
ResolveBySignals(country, signals, markets) ==
  IF signals.selected \in markets THEN signals.selected
  ELSE OrFallback(ByCountry(country, markets))

(* The record's country alone, whatever the request carries.                         *)
ResolveForOrganization(country, signals, markets) ==
  OrFallback(ByCountry(country, markets))

(* TaxService.calculate: how the sale is taxed.  A validated customer is a business    *)
(* whose VAT number was validated.                                                 *)
Treatment(market, customer) ==
  CASE Markets[market].scheme = "NONE" -> "OUT_OF_SCOPE"
    [] Markets[market].scheme = "US_SALES_TAX" -> "DEFERRED_TO_PROVIDER"
    [] Markets[market].scheme = "EU_VAT" ->
         IF customer.country \notin EuCountry THEN "OUT_OF_SCOPE"
         ELSE IF customer.country # SellerCountry /\ customer.validated THEN "REVERSE_CHARGE"
         ELSE "STANDARD_RATE"

(* Entitlements.can, at the instant the request calls.                              *)
Can(g, at) ==
  /\ ~g.blocked
  /\ g.enabled
  /\ g.expires = Never \/ g.expires > at
---------------------------------------------------------------------------
OnSaleNow == {n \in DOMAIN prices : prices[n].status = "ACTIVE"}
Content(k) ==
  CASE k = "markets" -> active [] k = "prices" -> OnSaleNow [] k = "grants" -> grant

Ending == {<<"grant", 0>>} \cup {<<"market", m>> : m \in MarketCode}
            \cup {<<"price", n>> : n \in 1 .. MaxPrices}

Empty == [content |-> None, until |-> 0]
Unasked ==
  [kind |-> "none", step |-> "new", copy |-> "markets", start |-> 0, at |-> 0,
   signals |-> [selected |-> None, ip |-> None], read |-> None, markets |-> None,
   country |-> None, held |-> {}, market |-> None, price |-> 0, treatment |-> None]

CommerceInit ==
  /\ active = Range(Listed)
  /\ record = [country |-> "BG", validated |-> FALSE]
  /\ grant \in [enabled : {TRUE}, blocked : {FALSE}, expires : Expiries]
  /\ copies = [k \in Copy |-> Empty]
  /\ calls = [r \in Caller |-> Unasked]
  /\ clock = 0 /\ changes = 0
  /\ ended = [x \in Ending |-> Never]

(* The tables as a complete run of the seed leaves them, one plan and interval of them.   *)
Seeded ==
  /\ prices = [n \in 1 .. Len(Listed) |-> PriceRow(Listed[n], "starter", "MONTHLY", 1)]
  /\ reference = {} /\ roles = <<>> /\ demo = 0 /\ overlap = FALSE
  /\ seeds = [s \in Seed |-> NotRun]

ToRequest(r, q) == calls' = [calls EXCEPT ![r] = q]
Same == UNCHANGED <<active, record, grant, clock, changes, ended>>

Call(r, kind, signals) ==
  /\ calls[r] = Unasked
  /\ ToRequest(r, [Unasked EXCEPT !.kind = kind, !.step = "look", !.start = clock,
                                  !.signals = signals, !.held = {record},
                                  !.copy = IF kind = "feature" THEN "grants" ELSE "markets"])
  /\ UNCHANGED copies /\ Same

(* What follows once a copy is at hand; entitlements are judged at the instant the     *)
(* request looked.                                                               *)
With(q, content, at) ==
  CASE q.copy = "markets" ->
         [q EXCEPT !.step = "look", !.copy = "prices", !.read = None, !.markets = content]
    [] q.copy = "prices" -> [q EXCEPT !.step = "decide", !.read = content]
    [] q.copy = "grants" ->
         [q EXCEPT !.step = "over", !.read = None,
                   !.treatment = IF Can(content, at) THEN "yes" ELSE "no"]

(* Promise.all: the organization is read beside the resolver, in either order.         *)
ReadCountry(r) ==
  /\ calls[r].kind = "quote" /\ calls[r].country = None /\ calls[r].step \in {"look", "fetch", "store"}
  /\ ToRequest(r, [calls[r] EXCEPT !.country = record.country])
  /\ UNCHANGED copies /\ Same

Look(r) ==
  LET q == calls[r]
      copy == copies[q.copy]
  IN
  /\ q.step = "look"
  /\ q.kind = "quote" /\ q.copy = "prices" => q.country # None
  /\ \/ copy.until > clock /\ ToRequest(r, With(q, copy.content, clock))
     \/ copy.until <= clock /\ ToRequest(r, [q EXCEPT !.step = "fetch", !.at = clock])
  /\ UNCHANGED copies /\ Same

(* A resolver without its fallback market is not built, and nothing is stored.         *)
Fetch(r) ==
  LET q == calls[r]
      content == Content(q.copy)
  IN
  /\ q.step = "fetch"
  /\ IF q.copy = "markets" /\ "GLOBAL" \notin content
       THEN ToRequest(r, [q EXCEPT !.step = "failed"])
       ELSE ToRequest(r, [q EXCEPT !.step = "store", !.read = content])
  /\ UNCHANGED copies /\ Same

(* Mutant of Until: the lifetime is counted from the answer.                          *)
UntilFromAnswer(r) == clock + Ttl

(* expiresAt is counted from the instant the request looked, before its query.         *)
Until(r) == calls[r].at + Ttl

Store(r) ==
  LET q == calls[r] IN
  /\ q.step = "store"
  /\ copies' = [copies EXCEPT ![q.copy] = [content |-> q.read, until |-> Until(r)]]
  /\ ToRequest(r, With(q, q.read, q.at))
  /\ Same

(* listForMarket for a visitor's page; requireSellable for an organization's quote.     *)
Choose(r) ==
  LET q == calls[r]
      m == IF q.kind = "quote" THEN ResolveForOrganization(q.country, q.signals, q.markets)
           ELSE ResolveForVisitor(q.signals, q.markets)
      offers == {n \in q.read : prices[n].market = m}
  IN /\ q.step = "decide"
     /\ \/ offers = {} /\ ToRequest(r, [q EXCEPT !.step = "failed"])
        \/ \E n \in offers :
             ToRequest(r, [q EXCEPT !.step = IF q.kind = "quote" THEN "tax" ELSE "over",
                                    !.read = None, !.market = m, !.price = n])
     /\ UNCHANGED copies /\ Same

(* The billing customer is read again for the tax.                                  *)
Tax(r) ==
  /\ calls[r].step = "tax"
  /\ ToRequest(r, [calls[r] EXCEPT !.step = "over",
                                   !.treatment = Treatment(calls[r].market, record)])
  /\ UNCHANGED copies /\ Same
---------------------------------------------------------------------------
(* Operators, by SQL.                                                           *)

Changes == changes < MaxChanges /\ changes' = changes + 1
Ends(what, x) == Changes /\ ended' = [ended EXCEPT ![<<what, x>>] = clock]

OperatorReprices(n) ==
  /\ Reprice(n) \/ Withdraw(n)
  /\ Ends("price", n) /\ UNCHANGED <<active, record, grant, copies, calls, clock>>

Deactivate(m) ==
  /\ m \in active /\ active' = active \ {m} /\ Ends("market", m)
  /\ UNCHANGED <<record, grant, copies, calls, clock, catalogueVars>>

MoveRecord(to) ==
  /\ record # to /\ record' = to
  /\ calls' = [r \in Caller |-> [calls[r] EXCEPT !.held = IF @ = {} THEN @ ELSE @ \cup {to}]]
  /\ Changes /\ UNCHANGED <<active, grant, copies, clock, ended, catalogueVars>>

EndGrant ==
  /\ grant.enabled /\ ~grant.blocked
  /\ \/ grant' = [grant EXCEPT !.enabled = FALSE]
     \/ grant' = [grant EXCEPT !.blocked = TRUE]
  /\ Ends("grant", 0)
  /\ UNCHANGED <<active, record, copies, calls, clock, catalogueVars>>

ClockTicks ==
  /\ clock < LastInstant /\ clock' = clock + 1
  /\ UNCHANGED <<active, record, grant, copies, calls, changes, ended, catalogueVars>>

Attend(r) ==
  /\ \/ \E kind \in {"visitor", "quote"}, signals \in Signals : Call(r, kind, signals)
     \/ Call(r, "feature", Unasked.signals)
     \/ ReadCountry(r) \/ Look(r) \/ Fetch(r) \/ Store(r) \/ Choose(r) \/ Tax(r)
  /\ UNCHANGED catalogueVars

CommerceNext ==
  \/ \E r \in Caller : Attend(r)
  \/ \E n \in DOMAIN prices : OperatorReprices(n)
  \/ \E m \in MarketCode : Deactivate(m)
  \/ \E c \in {"BG", "FR"}, v \in BOOLEAN : MoveRecord([country |-> c, validated |-> v])
  \/ EndGrant
  \/ ClockTicks

CommerceSpec ==
  /\ Seeded /\ CommerceInit
  /\ [][CommerceNext]_<<catalogueVars, commerceVars>>
---------------------------------------------------------------------------
(* Properties.                                                               *)

(* At some moment less than Ttl before the request began, or later, x was still so.        *)
StillLately(what, x, start) ==
  ended[<<what, x>>] = Never \/ ended[<<what, x>>] > start - Ttl

(* A price that is quoted, and a feature that is granted, was on sale and granted less       *)
(* than one lifetime of a copy before the request, whoever fetched or stored meanwhile and     *)
(* however long a fetch took; and no answer grants a feature that had expired.               *)
AnswersAreRecent ==
  \A r \in Caller :
    LET q == calls[r] IN
    /\ q.price # 0 => StillLately("price", q.price, q.start) /\ StillLately("market", q.market, q.start)
    /\ q.kind = "feature" /\ q.treatment = "yes" =>
         /\ StillLately("grant", 0, q.start)
         /\ grant.expires = Never \/ grant.expires > q.start

(* Every market listed at first that claims the country has been deactivated.                 *)
Unclaimed(country) ==
  \A m \in Range(Listed) : country \in Markets[m].countries => ended[<<"market", m>>] # Never

(* An organization's market is the one of a country its record held during the request,       *)
(* whatever the request says (market-resolver.ts: no request parameter can move an             *)
(* organization onto a cheaper market); it is the fallback only when every market that          *)
(* claims such a country is gone by then.  A quote leaves out the standard rate for three        *)
(* reasons alone: its record showed a validated number outside the seller's own country, or      *)
(* a country outside the EU, or a country whose every market is gone -- and the reverse           *)
(* charge for the first of them alone.  The third is a sale in the EU that goes out untaxed,       *)
(* and one record of several is enough for any of them (OneRecord).                        *)
RecordDecides ==
  \A r \in Caller :
    LET q == calls[r] IN
    q.kind = "quote" /\ q.price # 0 =>
      /\ \E held \in q.held :
           \/ held.country \in Markets[q.market].countries
           \/ q.market = "GLOBAL" /\ Unclaimed(held.country)
      /\ q.step = "over" /\ q.treatment # "STANDARD_RATE" =>
           \E held \in q.held :
             \/ held.validated /\ held.country # SellerCountry
             \/ held.country \notin EuCountry
             \/ Unclaimed(held.country)
      /\ q.step = "over" /\ q.treatment = "REVERSE_CHARGE" =>
           \E held \in q.held : held.validated /\ held.country \in EuCountry \ {SellerCountry}

(* A quote's market and its tax come from one record: not so when the record moves between      *)
(* the two reads of it, and then a sale in the EU may go out untaxed.                        *)
OneRecord ==
  \A r \in Caller :
    calls[r].treatment = "OUT_OF_SCOPE" => \E held \in calls[r].held : held.country \notin EuCountry
=============================================================================
