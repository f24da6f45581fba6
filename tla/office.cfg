\* Two requests at a time on the floor, two changes of the organization, two runs of the seed,
\* two callers of the shop.  Each may stop anywhere, so the system may come to rest.
SPECIFICATION SumSpec
CONSTANTS
  ann = ann
  bob = bob
  cyn = cyn
  press = press
  hoist = hoist
  licence = licence
  limit = limit
  hours = hours
  band = band
  old = old
  new = new
  Worker = {ann, bob, cyn}
  Position = {press, hoist}
  Qualification = {licence}
  Area = {hall}
  Request = {r1, r2}
  Null = Null
  Missing = Missing
  Nobody = Nobody
  Nowhere = Nowhere
  NoArea = NoArea
  Time <- SmallTime
  ChangeMode <- SmallMode
  Required <- SmallRequired
  Expiry <- SmallExpiry
  Override <- SmallOverride
  Limit <- SmallLimit
  MaxTime = 1
  MaxBacklog = 1
  Change = {c1, c2}
  File = {f1, f2}
  MaxLogos = 2
  Name = {old, new}
  Field = {limit, hours, band}
  OnForm = {limit, hours}
  Admin = {e1, e2}
  MaxSaves = 2
  Value = {0, 1}
  Cleared = Cleared
  NullableField = {limit}
  Default <- SmallDefault
  NoLogo = NoLogo
  NoSettings = NoSettings
  NoForm = NoForm
  Nothing = Nothing
  Seed = {s1, s2}
  Version = {1, 2}
  MarketSeq <- OneMarket
  PlanSeq <- OnePlan
  FeatureSeq <- TwoFeatures
  RoleSeq <- OneRole
  MaxPrices = 3
  MaxRoles = 2
  Caller = {a1, a2}
  Listed <- TwoMarkets
  Ttl = 1
  LastInstant = 1
  Expiries = {1}
  MaxChanges = 1
  Signals <- SmallSignals
  None = None
SYMMETRY Interchangeable
CHECK_DEADLOCK FALSE
INVARIANTS
  OverbookingBounded
  EntitledAtStart
  AuditNeverInvents
  ReferenceWhole
  DemoHasOneWriter
  AnswersAreRecent
  RecordDecides
PROPERTIES
  SoldPriceKept
  SavesOnlyUndo
