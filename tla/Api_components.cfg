SPECIFICATION ApiSpec
CONSTANTS
  Handler = {h1, h2}
  User = {owner, u1, u2}
  Owner = owner
  Shop = {x1, x2, x3}
  p1 = p1
  Plan = {p1, p2}
  NoPlan = NoPlan
  Code = {freeMonthly, otherCode}
  FreeCode = freeMonthly
  Limit = {1, 2}
  Requests = {"invite", "role", "remove", "shop", "defaults"}
  MaxPlanChanges = 2
  Session = {s1}
  Ext = {e1}
  Token = {t1}
  Link = {t1, t2, t3}
  Batch = {b1, b2}
  NoBatch = NoBatch
  Key = {"aa", "AA", "bb"}
  Bucket <- BucketOf
  Folded <- FoldedOf
  Entries <- ShopeeEntries
  Slot = {slot}
  Product = {page}
  Query = {1, 2}
  Day = {0, 1, 2}
  Sold = {0, 1}
  Windows = {1, 2}
  Lookback = 2
  Listed = 2
  Take = 3
  MaxBatches = 4
  Resting = Resting
SYMMETRY ApiSymmetry
INVARIANTS
  ApiTypeOK
  ExcessIsInFlight
  OwnerStays
  NoSessionOutlivesReset
  ResetLinksAreInFlight
  LapsedStaysOut
  AnsweredIsStored
  LeftoversHaveCause
  WindowsFollowCaptures
  DegradedHoldsNothing
PROPERTIES
  NothingAddedWithoutRoom
  DefaultsKeepTheRest
  SessionsAreCredentials
  DeploysKeepEdits
