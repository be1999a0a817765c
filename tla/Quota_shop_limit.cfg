SPECIFICATION Spec
CONSTANTS
  h1 = h1
  h2 = h2
  owner = owner
  s1 = s1
  s2 = s2
  s3 = s3
  p1 = p1
  NoPlan = NoPlan
  freeMonthly = freeMonthly
  Handler = {h1, h2}
  Owner = owner
  FreeCode = freeMonthly
  User = {owner}
  Shop = {s1, s2, s3}
  Plan = {p1}
  Code = {freeMonthly}
  Limit = {1}
  Requests = {"shop"}
  MaxPlanChanges = 0
SYMMETRY MCShopSymmetry
INVARIANTS
  ShopLimitEnforced
