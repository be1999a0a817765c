SPECIFICATION Spec
CONSTANTS
  h1 = h1
  h2 = h2
  i1 = i1
  i2 = i2
  i3 = i3
  free = free
  pro = pro
  BG = BG
  NoInvoice = NoInvoice
  Plan = {free, pro}
  Paid = {pro}
  Free = free
  Period <- MCPeriod
  Grace = 1
  Lead = 1
  Retention = 1
  Handler = {h1, h2}
  Invoice = {i1, i2}
  Attempt = {1}
  Requests = {"checkout", "refresh"}
  Outcomes = {"settlement"}
  ChargeOutcomes = {"ok", "refused"}
  MaxTime = 0
  MaxCrashes = 1
  Horizon = 4
SYMMETRY MCSymmetry
INVARIANTS
  ActivePlanWasBought
PROPERTIES
  SubscriptionIsEntitlement
