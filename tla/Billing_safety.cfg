SPECIFICATION SafetySpec
CONSTANTS
  h1 = h1
  h2 = h2
  i1 = i1
  i2 = i2
  i3 = i3
  free = free
  pro = pro
  BG = BG
  NoInvoice = NoInvoice
  Plan = {free, pro}
  Paid = {pro}
  Free = free
  Period <- MCPeriod
  Grace = 1
  Lead = 1
  Retention = 1
  Handler = {h1, h2}
  Invoice = {i1, i2, i3}
  Attempt = {1, 2}
  Requests = {"checkout", "callback", "refresh"}
  Outcomes = {"pending", "settlement", "failed", "expired", "cancelled", "refunded"}
  ChargeOutcomes = {"ok", "lost", "refused"}
  MaxTime = 3
  MaxCrashes = 1
  Horizon = 4
SYMMETRY MCSymmetry
INVARIANTS
  TypeOK
  InvoiceBackedByGateway
  EveryTermEnds
  OneLiveRenewal
  ChargedInvoiceKeepsRow
  AckedDeliveryWasApplied
PROPERTIES
  SubscriptionIsEntitlement
