SPECIFICATION PagesSpec
CONSTANTS
  Tab = {tab}
  Ad = {x1, x2}
  Public = Public
  Blank = Blank
  Url = {x1, x2}
  Single = {ad}
  Other = Other
  Metric = {metric}
  Task = {slot}
  MaxRetries = 2
  Shop = {x1, x2}
  Total = 1
  First = 1
  More = 1
  Enough = 1
  Items = 3
  PageWorkers = 1
  BackgroundWorkers = 2
  Request = {a1, a2, slot}
  Window = {tab, ad}
  Active = tab
  Type = {"star", "non_star"}
  Fees <- TwoTypes
  Paths <- Breadcrumb
  Load = {slot}
  MaxWaiting = 2
  Typed = Typed
  ProcessingFee = 1
  PromoCap = 1
  Prices = {0, 20, 30}
  Costs = {0, 4, 15}
  Operations = {2}
  CategoryPcts = {15}
  FreeDelivery <- Surcharges
  Units = {1, 3}
  Revenues = {60}
  Spends = {4, 30}
  Roases = {0, 200, 1500}
  None = None
  Product = {product}
  Slot = {a1, a2}
  NoSlot = NoSlot
  Kind = {"search", "product"}
  Clicks = {"more", "reload"}
  MaxVisits = 2
  MaxDom = 1
SYMMETRY PagesSymmetry
INVARIANTS
  NoRefreshIsLost
  CalculatorIsOwn
  MetricsAreOfTheAddress
  RetriedAndObservedInTime
  ResearchArrives
  AnswersAreComplete
  OpenIsTimed
  FiguresAgree
PROPERTIES
  EnrichmentStays
