SPECIFICATION ClientsSpec
CONSTANTS
  Slot = {a1, a2}
  Tab = {x1, x2}
  Shop = {x1, x2}
  Org = {1, 2}
  Home = 1
  Row = {x1, x2}
  Pages = {"team", "shops", "research", "fees", "plans", "invoices"}
  Goals = {"login", "popup", "sync", "heartbeat", "touch"}
  TTL = 1
  MaxLogins = 2
  MaxTime = 1
  MaxVersion = 2
  MaxSwitches = 1
  MaxAsks <- Asks
  None = None
  Resting = Resting
SYMMETRY ClientsSymmetry
INVARIANTS
  OneLogin
  PayloadsAreTaken
  TabAgrees
  PageIsCurrent
PROPERTIES
  LogoutIsFinal
