SPECIFICATION SteadySpec
CONSTANTS
  web = web
  Node <- N2
  Ion = {web}
  Host <- N2
  Operator <- N2
  Public <- N2
  PlotHolder <- PlotAtTwo
  ServiceIon <- None
  Mortal <- None
  MayFail = FALSE
  MaxDesired = 1
  RecombineAfter = 1
  HeartbeatTTL = 1
  AnchorTTL = 1
  CatalogTTL = 1
  OfferCooldown = 0
  InitialATP = 2
  HostingReward = 1
  HostingTip = 1
  MaxClock = 0
  MaxNet = 2
CONSTRAINT NetBound
INVARIANT DiskNeverBehind
INVARIANT Covered
PROPERTY NothingMinted
PROPERTY AnchorNeverRecombines
PROPERTY IonSurvives
