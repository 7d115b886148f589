SPECIFICATION Spec
CONSTANTS
  web = web
  Node <- N2
  Ion = {web}
  Host <- OnlyOne
  Operator <- N2
  Public <- N2
  PlotHolder <- PlotAtTwo
  ServiceIon = {web}
  Mortal <- N2
  MayFail = TRUE
  MaxDesired = 2
  RecombineAfter = 1
  HeartbeatTTL = 1
  AnchorTTL = 1
  CatalogTTL = 2
  OfferCooldown = 1
  InitialATP = 0
  HostingReward = 5
  HostingTip = 1
  MaxClock = 0
  MaxNet = 2
CONSTRAINT NetBound
INVARIANT TypeOK
INVARIANT RoutesBacked
