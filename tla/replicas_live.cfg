SPECIFICATION LiveSpec
CONSTANTS
  web = web
  Node <- N2
  Ion = {web}
  Host <- OnlyOne
  Operator <- OnlyTwo
  Public <- N2
  PlotHolder <- PlotAtTwo
  ServiceIon = {web}
  Mortal <- OnlyOne
  MayFail = FALSE
  MaxDesired = 0
  RecombineAfter = 0
  HeartbeatTTL = 1
  AnchorTTL = 1
  CatalogTTL = 1
  OfferCooldown = 0
  InitialATP = 0
  HostingReward = 5
  HostingTip = 1
  MaxClock = 0
  MaxNet = 2
PROPERTY DeadOrbitCollapses
PROPERTY ServiceSurvivesPublisher
