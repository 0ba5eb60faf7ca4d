SPECIFICATION FairSpec
CONSTANTS
  app = app
  tier = tier
  web = web
  blue = blue
  green = green
  Keys = {app, tier}
  Values = {web, blue, green}
  Unset = Unset
  Replicas = {r1}
  Us = Us
  Another = Another
  Nobody = Nobody
  Specs <- Recovering
  Quota = 9
  MaxTaken = 1
  Events = {"resync", "deletePool"}
  Late = {"volumes"}
INVARIANT TypeOK
PROPERTIES EventuallySettled FailureReported DeletionCompletes
CHECK_DEADLOCK FALSE
