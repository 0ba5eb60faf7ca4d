SPECIFICATION FairSpec
CONSTANTS
  app = app
  tier = tier
  web = web
  blue = blue
  green = green
  Keys = {app, tier}
  Values = {web, blue, green}
  Unset = Unset
  Replicas = {r1, r2}
  Us = Us
  Another = Another
  Nobody = Nobody
  Specs <- AlwaysPlain
  Quota = 1
  MaxTaken = 1
  Events = {}
  Late = {}
PROPERTY EventuallySettled
CHECK_DEADLOCK FALSE
