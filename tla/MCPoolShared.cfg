SPECIFICATION Spec
CONSTANTS
  app = app
  tier = tier
  web = web
  blue = blue
  green = green
  Keys = {app, tier}
  Values = {web, blue, green}
  Unset = Unset
  Replicas = {r1, r2}
  Us = Us
  Another = Another
  Nobody = Nobody
  Specs <- SharedVolume
  Quota = 9
  MaxTaken = 0
  Events = {"foreign"}
  Late = {"claims"}
INVARIANT InitializedBeforeOffered
CHECK_DEADLOCK FALSE
