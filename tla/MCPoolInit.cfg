SPECIFICATION Spec
CONSTANTS
  app = app
  tier = tier
  web = web
  blue = blue
  green = green
  Keys = {app, tier}
  Values = {web, blue, green}
  Unset = Unset
  Replicas = {r1}
  Us = Us
  Another = Another
  Nobody = Nobody
  Specs <- Admission
  Quota = 9
  MaxTaken = 1
  Events = {"crash", "error", "jobFails", "foreign"}
  Late = {"claims", "jobs", "volumes"}
INVARIANTS InitializedBeforeOffered NoJobOnOffered OwnClaimsMatch JobsAsAdmitted
PROPERTIES OthersUntouched TakenIsFinal KeepsPromise
CHECK_DEADLOCK FALSE
