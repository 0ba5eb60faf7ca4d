SPECIFICATION FairSpec
CONSTANTS
  c1 = c1  c2 = c2  r1 = r1  r2 = r2  n1 = n1  n2 = n2  p1 = p1  p2 = p2
  Checkouts = {c1}
  Replicas = {r1, r2}
  ClaimNames = {n1}
  Pools = {p1}
  PoolOf <- OnePool
  Nobody = Nobody
  OriginalPolicy = "Delete"
  MaxUid = 1
  ClaimOf <- ClaimEach
  CreationTime <- OlderFirst
  Events = {"resync"}
PROPERTIES EventuallyAcquired EventuallyNamed
CHECK_DEADLOCK FALSE
