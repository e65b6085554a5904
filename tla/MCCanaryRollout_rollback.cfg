CONSTANTS
    a1 = a1  a2 = a2  p1 = p1  p2 = p2  q = q  i1 = i1  i2 = i2
    Apps = {a1}
    Policies = {p1, p2}
    Instances = {i1}
    TenantWide = TenantWide
    AppOf <- MCAppOfUsed
    HomeApp <- MCHomeApp
    BucketOf <- MCBucketOf
    Percents = {50}
    Calls = {"c1", "c2"}
    MinSamples = 1
    Threshold = 40
    None = None
    MaxSamples = 1
    MaxChanges = 3
    MaxRestarts = 0
SPECIFICATION CanarySpec
INVARIANTS AutoRollbackTargets
