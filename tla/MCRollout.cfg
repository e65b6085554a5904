CONSTANTS
    pa = pa
    None = None
    Nothing = Nothing
    NoId = NoId
    Partitions = {pa, pb}
    Events = {e1, e2}
    PartOf <- MCPartOf
    Poison = Poison
    ProducerBuffer = 2
    ChannelBuffer = 1
    BatchSize = 2
    MaxPoison = 1
    MaxStarts = 2
    Apps = {a1, a2}
    Candidates = {q, r}
    Policies = {q}
    AppOf <- MCAppOf
    HomeApp <- MCHomeApp
    BucketOf <- MCBucketOf
    Instances = {a1}
    TenantWide = TenantWide
    Percents = {50}
    Calls = {"c1"}
    MinSamples = 1
    Threshold = 40
    MaxSamples = 1
    MaxChanges = 2
    MaxRestarts = 1
    Versions = {1}
    SwitchScopes <- AppAndBuild
    Fetches = {1, 2}
    MaxEvents = 3
SPECIFICATION MCSpec
INVARIANTS LossOnlyBelowPoison AutoRollbackSound ServedExplained
PROPERTIES SupersededStaysSuperseded EventuallyStored BreachEnds KillConverges
CHECK_DEADLOCK FALSE
