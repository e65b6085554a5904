CONSTANTS
    None = None  Nil = Nil  NoHost = NoHost
    Events = {e1, e2, e3}
    Hooks = {h1}
    QueueSize = 1
    Workers = 2
    MaxAttempts = 2
    BreakerTrip = 2
    SiemEvents = {e1, e2}
    Pipes = {p1, p2}
    Connectors = {c1}
    PipeSize = 1
    BatchSize = 2
    SiemAttempts = 2
    SiemTrip = 2
    Releases <- MCReleases
    Environments <- MCEnvironments
    Replicas = {r1, r2}
    MaxFaults = 1
    MaxStops = 1
    Hosts <- MCHosts
    Answers <- MCAnswers
    Proxies <- MCProxies
    Requests = {1, 2}
SPECIFICATION MCSpec
INVARIANTS BreakerEvidence NothingStrandedByReaping OnePipeWorks BatchAccounted
    OnlyPublicDialled MigrationsSound NothingClosedInUse
PROPERTIES EverythingSettles ExporterSettles
CHECK_DEADLOCK FALSE
