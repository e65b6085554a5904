SPECIFICATION MCSpec
CONSTANTS
    None = None
    Absent = Absent
    Nil = Nil
    NoId = NoId
    Slots = {1, 2}
    Offered <- EdgeOffered
    KeyRing <- EdgeKeys
    Replicas = {1, 2}
    Skew <- EdgeSkew
    Ahead = 1
    Apps <- EdgeApps
    KnownAtStart <- EdgeKnown
    Rate = 1
    Capacity = 1
    PerMinute = 2
    Window = 2
    AppTTL = 2
    NegTTL = 1
    MaxEntries = 1
    MaxNow = 3
    MaxEdgeFaults = 1
    MaxRequests = 4
    NoApp = NoApp
    p1 = p1  p2 = p2
    Tenants = {"t"}
    KeyURIs = {"u"}
    Here = {TRUE, FALSE}
    Calls = {1, 2}
    TTL = 1
    MaxTime = 2
    MaxCalls = 2
    MaxChanges = 1
    MaxFaults = 1
    Kids = {"k1", "k2", "k3"}
    FirstKid = "k1"
    Usable = {"k1", "k2"}
    Tokens <- AttestTokens
    Timeout = 1
    Verifications = {1, 2}
    KeyTTL = 1
    MaxClock = 6
    MaxVerifications = 2
    MaxFailures = 1
    MaxRotations = 1
SYMMETRY Symmetry
INVARIANTS
    LimitsHeld BatchAnswered WindowsExact AttestationSound DomainFollowsRow
    ResultsTrue EnforcedAsWritten SessionSound EventsOnce ReleaseToolsHonest
CHECK_DEADLOCK FALSE
