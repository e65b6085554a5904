CONSTANTS
    a1 = a1  a2 = a2  c1 = c1  c2 = c2
    n1 = n1  n2 = n2  p1 = p1  p2 = p2
    MaxScore = 1000
    Nonces = {n1, n2}
    Apps = {p1, p2}
    Calls = {a1, a2}
    Checks = {c1, c2}
    TokenTTL = 1
    MaxNow = 1
    TenantWide = TenantWide
    None = None
    Policies <- MCPolicies
    Reports <- MCReports
    Verdicts <- MCVerdicts
    Seqs <- MCSeqs
    Windows = {0}
    MaxDay = 3
    MaxFaults = 1
SPECIFICATION MCSpec
INVARIANTS OneSessionPerNonce ScoringSound NoReplay ReadsExact
PROPERTIES RefinesReplayGuard RetentionKept
CHECK_DEADLOCK FALSE
