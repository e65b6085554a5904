------------------------------ MODULE MCRisk -------------------------------
(***************************************************************************)
(* Small instances of the two parts that weigh risk signals, TrustService  *)
(* and Analytics.  They are explored side by side: component says which of *)
(* them moves in a behaviour, and the trust service is explored in two     *)
(* shapes, since all of it at once is out of reach:                        *)
(*   attest     two attestations at once, over two nonces and two apps;    *)
(*   proof      one attestation and two request proofs, while the clock    *)
(*              runs past the lifetime of the token;                       *)
(*   analytics  telemetry written, queried and purged in both stores.      *)
(* The risk algebra is checked where an attestation is scored: over the    *)
(* signals the call has and may still gain, under a small set of policies. *)
(***************************************************************************)
EXTENDS TrustService, TLC

CONSTANTS a1, a2, c1, c2, n1, n2, p1, p2, Windows, MaxDay, MaxFaults

VARIABLES component, sent, mem, table, window, broken, pass, walk, day, faults

analyticsVars == <<sent, mem, table, window, broken, pass, walk, day, faults>>

\* A tenant-wide observe policy and an app-scoped blocking one that calls any
\* reported risk critical.
MCPolicies ==
    {[scope |-> TenantWide, mode |-> "OBSERVE", thresholds |-> <<>>, weights |-> <<>>],
     [scope |-> p1, mode |-> "BLOCK", thresholds |-> (CRITICAL :> 40), weights |-> <<>>]}

\* Two wire signals that share a server meaning and a bit above the known range.
MCReports == {{"root", "jailbreak", "unknown"}}
MCVerdicts == {{}}
MCSeqs == 0 .. 2

\* Events of two tenants: one that sends milliseconds, and two of one instant.
Event(id, tenant, app, wire, bucket, frame) ==
    [id |-> id, tenant |-> tenant, app |-> app, type |-> "x", wire |-> wire, bucket |-> bucket, frame |-> frame]
\* More of that instant, on either side of the others in the listing.
Latecomers == {Event(id, "t1", "a", {"root"}, 1, 2) : id \in {0, 3}}
MCOffered == {Event(1, "t1", "a", {"root"}, 1, 2), Event(2, "t1", "b", {"tamper", "root"}, 1000, 1),
              Event(4, "t2", "a", {"emulator"}, 1, 2)} \cup Latecomers
MCFilters == {[app |-> None, from |-> 0, to |-> 0, types |-> {}, levels |-> {}]}
MCSpecs == {[weights |-> <<>>, thresholds |-> <<>>, mode |-> "BLOCK"],
            [weights |-> <<>>, thresholds |-> (LOW_RISK :> 10) @@ (CRITICAL :> 40), mode |-> "STEP_UP"]}

A == INSTANCE Analytics WITH
        Tenants <- {"t1", "t2"}, Offered <- MCOffered, Filters <- MCFilters, Specs <- MCSpecs,
        DefaultDays <- 1, DefaultPage <- 1, MaxPage <- 2, Limits <- {0, 3},
        MillisCutoff <- 100, MillisPerUnit <- 1000, MaxClockSkew <- 1

\* Latecomers arrive between two pages of a walk; the purger rests meanwhile.
BetweenPages == sent' \cap Latecomers # {} => ~walk.done /\ pass' = None /\ day' = day

-----------------------------------------------------------------------------
MCInit ==
    /\ Init /\ A!Init
    /\ component \in {"attest", "proof", "analytics"}
    /\ component = "analytics" \/ broken = {}

\* Steps of the trust service that a call, a nonce and an app take.
Attesting(callSet, nonceSet, appSet) ==
    \/ \E a \in callSet : AttestationStep(a) \/ AbortAttestation(a) \/ RevokeTrustSession(a)
    \/ \E app \in appSet : CreateApp(app)
    \/ \E p \in Policies : ActivatePolicy(p)
    \/ \E n \in nonceSet : ExpireNonce(n)
    \/ \E n \in nonceSet, app \in appSet : GetNonce(n, app)
    \/ \E a \in callSet, n \in nonceSet, app \in appSet, r \in Reports : VerifyAttestation(a, n, app, r)

Proving ==
    \/ \E c \in Checks : ProofStep(c) \/ AbortProof(c)
    \/ Tick
    \/ \E c \in Checks, s \in Seqs, g \in BOOLEAN : ValidateRequestProof(c, a1, s, g)

MCNext ==
    /\ UNCHANGED component
    /\ \/ component = "attest" /\ Attesting(Calls, Nonces, Apps) /\ UNCHANGED analyticsVars
       \/ component = "proof" /\ Attesting({a1}, {n1}, {p1}) /\ UNCHANGED analyticsVars
       \/ component = "proof" /\ Proving /\ UNCHANGED analyticsVars
       \/ component = "analytics" /\ A!Next /\ BetweenPages /\ UNCHANGED vars

mcVars == <<component, vars, analyticsVars>>

\* The fairness of Analytics, in the behaviours it moves in.
MCFairness ==
    WF_analyticsVars(component = "analytics" /\ A!PurgeOnce /\ UNCHANGED <<component, vars>>)

MCSpec == MCInit /\ [][MCNext]_mcVars /\ MCFairness

-----------------------------------------------------------------------------
\* The signals a call may be scored with: what it has, and what the device,
\* the verifier or the fleet guard may add.
FusedBits(a) == {Fuse(attBits[a], more) : more \in SUBSET {"Debugger", "DeviceIntegrity", "FleetAnomaly"}}

\* One call at a time is enough for that.
Scoring == {a \in Calls : component = "proof" /\ attPc[a] = "policy"}

\* Overrides that raise, zero and saturate.
WeightMaps == {<<>>, ("RootJailbreak" :> 0), ("Debugger" :> MaxScore),
               ("RootJailbreak" :> MaxScore) @@ ("DeviceIntegrity" :> MaxScore - 1)}

\* Defaults, a partial map, an inverted map, a map of unknown names only.
ThresholdMaps == {<<>>, (HIGH_RISK :> 50),
                  (LOW_RISK :> 60) @@ (CRITICAL :> 45), (UNSPECIFIED :> 0)}

Severity(d) == CASE d = "ALLOW" -> 0 [] d = "STEP_UP" -> 1 [] d = "DENY" -> 2
Permits(scope, op) == op \in scope \/ "*" \in scope

\* The score of a bitset is the sum of its weights clamped to the width of
\* the accumulator, whatever the order of addition: it never wraps to a low
\* value (Score, addSat).
ScoreIsClampedSum ==
    \A a \in Scoring : \A bits \in FusedBits(a), weights \in WeightMaps :
        LET total == MapThenSumSet(LAMBDA s : WeightOf(s, weights), bits)
        IN  Score(bits, weights) = IF total > MaxScore THEN MaxScore ELSE total

\* Custom thresholds follow the same rule as the default table, which is
\* scanned from the most severe level down (Level).
LevelIsMostSevereMet ==
    \A a \in Scoring : \A bits \in FusedBits(a), thresholds \in ThresholdMaps :
        LET score == Score(bits, <<>>)
            th == IF thresholds = <<>> THEN defaultThresholds ELSE thresholds
            Reaches(l) == l \in DOMAIN th /\ score >= th[l]
        IN  Level(score, thresholds) =
                IF Reaches(CRITICAL) THEN CRITICAL
                ELSE IF Reaches(HIGH_RISK) THEN HIGH_RISK
                ELSE IF Reaches(MEDIUM_RISK) THEN MEDIUM_RISK
                ELSE IF Reaches(LOW_RISK) THEN LOW_RISK ELSE TRUSTED

\* More signals never relax the outcome: the decision is no milder, the
\* token permits no operation it did not permit before, and no recommended
\* probe is dropped (Decision, capabilityScope, NextChecks).
MoreRiskNeverRelaxes ==
    \A a \in Scoring, weights \in WeightMaps, thresholds \in ThresholdMaps :
    \A more \in FusedBits(a) : \A fewer \in FusedBits(a) \cap SUBSET more :
        LET before == Level(Score(fewer, weights), thresholds)
            after == Level(Score(more, weights), thresholds)
        IN  /\ \A mode \in EnforcementModes :
                  Severity(Decision(before, mode)) <= Severity(Decision(after, mode))
            /\ \A op \in {"read", "write", "admin"} :
                  Permits(capabilityScope(after), op) => Permits(capabilityScope(before), op)
            /\ NextChecks(before) \subseteq NextChecks(after)

\* What the engine computes agrees with its reference, and is monotone.
ScoringSound == ScoreIsClampedSum /\ LevelIsMostSevereMet /\ MoreRiskNeverRelaxes

-----------------------------------------------------------------------------
\* Both stores answer alike, a client that follows the cursors sees every event
\* once, and the counts of a simulation balance (Store, ListEvents, Simulate);
\* the last whatever the store holds while no walk and no purge is under way,
\* since it reads neither.
ReadsExact == component = "analytics" =>
    /\ A!BackendsAgree /\ A!WalkGapFree
    /\ pass = None /\ walk.done => A!SimulationBalances

\* Only events past a window in force are purged, and all of them in the end (PurgeOnce).
RetentionKept == [][A!PurgesExpired]_analyticsVars /\ A!ExpiredPurged
=============================================================================
