-------------------------------- MODULE Risk --------------------------------
(***************************************************************************)
(* The risk arithmetic shared by the trust service: translating the wire   *)
(* bitset, fusing, scoring, classifying and deciding                       *)
(* (server/shared/risk/risk.go), and the capability scope a level earns    *)
(* (server/data-plane/trust/service.go).  A bitset is the set of its       *)
(* signals.  Levels are the proto's TrustLevel numbers.                    *)
(***************************************************************************)
EXTENDS Integers, FiniteSetsExt

CONSTANT MaxScore    \* the largest score an accumulator can hold (2^32 - 1)

ASSUME MaxScoreAssumption == MaxScore \in Nat

UNSPECIFIED == 0
TRUSTED == 1
LOW_RISK == 2
MEDIUM_RISK == 3
HIGH_RISK == 4
CRITICAL == 5
TrustLevels == 1 .. 5

EnforcementModes == {"OBSERVE", "STEP_UP", "BLOCK"}
Decisions == {"ALLOW", "STEP_UP", "DENY"}

defaultWeights ==
    [RootJailbreak |-> 40, Debugger |-> 25, Emulator |-> 20, Hooking |-> 35,
     AppTamper |-> 60, AttestationFail |-> 70, NetworkMITM |-> 30,
     AccountRisk |-> 20, DeviceIntegrity |-> 45, AppUnrecognized |-> 65,
     EnvironmentRisk |-> 15, ScreenCapture |-> 30, OverlayAbuse |-> 35,
     AccessibilityAbuse |-> 40, MaliciousIME |-> 25, RemoteAccess |-> 45,
     FleetAnomaly |-> 50]

ServerSignals == DOMAIN defaultWeights

\* Every wire signal has a server meaning; two or three may share one.
wireToServer ==
    [root |-> "RootJailbreak", jailbreak |-> "RootJailbreak",
     emulator |-> "Emulator", simulator |-> "Emulator",
     debugger |-> "Debugger", hooking |-> "Hooking",
     tamper |-> "AppTamper", app_integrity |-> "AppTamper",
     repackaged |-> "AppTamper",
     network_mitm |-> "NetworkMITM", user_ca |-> "NetworkMITM",
     pinning_failure |-> "NetworkMITM",
     environment |-> "EnvironmentRisk", proxy |-> "EnvironmentRisk",
     attestation_fail |-> "AttestationFail",
     secure_hw_missing |-> "DeviceIntegrity",
     screen_capture |-> "ScreenCapture", overlay_abuse |-> "OverlayAbuse",
     accessibility |-> "AccessibilityAbuse",
     malicious_ime |-> "MaliciousIME", remote_access |-> "RemoteAccess"]

\* Wire bits above maxWireBit have no entry and are dropped.
FromWire(wire) == {wireToServer[w] : w \in wire \cap DOMAIN wireToServer}

Fuse(reported, attestation) == reported \cup attestation

addSat(a, b) == IF a > MaxScore - b THEN MaxScore ELSE a + b

\* A policy weight overrides the default one; a signal with neither weighs 0.
WeightOf(signal, weights) ==
    IF signal \in DOMAIN weights THEN weights[signal]
    ELSE IF signal \in ServerSignals THEN defaultWeights[signal] ELSE 0

Score(bits, weights) ==
    MapThenFoldSet(addSat, 0, LAMBDA s : WeightOf(s, weights),
                   LAMBDA S : CHOOSE s \in S : TRUE, bits)

defaultThresholds == [l \in LOW_RISK .. CRITICAL |-> <<20, 50, 90, 130>>[l - 1]]

\* The most severe level whose minimum the score meets, TRUSTED if none is.
\* An empty threshold map selects the defaults.  Names that levelByName does
\* not know are UNSPECIFIED and skipped.
Level(score, thresholds) ==
    LET th == IF DOMAIN thresholds = {} THEN defaultThresholds ELSE thresholds
        met == {l \in DOMAIN th \ {UNSPECIFIED} : score >= th[l]}
    IN  CHOOSE l \in met \cup {TRUSTED} : \A k \in met \cup {TRUSTED} : k <= l

\* Mutant: the HIGH_RISK case only knows BLOCK and falls through otherwise.
DecisionHighFallsThrough(level, mode) ==
    IF mode = "OBSERVE" THEN "ALLOW"
    ELSE IF level = CRITICAL \/ (level = HIGH_RISK /\ mode = "BLOCK") THEN "DENY"
    ELSE IF level = MEDIUM_RISK THEN "STEP_UP" ELSE "ALLOW"

\* In observe mode nothing is ever denied; DENY needs CRITICAL, or HIGH_RISK
\* under BLOCK.
Decision(level, mode) ==
    IF mode = "OBSERVE" THEN "ALLOW"
    ELSE IF level = CRITICAL \/ (level = HIGH_RISK /\ mode = "BLOCK") THEN "DENY"
    ELSE IF level \in {HIGH_RISK, MEDIUM_RISK} THEN "STEP_UP" ELSE "ALLOW"

capabilityScope(level) ==
    CASE level = TRUSTED  -> {"*"}
      [] level = LOW_RISK -> {"read", "write"}
      [] level \in {MEDIUM_RISK, HIGH_RISK} -> {"read"}
      [] OTHER -> {}

NextChecks(level) ==
    CASE level \in {TRUSTED, LOW_RISK} -> {}
      [] level = MEDIUM_RISK -> {"ROOT_RISK", "DEBUGGER"}
      [] OTHER -> {"ROOT_RISK", "DEBUGGER", "HOOKING_DETECTED",
                   "APP_INTEGRITY_FAIL"}
=============================================================================
