------------------------------ MODULE MCParts ------------------------------
(***************************************************************************)
(* Small instances of the parts that run beside each other without sharing *)
(* state: the edge of the data plane (Edge), the fleet and guardrail       *)
(* monitors, the keys behind attestations and tenant secrets, the command  *)
(* line, and the two release tools.                                        *)
(*                                                                         *)
(* component says which of them a behaviour exercises.  Sealing,           *)
(* Attestation and Edge have variables of their own, which rest while      *)
(* another part moves; s1, s2, ... are those of any other part, in the     *)
(* order in which its module declares them, and None where a part has no   *)
(* more of them.                                                           *)
(***************************************************************************)
EXTENDS Sealing, Attestation, Edge, TLC

CONSTANTS NoApp, p1, p2

VARIABLES component, s1, s2, s3, s4, s5, s6, s7, s8, s9, s10, s11

From10 == s10 = None /\ s11 = None
From6 == s6 = None /\ s7 = None /\ s8 = None /\ s9 = None /\ From10
From5 == s5 = None /\ From6
From1 == s1 = None /\ s2 = None /\ s3 = None /\ s4 = None /\ From5

keyVars == <<vars, attestVars>>
ownVars == <<keyVars, edgeVars>>
after9 == <<s10, s11>>
after5 == <<s6, s7, s8, s9, after9>>
after4 == <<s5, after5>>
partVars == <<s1, s2, s3, s4, after4>>
mcVars == <<component, ownVars, partVars>>

-----------------------------------------------------------------------------
(* The edge.  A batch of an event with and one without a type, one that    *)
(* does not decode and an empty one; the second tenant's app is registered *)
(* late, and one caller names another tenant's app.                        *)

EdgeApps == {<<"t1", "a">>, <<"t2", "a">>}
EdgeKnown == {<<"t1", "a">>}
EdgeKeys == [k1 |-> Principal("t1", {<<"*">>}, FALSE), k2 |-> Principal("t2", {<<"trust", "*">>}, FALSE)]
EdgeSkew == <<0, 1>>

Nonce == Request("GetNonce", "k1", <<"t1", "a">>, Nil)
Batch == Request("SubmitTelemetry", "k1", <<"t1", "a">>, <<"ok", "unspecified">>)
Batches == {Batch} \cup {Request("SubmitTelemetry", "k2", app, <<"ok", "unspecified">>) : app \in EdgeApps}
OddBatches == {Request("SubmitTelemetry", "k1", <<"t1", "a">>, batch) : batch \in {<<>>, Nil}}
EdgeOffered == {Nonce} \cup Batches \cup OddBatches

ASSUME EdgeConstants == EdgeConstantsOK

\* The edge in four shapes, since all of it at once is out of reach: nonces and
\* batches on two replicas, batches of both tenants on one, and two batches of
\* any kind while Redis or the registry fails.
EdgeMoves(replicas, created, offered, most, last, failing) ==
    \/ now < last /\ EdgeTick
    \/ \E a \in created : CreateApp(a)
    \/ requests < most /\ \E c \in Slots, r \in replicas, q \in offered : Arrive(c, r, q)
    \/ (\E c \in Slots : Step(c)) /\ (failing \/ NoEdgeFault)

-----------------------------------------------------------------------------
(* The monitors.  Three cohorts of two tenants compete for a shard of two. *)

F == INSTANCE Fleet WITH
        epoch <- s1, lru <- s2, scope <- s3, late <- s4, snap <- s5, waiting <- s6, seen <- s7,
        folded <- s8, observed <- s9, verdict <- s10,
        Cohorts <- {<<1, 1>>, <<1, 2>>, <<2, 1>>}, Buckets <- 2, PerShard <- 2, MinSamples <- 1,
        ColdVolume <- 3, MinVolume <- 2, TTL <- 2, MaxEpoch <- 3, MaxObserved <- 3, MaxReaders <- 1

\* Readers of the snapshot come while no call waits and at most one was made: what
\* they read does not depend on the snapshot that was published before.
ReadersApart ==
    /\ s4' # None => s5 = None /\ s6 = 0
    /\ s5' # None \/ s6' # 0 => s9' <= 1

G == INSTANCE Guardrails WITH
        epoch <- s1, scopes <- s2, alerts <- s3, recorded <- s4,
        Scopes <- {"s"}, BucketCount <- 2, Threshold <- <<1, 2>>, MinSamples <- 1, MaxEpoch <- 5, MaxRecords <- 3

-----------------------------------------------------------------------------
(* The keys.  k3 is a key this server cannot read.  A genuine Play token,  *)
(* one that binds nothing and reports every weakness, an App Attest        *)
(* statement for another nonce, and a platform without a verifier.         *)

PlayToken(kid, nonce, app, recognition, labels, licensing) ==
    [platform |-> "android", kid |-> kid, nonce |-> nonce, app |-> app,
     recognition |-> recognition, device |-> labels, licensing |-> licensing]

AttestTokens ==
    {PlayToken("k1", "issued", "expected", "PLAY_RECOGNIZED", {"MEETS_STRONG_INTEGRITY"}, "LICENSED"),
     PlayToken("k2", Absent, Absent, "UNRECOGNIZED_VERSION",
               {"MEETS_BASIC_INTEGRITY", "MEETS_VIRTUAL_INTEGRITY"}, "UNLICENSED"),
     [platform |-> "ios", decodes |-> TRUE, root |-> "apple", nonce |-> "other", app |-> "expected",
      authData |-> "attested", aaguid |-> "appattest", credential |-> 1, key |-> 1],
     [platform |-> "other"]}

ASSUME AttestConstants == AttestConstantsOK

\* The row of a tenant that has chosen nothing.
PlainRow == [cmk |-> None, dedicated |-> FALSE]

-----------------------------------------------------------------------------
(* The command line.  The pack as it is, as another client wrote it (long  *)
(* names and a rule of its own), with two spellings of a level and of a    *)
(* weight's key, without a mode, malformed, without thresholds, and with   *)
(* values that are no numbers.                                             *)

\* Two processes of the command line, which no command tells apart.
Terminals == {p1, p2}
Symmetry == Permutations(Terminals)

R == INSTANCE Risk WITH MaxScore <- 1000

Weight(signal, spelling, w) == <<signal, spelling>> :> w
Named(level, spelling, score) == <<level, spelling>> :> score

Pack ==
    [name |-> "n", mode |-> "BLOCK", form |-> "object", rules |-> {},
     weights |-> Weight("Debugger", "digits", 60) @@ Weight("bit63", "digits", 5),
     thresholds |-> Named(R!CRITICAL, "short", 100) @@ Named(R!HIGH_RISK, "short", 50), modules |-> {"rasp"}]
PackElsewhere ==
    [Pack EXCEPT !.thresholds = Named(R!CRITICAL, "long", 100) @@ Named(R!HIGH_RISK, "long", 50),
                 !.rules = {<<"r", None>>, <<"s", "STEP_UP">>}]
PackLoose ==
    [name |-> "n", mode |-> "UNSPECIFIED", form |-> "array", weights |-> [s \in {} |-> 0], rules |-> {<<"r", "BLOCK">>},
     thresholds |-> Named(R!HIGH_RISK, "lower", 1) @@ Named(R!CRITICAL, "long", 60), modules |-> {}]

PolicyConsole ==
    "t1" :> {PackElsewhere, PackLoose, [Pack EXCEPT !.form = "malformed"],
             [Pack EXCEPT !.form = "untyped", !.thresholds = None],
             [Pack EXCEPT !.thresholds = Named(R!HIGH_RISK, "long", 20) @@ @, !.weights = Weight("Debugger", "prefix", 0) @@ @],
             [Pack EXCEPT !.thresholds = Named(R!MEDIUM_RISK, "long", None) @@ @, !.weights = Weight("AppTamper", "digits", None) @@ @]}
    @@ "t2" :> {}

Bulk(raw, app, activate, force, dry) ==
    [op |-> "bulk", doc |-> Pack, raw |-> raw, app |-> app, activate |-> activate, force |-> force, dry |-> dry]
Single(op, doc, activate, dry) ==
    [op |-> op, doc |-> doc, raw |-> <<"t1">>, app |-> NoApp, activate |-> activate, force |-> FALSE, dry |-> dry]
Twice == <<"t1", None, "t2", "t1">>

PolicyCommands ==
    {Bulk(Twice, "app", TRUE, FALSE, FALSE), Bulk(Twice, NoApp, TRUE, TRUE, FALSE), Bulk(Twice, NoApp, TRUE, FALSE, TRUE),
     Bulk(<<None>>, NoApp, TRUE, FALSE, FALSE), Bulk(<<"t2", "t1">>, NoApp, FALSE, FALSE, FALSE),
     Single("apply", Pack, TRUE, FALSE), Single("apply", Pack, FALSE, TRUE), Single("diff", Pack, FALSE, FALSE),
     Single("author", PackElsewhere, FALSE, FALSE), Single("author", PackLoose, FALSE, FALSE),
     Single("author", [PackElsewhere EXCEPT !.rules = {<<"r", "other">>}], FALSE, FALSE),
     Single("author", [PackElsewhere EXCEPT !.weights = Weight("Debugger", "prefix", 60)], FALSE, FALSE),
     Single("author", PackElsewhere, FALSE, TRUE), Single("activate", Pack, FALSE, FALSE)}

P == INSTANCE PolicyCli WITH
        policies <- s1, active <- s2, proc <- s3, faults <- s4,
        MaxScore <- 1000, Tenants <- {"t1", "t2"}, Apps <- {"app"}, Procs <- Terminals,
        Commands <- PolicyCommands, Console <- PolicyConsole, MaxFaults <- 1,
        BitSets <- {{}, {"Debugger"}, {"Debugger", "AppTamper"}, {"AttestationFail", "AppTamper"}}

\* A command of every shape of the catalogue, complete and lacking something,
\* and the flags that change what a command does.
Names == INSTANCE CliSession WITH file <- s1, env <- s2, proc <- s3, served <- s4, Procs <- {}, Envs <- {}, Runs <- {}

Flags == [profile |-> "", tenant |-> "", dry |-> FALSE, strict |-> FALSE, use |-> FALSE, lacks |-> {}]
Lacking(what) == [Flags EXCEPT !.tenant = "t1", !.lacks = {what}]
Line(cmd, name, flags) == [cmd |-> cmd, name |-> name, flags |-> flags]
ConfigEdits == {"set_profile", "init", "use", "remove"}
Shapes == {CHOOSE cmd \in DOMAIN Names!Catalogue : Names!Catalogue[cmd] = Names!Catalogue[shown] :
              shown \in DOMAIN Names!Catalogue \ ConfigEdits}

CliRuns ==
    {Line(cmd, "", Flags) : cmd \in Shapes}
    \cup {Line("set_profile", "p", Flags), Line("set_profile", "", Lacking("flags")),
          Line("set_profile", "q", [Flags EXCEPT !.profile = "default", !.tenant = "t2", !.dry = TRUE, !.use = TRUE]),
          Line("init", "p", [Flags EXCEPT !.use = TRUE]), Line("init", "q", [Flags EXCEPT !.dry = TRUE, !.use = TRUE]),
          Line("use", "p", Flags), Line("use", "q", Flags), Line("use", "p", Lacking("parse")),
          Line("remove", "p", Flags), Line("remove", "q", [Flags EXCEPT !.profile = "q"]),
          Line("app_create", "", [Flags EXCEPT !.dry = TRUE]), Line("app_create", "", Lacking("flags")),
          Line("policy_activate", "", Lacking("arg")), Line("policy_validate", "", Lacking("flags")),
          Line("tenant_create", "", [Flags EXCEPT !.profile = "default"]),
          Line("doctor", "", [Flags EXCEPT !.strict = TRUE]),
          Line("doctor", "", [Flags EXCEPT !.profile = "default", !.strict = TRUE])}

C == INSTANCE CliSession WITH
        file <- s1, env <- s2, proc <- s3, served <- s4, Procs <- Terminals, Runs <- CliRuns,
        Envs <- {[profile |-> "", tenant |-> "", keys |-> {"p"}],
                 [profile |-> "q", tenant |-> "t9", keys |-> {"default"}]}

T == INSTANCE CliEvents WITH
        stored <- s1, arrived <- s2, seen <- s3, printed <- s4, tail <- s5, shown <- s6, bits <- s7,
        cursor <- s8, collector <- s9, had <- s10, faults <- s11,
        Ids <- {1, 2, 3, 4}, Times <- {1, 2}, PageSize <- 2, MaxSeen <- 2, ServerPage <- 2, MaxEvents <- 3, MaxFaults <- 1

-----------------------------------------------------------------------------
(* The release tools.  Documents of up to five lines of every kind; items  *)
(* that share a store type and differ in what they say of it.              *)

RowOf(cells) == [kind |-> "row", cells |-> cells]

Headings == INSTANCE ReleaseEvidence WITH
        masvs <- s1, mastg <- s2, document <- s3, report <- s4, outcome <- s5,
        Lines <- {}, MaxLines <- 0, Manifests <- {}, Evidences <- {}

Proof(schema, platform, hardened) ==
    [schema |-> schema, platform |-> platform, seed |-> FALSE, slices |-> FALSE, hash |-> TRUE,
     transforms |-> IF hardened THEN "native-library-harden" :> "skipped" ELSE <<>>]

V == INSTANCE ReleaseEvidence WITH
        masvs <- s1, mastg <- s2, document <- s3, report <- s4, outcome <- s5, MaxLines <- 5,
        Lines <- {[kind |-> "category", name |-> "CODE"]}
                 \cup {[kind |-> k] : k \in {"heading", "objective", "text", "blank"}}
                 \cup {RowOf(Headings!Columns), RowOf(<<"-", "-", "-", "-">>), RowOf(<<"Native", "ctl", "mod">>),
                       RowOf(<<"objective", "mastg", "module", "control">>), RowOf(<<"control", "objective", "module", "mastg">>)}
                 \cup {RowOf(<<o[1], "ctl", "mod", o[2]>>) :
                          o \in {<<"Provenance", "MASTG">>, <<"Obfuscation", "Server">>, <<"Native", "MASTG">>}},
        Manifests <- {Proof("android", "", TRUE), Proof("ios", "", FALSE), Proof("ios", "tvos", TRUE), Proof("other", "", TRUE)},
        Evidences <- {<<>>, <<[match |-> "CODE", status |-> "pass"], [match |-> "Native", status |-> "fail"]>>}

\* Documents with an unusual header have four lines and no tool runs on them; the
\* tools run on three lines at most with a proof other than the Android one.
FromAndroid(file) == file.written => file.manifest.schema = "android"
ToolsApart ==
    /\ \/ s3'.headers \subseteq {RowOf(Headings!Columns)}
       \/ s3'.lines <= 4 /\ s4' = Headings!NoFile /\ s5' = Headings!NotRun
    /\ s3'.lines > 3 => FromAndroid(s4') /\ (s5' # Headings!NotRun => FromAndroid(s5'.report))

Item(id, f, onIos, onAndroid, optional, default, linked) ==
    [id |-> id, name |-> id, fields |-> {f}, personal |-> TRUE, linked |-> linked, tracking |-> FALSE,
     optional |-> optional, default |-> default, ios |-> onIos, android |-> onAndroid]
OnIos(type) == [type |-> type, purposes |-> {type}]
OnAndroid(type) == [category |-> "c", type |-> type, purposes |-> {type}]

\* Three items with a field each, an item twice, and a field twice.
Entries == {<<"a", "f">>, <<"b", "g">>, <<"c", "h">>, <<"a", "g">>, <<"b", "f">>}

ContractItems ==
    UNION {{Item(e[1], e[2], OnIos("t"), OnAndroid("t"), FALSE, TRUE, TRUE), Item(e[1], e[2], OnIos("t"), OnAndroid("u"), TRUE, FALSE, FALSE),
            Item(e[1], e[2], OnIos("u"), None, TRUE, TRUE, FALSE), Item(e[1], e[2], None, OnAndroid("t"), TRUE, TRUE, FALSE)} :
               e \in Entries}
    \cup {Item("d", "f", None, None, FALSE, TRUE, FALSE),
          [Item("d", "k", OnIos(None), None, FALSE, TRUE, FALSE) EXCEPT !.personal = FALSE]}

D == INSTANCE StoreDisclosure WITH
        collected <- s1, include <- s2, ios <- s3, play <- s4, Items <- ContractItems, MaxItems <- 3

-----------------------------------------------------------------------------
MCInit ==
    /\ Init /\ AttestInit /\ EdgeInit
    /\ \/ component \in {"sealing", "attestation", "limiter", "quota", "edge", "batches"} /\ From1
       \/ component = "fleet" /\ F!Init /\ s11 = None
       \/ component = "guardrails" /\ G!Init /\ From5
       \/ component = "policy" /\ P!Init /\ From5
       \/ component = "cli" /\ C!Init /\ From5
       \/ component = "events" /\ T!Init
       \/ component = "evidence" /\ V!Init /\ From6
       \/ component = "disclosure" /\ D!Init /\ From5
    /\ component = "sealing" \/ (row = [t \in Tenants |-> PlainRow] /\ tiers = {})

MCNext ==
    /\ UNCHANGED component
    /\ \/ component = "sealing" /\ Next /\ UNCHANGED <<attestVars, edgeVars, partVars>>
       \/ component = "attestation" /\ AttestNext /\ UNCHANGED <<vars, edgeVars, partVars>>
       \/ component = "limiter" /\ EdgeMoves(Replicas, {}, {Nonce}, 4, 2, TRUE) /\ UNCHANGED <<keyVars, partVars>>
       \/ component = "quota" /\ EdgeMoves(Replicas, {}, {Batch}, 2, 3, FALSE) /\ UNCHANGED <<keyVars, partVars>>
       \/ component = "edge" /\ EdgeMoves({1}, Apps, Batches, 3, 1, FALSE) /\ UNCHANGED <<keyVars, partVars>>
       \/ component = "batches" /\ EdgeMoves({1}, Apps, Batches \cup OddBatches, 2, 1, TRUE) /\ UNCHANGED <<keyVars, partVars>>
       \/ component = "fleet" /\ F!Next /\ ReadersApart /\ UNCHANGED <<ownVars, s11>>
       \/ component = "guardrails" /\ G!Next /\ UNCHANGED <<ownVars, after4>>
       \/ component = "policy" /\ P!Next /\ UNCHANGED <<ownVars, after4>>
       \/ component = "cli" /\ C!Next /\ UNCHANGED <<ownVars, after4>>
       \/ component = "events" /\ T!Next /\ UNCHANGED ownVars
       \/ component = "evidence" /\ V!Next /\ ToolsApart /\ UNCHANGED <<ownVars, after5>>
       \/ component = "disclosure" /\ D!Next /\ UNCHANGED <<ownVars, after4>>

MCSpec == MCInit /\ [][MCNext]_mcVars

-----------------------------------------------------------------------------
\* The windows that anomalies and rollbacks are judged by count the trailing
\* window exactly, and a baseline is learned only from what has left it
\* (observe, fold, assessLocked, Sample); a tenant is shown its own cohorts.
WindowsExact ==
    /\ component = "fleet" => F!WindowExact /\ F!BaselineIsPast /\ F!TenantSeesItsOwn
    /\ component = "guardrails" => G!SampleExact

\* A bulk-apply has one result for every tenant selected, and it says what was
\* done (bulk-apply, bulkApplyOne).
ResultsTrue == component = "policy" => P!OneResultEach /\ P!ResultsTrue

\* What is enforced is what was written: an applied version differs from the pack
\* in nothing, and a simulation and a device decide as the trust service does
\* (diffPolicy, specFromPolicy, buildPolicyConfig).
EnforcedAsWritten == component = "policy" => P!AppliedMatchesPack /\ P!BaselineIsEnforced /\ P!ServedIsEnforced

\* The configuration file is always usable, and an exit code tells the effect of
\* the command and what a report says (Save, exitCode, doctor).
SessionSound == component = "cli" => C!ConfigUsable /\ C!ExitTellsEffect /\ C!VerdictMatchesReport

\* A tail prints an event once, and a replay is bounded and takes no event twice
\* (pollOnce, collectRiskBits).
EventsOnce == component = "events" => T!PrintedOnce /\ T!ReplayExact

\* A release that is not blocked rests on evidence, read alike by both tools and
\* none of it lost, and no store's disclosure is dropped or weakened
\* (ParseCatalog, Overlay, mastg run, validate, Generate).
ReleaseToolsHonest ==
    /\ component = "evidence" => V!CatalogsAgree /\ V!GateSound /\ V!EvidenceSurfaces
    /\ component = "disclosure" => D!NothingUndisclosed /\ D!MergedAsAWhole
=============================================================================
