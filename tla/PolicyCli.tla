------------------------------ MODULE PolicyCli ------------------------------
(***************************************************************************)
(* The policy commands of the CLI (cmd/kseal-cli/internal/cli/policy.go,   *)
(* policy_pack.go, packs.go, policyspec.go) against the registry: authoring*)
(* and activating a version, previewing and applying a vertical pack, the  *)
(* batched bulk-apply, and the scoring tables of policy simulate beside    *)
(* the ones the trust service enforces (data-plane/trust/service.go) and   *)
(* the ones the config service serves (data-plane/config/service.go).      *)
(*                                                                         *)
(* Each process runs one command.  Between its calls other processes act,  *)
(* a call may fail, and its reply may be lost after it took effect.        *)
(*                                                                         *)
(* A policy document is [name, mode, form, weights, rules, thresholds,     *)
(* modules].  form is the shape of the rules text: an object, one whose    *)
(* rules are not of their type ("untyped"), an array, or no JSON           *)
(* ("malformed").  thresholds is None when its text is no map, otherwise a *)
(* function of names <<level, spelling>>.  A weight key is <<signal,       *)
(* spelling>>: "digits" of its bit index, a "prefix" of digits before      *)
(* something else, or neither; the signal is "bit64" for an index out of   *)
(* range.  A value that is no number is None.  A rule is <<name, action>>. *)
(***************************************************************************)
EXTENDS Risk, Sequences

CONSTANTS
    None,           \* no policy, no answer
    Tenants,
    NoApp, Apps,    \* the tenant-wide scope, and application scopes
    Procs,
    Commands,       \* [op, doc, raw, app, activate, force, dry]: op is bulk,
                    \* apply, diff, author or activate; doc the pack or file
    Console,        \* Console[t]: documents another client may have put in force
    BitSets,        \* recorded risk bitsets
    MaxFaults

VARIABLES
    policies,   \* policies[t]: versions in order, [doc, app, by]
    active,     \* active[t][scope]: index of the version in force, or None
    proc,       \* proc[c]: [cmd, step, todo, id, results, exit]
    faults

vars == <<policies, active, proc, faults>>

Scopes == Apps \cup {NoApp}

----------------------------------------------------------------------------
(* Reading a document.                                                     *)

validLevelNames(name) == name[2] \in {"short", "long"}

levelByName(name) == IF validLevelNames(name) THEN name[1] ELSE UNSPECIFIED

\* The table risk.Level works on: two spellings of a level both count, so the
\* lower minimum decides.
Tabled(th) ==
    [l \in {levelByName(n) : n \in DOMAIN th} |->
        Min({th[n] : n \in {m \in DOMAIN th : levelByName(m) = l}})]

NoWeights == [s \in {} |-> 0]
NoThresholds == [n \in {} |-> 0]

parseEnforcementMode(mode) == mode \in EnforcementModes

\* The weights a text holds: the array form has no place for them.
WeightsOf(doc) == IF doc.form \in {"object", "untyped"} THEN doc.weights ELSE NoWeights

\* json.Unmarshal reports a value that is no number, and stores a zero for it.
Decodes(table) == \A k \in DOMAIN table : table[k] # None
Decoded(table) == [k \in DOMAIN table |-> IF table[k] = None THEN 0 ELSE table[k]]

\* Both the object and the bare array form parse.
parsePolicyDoc(doc) == doc.form \in {"object", "array"} /\ Decodes(WeightsOf(doc))

thresholds(doc) == IF doc.thresholds = None THEN None ELSE IF Decodes(doc.thresholds) THEN doc.thresholds ELSE None

ParseUint(key) == key[2] = "digits"

Validate(doc) ==
    /\ doc.name # ""
    /\ parseEnforcementMode(doc.mode)
    /\ parsePolicyDoc(doc)
    /\ \A r \in doc.rules : r[2] = None \/ parseEnforcementMode(r[2])
    /\ \A k \in DOMAIN WeightsOf(doc) : ParseUint(k) /\ k[1] # "bit64"
    /\ thresholds(doc) # None /\ \A n \in DOMAIN doc.thresholds : validLevelNames(n)

\* The weights by bit, of the keys that are a number.
ByUint(weights) == [s \in {k[1] : k \in {j \in DOMAIN weights : ParseUint(j)}} |-> weights[<<s, "digits">>]]

scoringTables(doc) ==
    IF ~parsePolicyDoc(doc) \/ thresholds(doc) = None THEN None
    ELSE [weights |-> LET w == ByUint(WeightsOf(doc)) IN [s \in DOMAIN w \ {"bit64"} |-> w[s]],
          thresholds |-> thresholds(doc)]

\* Mutant: the stored mode is parsed again, and an unknown one falls back.
specFromPolicyReparsed(doc) ==
    LET tables == scoringTables(doc)
    IN  IF tables = None THEN None
        ELSE [weights |-> tables.weights, thresholds |-> tables.thresholds,
              mode |-> IF parseEnforcementMode(doc.mode) THEN doc.mode ELSE "OBSERVE"]

\* The scoring spec of a stored policy; its mode is taken as it is.
specFromPolicy(doc) ==
    LET tables == scoringTables(doc)
    IN  IF tables = None THEN None
        ELSE [weights |-> tables.weights, thresholds |-> tables.thresholds,
              mode |-> doc.mode]

specDecide(spec, bits) ==
    Decision(Level(Score(bits, spec.weights), Tabled(spec.thresholds)), spec.mode)

\* The trust service's own reading of the policy in force: a table with a value
\* that is no number is dropped as a whole; the rules are not looked at.
parseThresholds(doc) == IF thresholds(doc) = None THEN NoThresholds ELSE doc.thresholds
parseWeights(doc) == IF Decodes(WeightsOf(doc)) THEN ByUint(WeightsOf(doc)) ELSE NoWeights

Enforced(doc, bits) ==
    Decision(Level(Score(bits, parseWeights(doc)), Tabled(parseThresholds(doc))), doc.mode)

\* The config service reads the rules text as an object, else as a bare array of
\* rules, and keeps what could be decoded when it is neither.
configPolicyDoc(doc) ==
    [rules |-> IF doc.form = "malformed" THEN {} ELSE doc.rules, weights |-> Decoded(WeightsOf(doc))]

\* Sscanf is content with the digits that a key begins with.  Go visits the map in
\* any order: of two keys of a bit the last visited stays.
Sscanf(weights) ==
    LET keys == {k \in DOMAIN weights : k[2] \in {"digits", "prefix"}}
        bits == {k[1] : k \in keys}
    IN  {f \in [bits -> {weights[k] : k \in keys}] : \A b \in bits : \E k \in keys : k[1] = b /\ f[b] = weights[k]}

\* A rule's own action, or the policy's mode if it names none.
parseMode(action, fallback) == IF action \in EnforcementModes THEN action ELSE fallback

\* The policy parts that a device's config can have: of a table with a value that
\* is no number the rest is served, and a zero for it.
buildPolicyConfig(doc) ==
    LET parsed == configPolicyDoc(doc)
    IN  {[rules |-> {[id |-> r[1], action |-> parseMode(r[2], doc.mode)] : r \in parsed.rules},
          thresholds |-> IF doc.thresholds = None THEN NoThresholds ELSE Decoded(doc.thresholds),
          weights |-> weights, mode |-> doc.mode] : weights \in Sscanf(parsed.weights)}

----------------------------------------------------------------------------
(* Packs and diffs.                                                        *)

canonLevel(name) == name[1]

\* Go visits the map in any order: of two spellings the last visited stays.
canonThresholds(th) ==
    LET levels == {canonLevel(n) : n \in DOMAIN th}
    IN  {f \in [levels -> {th[n] : n \in DOMAIN th}] :
            \A l \in levels : \E n \in DOMAIN th : canonLevel(n) = l /\ f[l] = th[n]}

\* The possible shapes of a stored policy; none if it does not parse.
shapeFromPolicy(doc) ==
    LET spec == specFromPolicy(doc)
    IN  IF spec = None THEN {}
        ELSE {[mode |-> spec.mode, thresholds |-> th, weights |-> spec.weights,
               modules |-> doc.modules] : th \in canonThresholds(spec.thresholds)}

EmptyShape == [mode |-> "OBSERVE", thresholds |-> NoThresholds,
               weights |-> NoWeights, modules |-> {}]

\* A pack is a valid document without rules; its text is composed on apply.
shape(pack) == [mode |-> pack.mode, weights |-> ByUint(pack.weights), modules |-> pack.modules,
                thresholds |-> CHOOSE f \in canonThresholds(pack.thresholds) : TRUE]

toPolicyFile(pack) == [pack EXCEPT !.form = "object", !.rules = {}]

Opt(f, k) == IF k \in DOMAIN f THEN {f[k]} ELSE {}

diffPolicy(current, candidate) ==
    {<<"enforcement_mode">> : x \in {1} \cap IF current.mode # candidate.mode THEN {1} ELSE {}}
    \cup {<<"risk_thresholds", l>> :
            l \in {k \in TrustLevels : Opt(current.thresholds, k) # Opt(candidate.thresholds, k)}}
    \cup {<<"signal_weights", s>> :
            s \in {k \in DOMAIN current.weights \cup DOMAIN candidate.weights :
                      Opt(current.weights, k) # Opt(candidate.weights, k)}}
    \cup {<<"modules_enabled.-", m>> : m \in current.modules \ candidate.modules}
    \cup {<<"modules_enabled.+", m>> : m \in candidate.modules \ current.modules}

HasChanges(diff) == diff # {}

----------------------------------------------------------------------------
(* The registry, as the commands use it (see Registry for all of it).      *)

\* An application without a policy of its own has the tenant-wide one.
GetActivePolicy(t, app) ==
    LET scope == IF active[t][app] # None THEN app ELSE NoApp
    IN  IF active[t][scope] = None THEN None ELSE policies[t][active[t][scope]].doc

CreatePolicy(c, t) ==
    policies' = [policies EXCEPT ![t] = Append(@, [app |-> proc[c].cmd.app, by |-> c,
        doc |-> IF proc[c].cmd.op = "author" THEN proc[c].cmd.doc ELSE toPolicyFile(proc[c].cmd.doc)])]

ActivatePolicy(t, id) ==
    active' = [active EXCEPT ![t][policies[t][id].app] = id]

----------------------------------------------------------------------------
(* Commands.                                                               *)

\* The selected tenants, blanks and comments (None) dropped, each once, in
\* the order of their first mention.
resolveTenantSelection(raw) ==
    LET first == {i \in DOMAIN raw : raw[i] # None /\ \A j \in 1 .. i - 1 : raw[j] # raw[i]}
    IN  [k \in 1 .. Cardinality(first) |->
            raw[CHOOSE i \in first : Cardinality({j \in first : j <= i}) = k]]

Init ==
    /\ \E start \in [Tenants -> {<<>>} \cup {<<[doc |-> d, app |-> NoApp, by |-> None]>> :
                                            d \in UNION {Console[t] : t \in Tenants}}] :
          /\ \A t \in Tenants : start[t] # <<>> => start[t][1].doc \in Console[t]
          /\ policies = start
          /\ active = [t \in Tenants |-> [s \in Scopes |->
                          IF s = NoApp /\ start[t] # <<>> THEN 1 ELSE None]]
    /\ proc = [c \in Procs |-> [cmd |-> None, step |-> "idle", todo |-> <<>>, id |-> None,
                                results |-> <<>>, exit |-> None]]
    /\ faults = 0

Fault == faults < MaxFaults /\ faults' = faults + 1

\* The command ends, with the class of its exit code.
Exit(c, p, code) == proc' = [proc EXCEPT ![c] = [p EXCEPT !.step = "done", !.exit = code]]

\* A tenant is finished.  bulk-apply goes on with the next one whatever the
\* outcome and exits 0; the others exit with theirs.
Report(c, status, id) ==
    LET p == proc[c]
        q == [p EXCEPT !.results = Append(@, [tenant |-> Head(p.todo), status |-> status,
                                              id |-> id]),
                       !.todo = Tail(@), !.id = None]
    IN  IF p.cmd.op = "bulk" /\ Len(p.todo) > 1
        THEN proc' = [proc EXCEPT ![c] = [q EXCEPT !.step = "diff"]]
        ELSE Exit(c, q, IF p.cmd.op # "bulk" /\ status = "error" THEN "error" ELSE "ok")

\* Arguments are checked before any call.  Only apply and author skip the
\* diff, and author --dry-run calls nothing.
Start(c, cmd) ==
    LET todo == resolveTenantSelection(cmd.raw)
        p == [proc[c] EXCEPT !.cmd = cmd, !.todo = todo,
                             !.id = IF cmd.op = "activate" THEN 1 ELSE None]
    IN  /\ proc[c].step = "idle"
        /\ IF todo = <<>> \/ (cmd.op \in {"author", "apply"} /\ ~Validate(cmd.doc))
           THEN Exit(c, p, "usage")
           ELSE IF cmd.op \in {"author", "activate"} /\ cmd.dry THEN Exit(c, p, "ok")
           ELSE proc' = [proc EXCEPT ![c] = [p EXCEPT !.step =
                    IF cmd.op = "activate" THEN "activate"
                    ELSE IF cmd.op = "author" \/ (cmd.op = "apply" /\ ~cmd.dry) THEN "create"
                    ELSE "diff"]]
        /\ UNCHANGED <<policies, active, faults>>

\* Mutant: --dry-run is honoured only where nothing changes.
bulkApplyOneEager(c, changed) ==
    LET cmd == proc[c].cmd
    IN  IF ~cmd.force /\ ~changed THEN Report(c, "unchanged", None)
        ELSE IF cmd.dry /\ ~changed THEN Report(c, "would-apply", None)
        ELSE IF ~Validate(toPolicyFile(cmd.doc)) THEN Report(c, "error", None)
        ELSE proc' = [proc EXCEPT ![c].step = "create"]

\* What bulk-apply does with a tenant once it knows whether the pack changes it.
bulkApplyOne(c, changed) ==
    LET cmd == proc[c].cmd
    IN  IF ~cmd.force /\ ~changed THEN Report(c, "unchanged", None)
        ELSE IF cmd.dry THEN Report(c, "would-apply", None)
        ELSE IF ~Validate(toPolicyFile(cmd.doc)) THEN Report(c, "error", None)
        ELSE proc' = [proc EXCEPT ![c].step = "create"]

\* GetActivePolicy and the diff; an unreadable active policy is an error.
packDiff(c) ==
    /\ proc[c].step = "diff"
    /\ LET cmd == proc[c].cmd
           doc == GetActivePolicy(Head(proc[c].todo), cmd.app)
           shapes == IF doc = None THEN {EmptyShape} ELSE shapeFromPolicy(doc)
       IN  \/ Fault /\ Report(c, "error", None)
           \/ shapes = {} /\ Report(c, "error", None) /\ UNCHANGED faults
           \/ \E current \in shapes :
                /\ IF cmd.op = "bulk"
                   THEN bulkApplyOne(c, HasChanges(diffPolicy(current, shape(cmd.doc))))
                   ELSE Report(c, "diff", None)
                /\ UNCHANGED faults
    /\ UNCHANGED <<policies, active>>

\* The call fails, or takes effect; then its reply is lost or comes back.
CreateStep(c) ==
    /\ proc[c].step = "create"
    /\ LET t == Head(proc[c].todo)
           id == Len(policies[t]) + 1
       IN  \/ Fault /\ Report(c, "error", None) /\ UNCHANGED policies
           \/ Fault /\ Report(c, "error", None) /\ CreatePolicy(c, t)
           \/ /\ CreatePolicy(c, t) /\ UNCHANGED faults
              /\ IF proc[c].cmd.activate
                 THEN proc' = [proc EXCEPT ![c].step = "activate", ![c].id = id]
                 ELSE Report(c, "applied", id)
    /\ UNCHANGED active

ActivateStep(c) ==
    /\ proc[c].step = "activate"
    /\ LET t == Head(proc[c].todo)
       IN  \/ Fault /\ Report(c, "error", proc[c].id) /\ UNCHANGED active
           \/ proc[c].id \notin DOMAIN policies[t] /\ Report(c, "error", proc[c].id) /\ UNCHANGED <<active, faults>>
           \/ /\ proc[c].id \in DOMAIN policies[t] /\ ActivatePolicy(t, proc[c].id)
              /\ \/ Fault /\ Report(c, "error", proc[c].id)
                 \/ Report(c, "activated", proc[c].id) /\ UNCHANGED faults
    /\ UNCHANGED policies

Next ==
    \E c \in Procs :
        \/ \E cmd \in Commands : Start(c, cmd)
        \/ packDiff(c) \/ CreateStep(c) \/ ActivateStep(c)

Spec == Init /\ [][Next]_vars

----------------------------------------------------------------------------
(* Properties.                                                             *)

\* "Each tenant is processed independently so one failure never aborts the
\* batch" (policy_pack.go, bulk-apply): a finished bulk-apply has one result
\* for every tenant selected, however often it was named, and no other.
OneResultEach ==
    \A c \in Procs :
        LET results == proc[c].results
        IN  proc[c].step = "done" /\ proc[c].exit # "usage" /\ proc[c].cmd.op = "bulk" =>
            /\ {results[i].tenant : i \in DOMAIN results}
                 = {proc[c].cmd.raw[i] : i \in DOMAIN proc[c].cmd.raw} \ {None}
            /\ Len(results) = Cardinality({results[i].tenant : i \in DOMAIN results})

By(c, t) == {i \in DOMAIN policies[t] : policies[t][i].by = c}

\* What a command reports of a tenant is what it did there, although others
\* write between its calls and replies get lost: an applied version is its
\* own, one it reports unchanged or only planned has none of its versions,
\* a dry run creates nothing, and nothing is created twice.
ResultsTrue ==
    \A c \in Procs : \A i \in DOMAIN proc[c].results :
        LET r == proc[c].results[i]
        IN  /\ r.status \in {"unchanged", "would-apply", "diff"} => By(c, r.tenant) = {}
            /\ r.status = "applied" => By(c, r.tenant) = {r.id}
            /\ r.status = "activated" /\ proc[c].cmd.op # "activate" => By(c, r.tenant) = {r.id}
            /\ Cardinality(By(c, r.tenant)) <= IF proc[c].cmd.dry THEN 0 ELSE 1

\* bulk-apply is idempotent: a version a pack command created differs from
\* the pack in nothing, so once it is in force the next batch skips it.
AppliedMatchesPack ==
    \A t \in Tenants : \A i \in DOMAIN policies[t] :
        LET p == policies[t][i]
        IN  p.by # None /\ proc[p.by].cmd.op # "author" =>
                /\ shapeFromPolicy(p.doc) # {}
                /\ \A s \in shapeFromPolicy(p.doc) : ~HasChanges(diffPolicy(s, shape(proc[p.by].cmd.doc)))

\* The documents in force for some tenant and scope.
InForce == {GetActivePolicy(t, app) : t \in Tenants, app \in Scopes} \ {None}

\* policy simulate "reuses the server's authoritative risk scoring so results
\* match production enforcement" (policy.go): the decision it computes under
\* a policy in force is the one the trust service takes, whoever wrote it.
BaselineIsEnforced ==
    \A doc \in InForce : specFromPolicy(doc) # None =>
        \A bits \in BitSets : specDecide(specFromPolicy(doc), bits) = Enforced(doc, bits)

\* A text that the services read alike: every value is a number, and no key is one
\* that only Sscanf takes.
ReadAlike(doc) ==
    /\ Decodes(WeightsOf(doc)) /\ \A k \in DOMAIN WeightsOf(doc) : k[2] # "prefix"
    /\ doc.thresholds = None \/ thresholds(doc) # None

\* A device and the server judge alike: the weights, thresholds and mode the
\* config service serves for a policy in force lead to the decision the trust
\* service takes with its own reading of the same text, in every form clients have
\* written it, except where a value is no number or a key only begins with one,
\* which the two parsers read differently.  No version that this CLI wrote is such
\* an exception, and no rule goes out without an action.
ServedIsEnforced ==
    /\ \A doc \in InForce : \A served \in buildPolicyConfig(doc) :
         /\ ReadAlike(doc) => \A bits \in BitSets : specDecide(served, bits) = Enforced(doc, bits)
         /\ doc.mode \in EnforcementModes => \A r \in served.rules : r.action \in EnforcementModes
    /\ \A t \in Tenants : \A i \in DOMAIN policies[t] : policies[t][i].by # None => ReadAlike(policies[t][i].doc)
=============================================================================
