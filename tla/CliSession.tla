----------------------------- MODULE CliSession ------------------------------
(***************************************************************************)
(* One run of the operator CLI (cmd/kseal-cli/internal/cli): loading the   *)
(* configuration file and resolving profile, endpoint, tenant and API key  *)
(* (root.go, config.go, client.go), the commands that rewrite that file    *)
(* (config_cmd.go, init.go), the commands that call the server (tenant.go, *)
(* app.go, build.go, policy.go, profile.go, webhook.go, events.go,         *)
(* compliance.go), doctor (doctor.go), and the exit code (errors.go).      *)
(*                                                                         *)
(* Processes run side by side on one machine and share the file; any of    *)
(* them can be killed.  The server is external: it answers with any code,  *)
(* and an error may follow a call that took effect.                        *)
(***************************************************************************)
EXTENDS Integers, Sequences, FiniteSets

CONSTANTS
    Procs,
    Envs,           \* environments: [profile, tenant, keys], keys being the
                    \* profiles whose key resolves
    Runs            \* command lines: [cmd, name, flags], flags being
                    \* [profile, tenant, dry, strict, use, lacks]

VARIABLES
    file,       \* [state, cfg]: absent, torn or whole, and [current, profiles]
    env,
    proc,       \* proc[c]: what process c has resolved and done
    served      \* served: the mutating calls that took effect, by process

vars == <<file, env, proc, served>>

Empty == [current |-> "", profiles |-> [n \in {} |-> ""]]

Put(f, k, v) == [x \in DOMAIN f \cup {k} |-> IF x = k THEN v ELSE f[x]]
Drop(f, k) == [x \in DOMAIN f \ {k} |-> f[x]]

firstNonEmpty(s) == IF \E i \in DOMAIN s : s[i] # ""
                    THEN s[CHOOSE i \in DOMAIN s : s[i] # "" /\ \A j \in 1 .. i - 1 : s[j] = ""]
                    ELSE ""

----------------------------------------------------------------------------
(* Commands.  kind: config rewrites the file, local works offline, gate    *)
(* does so and can refuse a release, read, write and capability call the   *)
(* server; doctor is annotated local and resolves the key itself.  needs:  *)
(* a positional argument, flags the command checks, a tenant, an input     *)
(* file.                                                                   *)

Command(kind, needs) == [kind |-> kind, needs |-> needs]

configCommands ==
    [set_profile |-> Command("config", {"flags"}), use |-> Command("config", {"arg"}),
     remove |-> Command("config", {"arg"}), init |-> Command("config", {}),
     current |-> Command("local", {}), profiles |-> Command("local", {})]
tenantCommands ==
    [tenant_create |-> Command("write", {"flags"}), tenant_get |-> Command("read", {"arg"}),
     tenant_list |-> Command("read", {}), tenant_update |-> Command("write", {"arg"})]
appCommands ==
    [app_create |-> Command("write", {"tenant", "flags"}), app_get |-> Command("read", {"tenant", "arg"}),
     app_list |-> Command("read", {"tenant"})]
buildCommands ==
    [build_register |-> Command("write", {"tenant", "file", "flags"}), build_get |-> Command("read", {"tenant", "arg"}),
     build_list |-> Command("read", {"tenant"}), build_masvs |-> Command("read", {"tenant", "arg"})]
profileCommands ==
    [profile_create |-> Command("write", {"tenant", "flags"}), profile_list |-> Command("read", {"tenant"})]
webhookCommands ==
    [webhook_register |-> Command("write", {"tenant", "flags"}), webhook_list |-> Command("read", {"tenant"}),
     webhook_delete |-> Command("write", {"tenant", "arg"})]
policyCommands ==
    [policy_author |-> Command("write", {"tenant", "flags", "file"}), policy_validate |-> Command("local", {"flags", "file"}),
     policy_activate |-> Command("write", {"tenant", "arg"}), policy_list |-> Command("read", {"tenant"}),
     policy_get_active |-> Command("read", {"tenant"})]
eventsCommands == [events_query |-> Command("read", {"tenant", "flags"})]
complianceCommands ==
    [privacy_manifest |-> Command("local", {"flags"}), data_safety |-> Command("local", {"flags"}),
     mastg |-> Command("gate", {"flags"}), audit_trail |-> Command("capability", {"tenant"}),
     kill_switch |-> Command("capability", {"tenant"}), dpr |-> Command("capability", {"tenant"})]
toolCommands == [doctor |-> Command("doctor", {}), man |-> Command("local", {})]

\* All but events tail and policy simulate (CliEvents) and policy pack (PolicyCli).
Catalogue ==
    LET Merge(f, g) == [x \in DOMAIN f \cup DOMAIN g |-> IF x \in DOMAIN f THEN f[x] ELSE g[x]]
    IN  Merge(configCommands, Merge(tenantCommands, Merge(appCommands, Merge(buildCommands,
        Merge(profileCommands, Merge(webhookCommands, Merge(policyCommands, Merge(eventsCommands,
        Merge(complianceCommands, toolCommands)))))))))

commandNeedsServer(cmd) == Catalogue[cmd].kind \in {"read", "write", "capability"}

\* What the command line lacks of what its command needs.
Lacks(r, need) == need \in Catalogue[r.cmd].needs \cap r.flags.lacks

----------------------------------------------------------------------------
(* Errors and exit codes.  A class is ours, a code the server's.           *)

ExitCode(err) ==
    CASE err = "none" -> 0
      [] err = "usage" -> 2
      [] err \in {"auth", "unauthenticated", "permission_denied"} -> 3
      [] err = "blocked" -> 7
      [] err = "not_found" -> 4
      [] err \in {"unavailable", "deadline_exceeded", "resource_exhausted"} -> 5
      [] err \in {"invalid_argument", "already_exists", "failed_precondition"} -> 6
      [] OTHER -> 1

\* What a server call may answer, one code per exit code, and unimplemented.
Answers == {"none", "unauthenticated", "not_found", "unavailable", "invalid_argument",
            "internal", "unimplemented"}

----------------------------------------------------------------------------
(* Starting up.                                                            *)

Idle == [run |-> [cmd |-> ""], step |-> "idle", cfg |-> Empty, profile |-> "", tenant |-> "",
         key |-> FALSE, calls |-> 0, answer |-> "none", wrote |-> FALSE, checks |-> <<>>, exit |-> 0]

Init ==
    /\ file \in {[state |-> "absent", cfg |-> Empty],
                 [state |-> "whole", cfg |-> [current |-> "p", profiles |-> [p |-> "t"]]]}
    /\ env \in Envs
    /\ proc = [c \in Procs |-> Idle]
    /\ served = {}

Exit(c, p, err) ==
    proc' = [proc EXCEPT ![c] = [p EXCEPT !.step = "done", !.exit = ExitCode(err)]]

\* A missing file is an empty configuration.
LoadConfig == IF file.state = "absent" THEN Empty ELSE file.cfg

\* Flag, then environment, then the current profile, then default, which
\* exists even unconfigured.
ResolveName(cfg, flag) == firstNonEmpty(<<flag, env.profile, cfg.current, "default">>)
Resolves(cfg, name) == name \in DOMAIN cfg.profiles \cup {"default"}
TenantOf(cfg, name) == IF name \in DOMAIN cfg.profiles THEN cfg.profiles[name] ELSE ""

resolveAPIKey(name) == name \in env.keys

\* cobra itself turns down a flag it cannot parse and a wrong number of
\* arguments, before any code of a command runs and with an error of its own.
Rejected(r) == "parse" \in r.flags.lacks \/ Lacks(r, "arg")

\* The pre-run every other command line goes through (CLI.init).
Start(c, r) ==
    /\ proc[c].step = "idle"
    /\ IF Rejected(r) THEN Exit(c, [proc[c] EXCEPT !.run = r], "cobra")
       ELSE IF file.state = "torn" THEN Exit(c, [proc[c] EXCEPT !.run = r], "parse")
       ELSE LET cfg == LoadConfig
                name == ResolveName(cfg, r.flags.profile)
                p == [proc[c] EXCEPT !.run = r, !.cfg = cfg, !.profile = name,
                        !.tenant = firstNonEmpty(<<r.flags.tenant, env.tenant, TenantOf(cfg, name)>>)]
            IN  IF ~Resolves(cfg, name) THEN Exit(c, p, "profile")
                ELSE IF commandNeedsServer(r.cmd) /\ ~resolveAPIKey(name) THEN Exit(c, p, "auth")
                ELSE proc' = [proc EXCEPT ![c] =
                        [p EXCEPT !.step = "run", !.key = commandNeedsServer(r.cmd)]]
    /\ UNCHANGED <<file, env, served>>

Kind(c) == Catalogue[proc[c].run.cmd].kind
Flags(c) == proc[c].run.flags

----------------------------------------------------------------------------
(* The configuration file.  A profile is its default tenant, "" for none.  *)

removeProfile(cfg, name) ==
    [cfg EXCEPT !.profiles = Drop(@, name), !.current = IF @ = name THEN "" ELSE @]

setProfile(cfg, name, tenant, use) ==
    [cfg EXCEPT !.profiles = Put(@, name, tenant), !.current = IF use \/ @ = "" THEN name ELSE @]

useProfile(cfg, name) == [cfg EXCEPT !.current = name]

\* The configuration a command leaves behind; it starts from its own copy.
Edited(c) ==
    LET p == proc[c]
        cmd == p.run.cmd
        kept == TenantOf(p.cfg, p.run.name)
    IN  CASE cmd = "set_profile" -> setProfile(p.cfg, p.run.name,
                 IF p.run.flags.tenant # "" THEN p.run.flags.tenant ELSE kept, p.run.flags.use)
          [] cmd = "init" -> setProfile(p.cfg, p.run.name,
                 firstNonEmpty(<<p.run.flags.tenant, kept>>), p.run.flags.use)
          [] cmd = "use" -> useProfile(p.cfg, p.run.name)
          [] OTHER -> removeProfile(p.cfg, p.run.name)

\* set-profile wants a name, use and remove a stored one; of these commands
\* only init knows --dry-run.
ConfigCommand(c) ==
    /\ proc[c].step = "run" /\ Kind(c) = "config"
    /\ LET p == proc[c]
           cmd == p.run.cmd
       IN  IF Lacks(p.run, "flags") \/ (cmd \in {"use", "remove"} /\ p.run.name \notin DOMAIN p.cfg.profiles)
           THEN Exit(c, p, "usage")
           ELSE IF cmd = "init" /\ p.run.flags.dry THEN Exit(c, p, "none")
           ELSE proc' = [proc EXCEPT ![c].step = "save", ![c].cfg = Edited(c)]
    /\ UNCHANGED <<file, env, served>>

\* Mutant: the file is truncated and written in place.
SaveInPlace(c) ==
    \/ /\ proc[c].step = "save"
       /\ file' = [file EXCEPT !.state = "torn"] /\ proc' = [proc EXCEPT ![c].step = "rename"]
       /\ UNCHANGED <<env, served>>
    \/ /\ proc[c].step = "rename"
       /\ file' = [state |-> "whole", cfg |-> proc[c].cfg] /\ Exit(c, [proc[c] EXCEPT !.wrote = TRUE], "none")
       /\ UNCHANGED <<env, served>>

\* A temporary file is written in full, then renamed over the old one.
Save(c) ==
    \/ /\ proc[c].step = "save"
       /\ \/ proc' = [proc EXCEPT ![c].step = "rename"]
          \/ Exit(c, proc[c], "io")
       /\ UNCHANGED <<file, env, served>>
    \/ /\ proc[c].step = "rename"
       /\ \/ /\ file' = [state |-> "whole", cfg |-> proc[c].cfg]
             /\ \E err \in {"none", "output"} : Exit(c, [proc[c] EXCEPT !.wrote = TRUE], err)
          \/ Exit(c, proc[c], "io") /\ UNCHANGED file
       /\ UNCHANGED <<env, served>>

\* The process is killed.
Kill(c) ==
    /\ proc[c].step \notin {"idle", "done", "killed"}
    /\ proc' = [proc EXCEPT ![c].step = "killed"]
    /\ UNCHANGED <<file, env, served>>

\* How the checks of a command end: the flags, then the input file, which can
\* be unreadable or invalid.
Checked(r) ==
    IF Lacks(r, "flags") THEN {"usage"}
    ELSE IF "file" \in Catalogue[r.cmd].needs THEN {"none", "io", "usage"} ELSE {"none"}

\* Printing, or writing the artifact, can fail; mastg reports a blocked release.
LocalCommand(c) ==
    /\ proc[c].step = "run" /\ Kind(c) \in {"local", "gate"}
    /\ \E checked \in Checked(proc[c].run) :
        \E err \in IF checked # "none" THEN {checked}
                   ELSE {"none", "output"} \cup (IF Kind(c) = "gate" THEN {"blocked"} ELSE {}) :
            Exit(c, proc[c], err)
    /\ UNCHANGED <<file, env, served>>

----------------------------------------------------------------------------
(* Commands that call the server.                                          *)

requireTenant(c) == "tenant" \in Catalogue[proc[c].run.cmd].needs => proc[c].tenant # ""

Called(c, answer) == [proc[c] EXCEPT !.calls = @ + 1, !.answer = answer]

\* Only an unimplemented call is forgiven.
handleCapability(err) == IF err = "unimplemented" THEN "none" ELSE err

\* The tenant, then the flags and the file, then --dry-run, then the one call.
\* An effect can hide behind any error, and printing the answer can fail.
ServerCommand(c) ==
    /\ proc[c].step = "run" /\ Kind(c) \in {"read", "write", "capability"}
    /\ \E checked \in IF requireTenant(c) THEN Checked(proc[c].run) ELSE {"usage"} :
        IF checked # "none" \/ (Kind(c) = "write" /\ Flags(c).dry)
        THEN Exit(c, proc[c], checked) /\ UNCHANGED served
        ELSE \E answer \in Answers :
                /\ \E err \in {IF Kind(c) = "capability" THEN handleCapability(answer) ELSE answer}
                              \cup (IF answer = "none" THEN {"output"} ELSE {}) :
                        Exit(c, Called(c, answer), err)
                /\ \/ Kind(c) = "write" /\ served' = served \cup {c}
                   \/ (Kind(c) # "write" \/ answer # "none") /\ UNCHANGED served
    /\ UNCHANGED <<file, env>>

----------------------------------------------------------------------------
(* doctor: seven checks in dependency order.                               *)

ServerChecks == <<"connectivity", "tenant-scope", "app-registration", "protection-policy", "build-proof">>

Add(p, name, status) == [p EXCEPT !.checks = Append(@, <<name, status>>)]

Present(p) == {p.checks[i][1] : i \in DOMAIN p.checks}

skipServerChecks(p) ==
    LET missing == SelectSeq(ServerChecks, LAMBDA n : n \notin Present(p))
    IN  [p EXCEPT !.checks = @ \o [i \in DOMAIN missing |-> <<missing[i], "skip">>]]

Has(p, status) == \E i \in DOMAIN p.checks : p.checks[i][2] = status

\* report.Healthy.
Healthy(p) == ~Has(p, "fail") /\ ~(p.run.flags.strict /\ Has(p, "warn"))

\* The verdict: the fatal error, or a gap under --strict.
Verdict(c, p, fatal) ==
    Exit(c, p, IF fatal # "none" THEN fatal
               ELSE IF p.run.flags.strict /\ Has(p, "warn") THEN "blocked" ELSE "none")

Doctor(c) == proc[c].step = "run" /\ Kind(c) = "doctor" /\ UNCHANGED <<file, env, served>>

\* Endpoint and key are local; a profile always has an endpoint.
runDoctor(c) ==
    /\ Doctor(c) /\ proc[c].checks = <<>>
    /\ LET p == Add(proc[c], "configuration", "pass")
       IN  IF resolveAPIKey(p.profile)
           THEN proc' = [proc EXCEPT ![c] = [Add(p, "credentials", "pass") EXCEPT !.key = TRUE]]
           ELSE Verdict(c, skipServerChecks(Add(p, "credentials", "fail")), "auth")

doctorConnects(c) ==
    /\ Doctor(c) /\ Len(proc[c].checks) = 2
    /\ \E answer \in Answers :
        IF answer # "none"
        THEN Verdict(c, skipServerChecks(Add(Called(c, answer), "connectivity", "fail")), answer)
        ELSE LET p == Add(Called(c, answer), "connectivity", "pass")
                 Skip(q, n) == Add(q, n, "skip")
             IN  IF p.tenant # "" THEN proc' = [proc EXCEPT ![c] = Add(p, "tenant-scope", "pass")]
                 ELSE Verdict(c, Skip(Skip(Skip(Add(p, "tenant-scope", "warn"), "app-registration"),
                                           "protection-policy"), "build-proof"), "none")

\* Listing fails, finds nothing or finds apps; without apps no policy check.
doctorApps(c) ==
    /\ Doctor(c) /\ Len(proc[c].checks) = 4
    /\ \/ proc' = [proc EXCEPT ![c] = Add(Called(c, "none"), "app-registration", "pass")]
       \/ proc' = [proc EXCEPT ![c] =
                      Add(Add(Called(c, "none"), "app-registration", "warn"), "protection-policy", "skip")]

\* One lookup per app: the first failure ends the check; no active policy,
\* or observing ones only, are gaps.
doctorPolicy(c) ==
    /\ Doctor(c) /\ Len(proc[c].checks) = 5
    /\ \E status \in {"warn", "pass"} :
        proc' = [proc EXCEPT ![c] = Add(Called(c, "none"), "protection-policy", status)]

doctorBuilds(c) ==
    /\ Doctor(c) /\ Len(proc[c].checks) = 6
    /\ \E status \in {"warn", "pass"} : Verdict(c, Add(Called(c, "none"), "build-proof", status), "none")

----------------------------------------------------------------------------

Next ==
    \E c \in Procs :
        \/ \E r \in Runs : Start(c, r)
        \/ ConfigCommand(c) \/ Save(c) \/ Kill(c) \/ LocalCommand(c) \/ ServerCommand(c)
        \/ runDoctor(c) \/ doctorConnects(c) \/ doctorApps(c) \/ doctorPolicy(c) \/ doctorBuilds(c)

Spec == Init /\ [][Next]_vars

----------------------------------------------------------------------------
(* Properties.                                                             *)

\* "Save writes the config atomically" (config.go): whichever processes write
\* the file and wherever one is killed, a later run finds a complete
\* configuration whose current profile resolves, so no command is locked out.
ConfigUsable ==
    /\ file.state # "torn"
    /\ LoadConfig.current \in DOMAIN LoadConfig.profiles \cup {"", "default"}

\* Exit codes "let CI pipelines branch on the failure class" (errors.go).  A
\* mutating command that exits 0 without --dry-run has taken effect, on the
\* server or in the file, and a command line without what its command needs, or
\* one that ends in a usage error, has neither called nor written anything.
\* Two sentences hold with exceptions only, which the last two conjuncts name:
\* exit code 2 is documented for "bad flags / arguments" (errors.go), but a line
\* cobra turns down exits 1; "every mutating command supports --dry-run"
\* (docs/cli.md), but the config commands write the file all the same.
ExitTellsEffect ==
    \A c \in Procs : proc[c].step = "done" =>
        LET p == proc[c]
            inert == c \notin served /\ p.calls = 0 /\ ~p.wrote
        IN  /\ Kind(c) \in {"write", "config"} /\ p.exit = 0 /\ ~Flags(c).dry => c \in served \/ p.wrote
            /\ p.exit = 2 \/ Rejected(p.run) \/ Lacks(p.run, "flags") => inert /\ p.exit # 0
            /\ Kind(c) = "capability" /\ p.exit = 0 => p.answer \in {"none", "unimplemented"}
            /\ Rejected(p.run) => p.exit = 1
            /\ Flags(c).dry => c \notin served /\ (p.wrote => p.run.cmd \in {"set_profile", "use", "remove"})

\* doctor "exits non-zero only on hard failures", or on gaps under --strict
\* (doctor.go): its exit code says what its report says, the report has every
\* server check exactly once and in order, whatever failed on the way.
VerdictMatchesReport ==
    \A c \in Procs : proc[c].step = "done" =>
        /\ Kind(c) = "doctor" /\ proc[c].checks # <<>> =>
            /\ (proc[c].exit = 0) = Healthy(proc[c])
            /\ SelectSeq([i \in DOMAIN proc[c].checks |-> proc[c].checks[i][1]],
                         LAMBDA n : n \notin {"configuration", "credentials"}) = ServerChecks

=============================================================================
