--------------------------- MODULE ConfigDelivery ---------------------------
(***************************************************************************)
(* ConfigService and a device: the policy and the kill switch that an app  *)
(* fetches, the ETag by which the server answers that nothing changed, and *)
(* the core that verifies and applies what arrives.  One tenant, app and   *)
(* build; two fetches may be under way and their answers may be lost or    *)
(* overtake each other.  A signature is the key and what it was made over. *)
(***************************************************************************)
EXTENDS Integers, FiniteSets

CONSTANTS NoId, Nothing,
          Versions,     \* versions of the app's policy
          SwitchScopes, \* <<app, build>> scopes that switches are issued for
          Fetches,      \* slots of fetches under way, 1..n
          MaxEvents     \* bound on operators' commands and on faults (lost
                        \* answers, failed lookups, restarts) together

VARIABLES inForce,   \* policy in force
          cand,      \* candidate of a rollout whose cohort the instance is in, or Nothing
          switches,  \* the tenant's signed kill switches
          key,       \* active signing key, 0 before the first
          flags,     \* KSEAL_FEATURE_FLAGS, read at start
          fetch,     \* what each fetch has resolved so far
          device,    \* ETag and body held, config cache, kill state, versions seen
          events     \* commands and faults so far

configVars == <<inForce, cand, switches, key, flags, fetch, device, events>>

Kill == INSTANCE KillSwitch WITH None <- Nothing

Tenant == "t"
App == "a"
Build == "b"
Ttl == 300
NotFetching == [pc |-> "idle", inm |-> Nothing, holds |-> Nothing, policy |-> 0, candidate |-> FALSE,
                ks |-> Nothing, answer |-> Nothing]
Fresh == [etag |-> Nothing, body |-> Nothing, version |-> 0, killed |-> FALSE, seen |-> [s \in SwitchScopes |-> 0]]

\* Instances of SwitchScopes: switches for the whole app, and for the build too.
WholeApp == {<<App, NoId>>}
AppAndBuild == {<<App, NoId>>, <<App, Build>>}

\* On for all tenants, or for all but this one.
FlagSettings == {[byTenant |-> {}, global |-> TRUE], [byTenant |-> {FALSE}, global |-> TRUE]}

ConfigInit ==
    /\ inForce = 1 /\ cand = Nothing /\ switches = {} /\ key = 0
    /\ flags \in FlagSettings
    /\ fetch = [f \in Fetches |-> NotFetching]
    /\ device = Fresh
    /\ events = 0

\* A tenant's own setting, else the global one.
Enabled == IF flags.byTenant # {} THEN TRUE \in flags.byTenant ELSE flags.global

\* The hash covers what a policy says, not its version: here every other
\* policy says the same.
HashPolicy(p) == p % 2

Counted == events < MaxEvents /\ events' = events + 1

-----------------------------------------------------------------------------
(* Control plane.                                                          *)

ActivateVersion(p) ==
    /\ Counted /\ p # inForce
    /\ inForce' = p
    /\ UNCHANGED <<cand, switches, key, flags, fetch, device>>

\* A rollout starts or ends, and the data plane's snapshot follows it.
RolloutChanges(p) ==
    /\ Counted /\ p # cand
    /\ cand' = p
    /\ UNCHANGED <<inForce, switches, key, flags, fetch, device>>

FirstKey == IF key = 0 THEN 1 ELSE key

IssueKillSwitch(s, command) ==
    LET old == {ks \in switches : <<ks.app, ks.build>> = s}
        version == IF old = {} THEN 1 ELSE (CHOOSE ks \in old : TRUE).version + 1
    IN  /\ Counted
        /\ switches' = (switches \ old) \cup
                       {Kill!NewKillSwitch(Tenant, s[1], s[2], command, version, events, FirstKey)}
        /\ key' = FirstKey
        /\ UNCHANGED <<inForce, cand, flags, fetch, device>>

-----------------------------------------------------------------------------
(* GetConfig.                                                              *)

Request(f) ==
    /\ fetch[f].pc = "idle" /\ \A g \in 1..(f - 1) : fetch[g].pc # "idle"
    /\ fetch' = [fetch EXCEPT ![f] = [NotFetching EXCEPT !.pc = "policy", !.inm = device.etag,
                                                    !.holds = device.body]]
    /\ UNCHANGED <<inForce, cand, switches, key, flags, device, events>>

\* The candidate for an instance of the cohort; whatever goes wrong with it
\* falls back to the policy in force.
resolvePolicy(f) ==
    LET serves == Enabled /\ cand # Nothing
        Resolved(candidate) ==
            fetch' = [fetch EXCEPT ![f].pc = "answer", ![f].policy = IF candidate THEN cand ELSE inForce,
                                   ![f].candidate = candidate]
    IN  /\ fetch[f].pc = "policy"
        /\ \/ Resolved(serves) /\ UNCHANGED events
           \/ serves /\ Counted /\ Resolved(FALSE)
        /\ UNCHANGED <<inForce, cand, switches, key, flags, device>>

\* The switch in effect for the build; none when the lookup fails.
resolveKillSwitch(failed) ==
    IF Enabled /\ ~failed THEN Kill!GetKillSwitchState(switches, App, Build).active ELSE Nothing

\* Neither the scope nor anything else of the switch.
killSwitchEtag(ks) == IF ks = Nothing THEN <<>> ELSE <<ks.command, ks.version>>

Etag(policy, ks) == <<HashPolicy(policy), killSwitchEtag(ks)>>

\* The active key, or a first one; the signature is over the config's bytes.
Sign(bytes) == [by |-> FirstKey, over |-> <<bytes>>]

\* What a client gets of a policy and a switch.
Body(policy, ks) == <<HashPolicy(policy), ks>>

\* What the bytes stand for: the hash names the whole of the policy.
Config(policy) ==
    LET bytes == HashPolicy(policy)
    IN  [bytes |-> bytes, sig |-> Sign(bytes), key |-> FirstKey, version |-> policy, ttl |-> Ttl]

\* The switch is looked up after the policy.  A tag that the client holds
\* already is answered without a body; nothing is signed for it.
GetConfig(f, failed) ==
    LET r == fetch[f]
        ks == resolveKillSwitch(failed)
        etag == Etag(r.policy, ks)
        full == [etag |-> etag, config |-> Config(r.policy), ks |-> ks, shared |-> ~r.candidate /\ ks = Nothing]
        short == [etag |-> etag, config |-> Nothing, ks |-> Nothing, shared |-> FALSE]
    IN  /\ r.pc = "answer"
        /\ IF failed THEN Enabled /\ Counted ELSE UNCHANGED events
        /\ fetch' = [fetch EXCEPT ![f].pc = "sent", ![f].ks = ks,
                                  ![f].answer = IF r.inm = etag THEN short ELSE full]
        /\ key' = IF r.inm = etag THEN key ELSE FirstKey
        /\ UNCHANGED <<inForce, cand, switches, flags, device>>

-----------------------------------------------------------------------------
(* The device.                                                             *)

\* What the core verifies a config's signature over.
signed_config_preimage(c) == <<"kseal/v1/signed-config", c.version, c.ttl, c.key, c.bytes>>
verify_and_decode(c, pinned) == c.sig = [by |-> pinned, over |-> signed_config_preimage(c)]

\* A config that is older or does not verify is refused; the cache stays.
load_config(d, c) ==
    IF c.version < d.version \/ ~verify_and_decode(c, key) THEN d
    ELSE [d EXCEPT !.version = c.version]

\* Mutant: the versions of a scope are not compared.
apply_kill_switch_replayed(d, ks) ==
    IF ~Kill!VerifyKillSwitch(key, ks) THEN d
    ELSE [d EXCEPT !.seen[<<ks.app, ks.build>>] = ks.version, !.killed = ks.command = "disable"]

\* Mutant: an enabling command does not lift a disabling one.
apply_kill_switch_sticky(d, ks) ==
    IF ~Kill!VerifyKillSwitch(key, ks) \/ ks.version < d.seen[<<ks.app, ks.build>>] THEN d
    ELSE [d EXCEPT !.seen[<<ks.app, ks.build>>] = ks.version, !.killed = @ \/ ks.command = "disable"]

\* The latest command accepted decides, whatever its scope.
apply_kill_switch(d, ks) ==
    IF ~Kill!VerifyKillSwitch(key, ks) \/ ks.version < d.seen[<<ks.app, ks.build>>] THEN d
    ELSE [d EXCEPT !.seen[<<ks.app, ks.build>>] = ks.version, !.killed = ks.command = "disable"]

\* The host keeps the tag with the body it hands to the core.
ReceiveConfig(f) ==
    LET r == fetch[f].answer
        loaded == IF r.config = Nothing THEN device
                  ELSE [load_config(device, r.config) EXCEPT !.etag = r.etag, !.body = Body(r.config.version, r.ks)]
    IN  /\ fetch[f].pc = "sent"
        /\ device' = IF r.ks = Nothing THEN loaded ELSE apply_kill_switch(loaded, r.ks)
        /\ fetch' = [fetch EXCEPT ![f] = NotFetching]
        /\ UNCHANGED <<inForce, cand, switches, key, flags, events>>

Lose(f) ==
    /\ fetch[f].pc = "sent" /\ Counted
    /\ fetch' = [fetch EXCEPT ![f] = NotFetching]
    /\ UNCHANGED <<inForce, cand, switches, key, flags, device>>

\* The core's state and the host's tag are in memory.
DeviceRestarts ==
    /\ Counted
    /\ device' = Fresh /\ fetch' = [f \in Fetches |-> NotFetching]
    /\ UNCHANGED <<inForce, cand, switches, key, flags>>

-----------------------------------------------------------------------------

Step(f) == Request(f) \/ resolvePolicy(f) \/ (\E failed \in BOOLEAN : GetConfig(f, failed)) \/ ReceiveConfig(f)

ConfigNext ==
    \/ \E p \in Versions : ActivateVersion(p)
    \/ \E p \in Versions \cup {Nothing} : RolloutChanges(p)
    \/ \E s \in SwitchScopes, command \in {"enable", "disable"} : IssueKillSwitch(s, command)
    \/ \E f \in Fetches : Step(f) \/ Lose(f)
    \/ DeviceRestarts

\* The host keeps fetching and every step of a fetch is taken.
Fairness == \A f \in Fetches : WF_configVars(Step(f))

ConfigSpec == ConfigInit /\ [][ConfigNext]_configVars

ConfigFairSpec == ConfigSpec /\ Fairness

-----------------------------------------------------------------------------

\* A switch that the core has accepted is never undone by an older one of its
\* scope, in whatever order the answers arrive; only a restart forgets it.
SeenGrows == device' # Fresh => \A s \in SwitchScopes : device'.seen[s] >= device.seen[s]

SupersededStaysSuperseded == [][SeenGrows]_configVars

\* The switch held with the tag is one that the core refused as superseded, and
\* the tag does not tell it from the one in effect, which is of another scope.
HeldForAnother(ks) ==
    LET held == device.body[2] IN
    /\ device.body # Nothing /\ held # Nothing /\ ks # Nothing
    /\ <<held.app, held.build>> # <<ks.app, ks.build>>
    /\ killSwitchEtag(held) = killSwitchEtag(ks)
    /\ held.version < device.seen[<<held.app, held.build>>]

\* Once commands cease, the app is disabled exactly if the switch in effect says
\* so: lost and late answers, failed lookups and restarts delay that only.  There
\* is one exception to what docs/kill-switch.md says of the ETag ("issuing or
\* changing a switch busts cached config within the TTL"): an answer that was
\* overtaken left the tag of a refused switch, and a switch that is then issued
\* for another scope with that command and version is answered as not modified.
KillConverges ==
    LET effective == Kill!GetKillSwitchState(switches, App, Build) IN
    <>[](Enabled => \/ device.killed = (effective.command = "disable")
                    \/ HeldForAnother(effective.active))

\* A config that the device was handed in full is loaded: it verifies against
\* the tenant's key, "so the device can verify authenticity offline".
ServedConfigLoads == device.etag # Nothing => device.version # 0
=============================================================================
