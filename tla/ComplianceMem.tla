---------------------------- MODULE ComplianceMem ----------------------------
(***************************************************************************)
(* MemStore of the compliance package: a chain per tenant, and maps keyed  *)
(* by tenant, app and build, each call under the store's mutex.            *)
(***************************************************************************)
EXTENDS Integers, Sequences, FiniteSets

CONSTANTS NoId, None, DefaultPage, MaxPage, DefaultThreshold, Tenants

Chain == INSTANCE AuditChain
Kill == INSTANCE KillSwitch

NewMemStore == [audit |-> [t \in Tenants |-> <<>>], dataProc |-> <<>>, killSw |-> <<>>, canaries |-> <<>>]

Ok(v) == [code |-> "ok", val |-> v]
Err(c) == [code |-> c, val |-> None]

Put(f, key, v) == [k \in DOMAIN f \cup {key} |-> IF k = key THEN v ELSE f[k]]
OwnedBy(f, tenant) == {f[k] : k \in {i \in DOMAIN f : f[i].tenant = tenant}}

appendLocked(m, tenant, entry, now) ==
    LET chain == m.audit[tenant]
        prev == IF chain = <<>> THEN Chain!NoHash ELSE chain[Len(chain)].hash
    IN  [m EXCEPT !.audit[tenant] = Append(chain, Chain!Event(tenant, Len(chain) + 1, entry, now, prev))]

AppendAudit(m, tenant, entry, now) ==
    IF tenant = NoId THEN <<m, Err("invalid")>>
    ELSE IF ~Chain!validateEntry(entry) THEN <<m, Err("internal")>>
    ELSE <<appendLocked(m, tenant, entry, now), Ok(None)>>

clampPageSize(n) == IF n <= 0 THEN DefaultPage ELSE IF n > MaxPage THEN MaxPage ELSE n

\* The chain from its end, the page cut where one more event would match.
ListAudit(m, tenant, action, from, to, page) ==
    LET chain == m.audit[tenant]
        match == {i \in DOMAIN chain : /\ page.token >= 0 => chain[i].seq < page.token
                                       /\ Chain!matchAuditFilter(chain[i], action, from, to)}
        size == clampPageSize(page.size)
        out == {i \in match : Cardinality({j \in match : j >= i}) <= size}
    IN  IF tenant = NoId THEN Err("invalid")
        ELSE Ok([items |-> {chain[i] : i \in out},
                 next |-> IF out = match THEN 0 ELSE chain[CHOOSE i \in out : \A j \in out : i <= j].seq])

VerifyAudit(m, tenant) == IF tenant = NoId THEN Err("invalid") ELSE Ok(Chain!recompute(tenant, m.audit[tenant]))

PutDataProcessing(m, tenant, app, days, categories, purpose, basis, now) ==
    LET rec == [tenant |-> tenant, app |-> app, days |-> days, purpose |-> purpose, basis |-> basis,
                categories |-> categories \ {NoId}, at |-> now]
    IN  IF tenant = NoId \/ days < 0 \/ rec.categories = {} \/ purpose = NoId \/ basis = NoId
        THEN <<m, Err("invalid")>>
        ELSE <<[m EXCEPT !.dataProc = Put(@, <<tenant, app>>, rec)], Ok(rec)>>

ListDataProcessing(m, tenant) == IF tenant = NoId THEN Err("invalid") ELSE Ok(OwnedBy(m.dataProc, tenant))

IssueKillSwitch(m, tenant, app, build, command, key, actor, now) ==
    LET scope == <<tenant, app, build>>
        version == IF scope \in DOMAIN m.killSw THEN m.killSw[scope].version + 1 ELSE 1
        ks == Kill!NewKillSwitch(tenant, app, build, command, version, now, key)
    IN  IF tenant = NoId \/ command = NoId THEN <<m, Err("invalid")>>
        ELSE <<appendLocked([m EXCEPT !.killSw = Put(@, scope, ks)], tenant,
                            Kill!killSwitchEntry(app, build, command, version, actor), now), Ok(ks)>>

ListKillSwitches(m, tenant) == IF tenant = NoId THEN Err("invalid") ELSE Ok(OwnedBy(m.killSw, tenant))

canaryEntry(action, app, actor, meta) == [action |-> action, resource |-> app, actor |-> actor, meta |-> meta]

\* A new status every time: nothing of the last one but its stable policy.
SetCanary(m, tenant, app, candidate, stable, percent, threshold, actor, now) ==
    LET key == <<tenant, app>>
        prev == IF key \in DOMAIN m.canaries THEN m.canaries[key].stable ELSE NoId
        cs == [tenant |-> tenant, app |-> app, candidate |-> candidate,
               stable |-> IF stable = NoId THEN prev ELSE stable, percent |-> percent, state |-> "active",
               rate |-> 0, samples |-> 0, threshold |-> IF threshold <= 0 THEN DefaultThreshold ELSE threshold,
               at |-> now]
    IN  IF tenant = NoId \/ app = NoId \/ candidate = NoId \/ percent > 100 THEN <<m, Err("invalid")>>
        ELSE <<appendLocked([m EXCEPT !.canaries = Put(@, key, cs)], tenant,
                            canaryEntry("canary.set", app, actor, <<candidate, percent>>), now), Ok(cs)>>

GetCanary(m, tenant, app) ==
    IF <<tenant, app>> \in DOMAIN m.canaries THEN Ok(m.canaries[<<tenant, app>>]) ELSE Err("not_found")

ListActiveCanaries(m) == {m.canaries[k] : k \in {i \in DOMAIN m.canaries : m.canaries[i].state = "active"}}

\* A transition of a rollout there is, and its audit event.
Transition(m, tenant, app, cs, entry, now) ==
    <<appendLocked([m EXCEPT !.canaries = Put(@, <<tenant, app>>, cs)], tenant, entry, now), Ok(cs)>>

PromoteCanary(m, tenant, app, actor, now) ==
    IF GetCanary(m, tenant, app).code # "ok" THEN <<m, Err("not_found")>>
    ELSE LET cs == m.canaries[<<tenant, app>>]
         IN  Transition(m, tenant, app,
                        [cs EXCEPT !.state = "promoted", !.percent = 100, !.stable = cs.candidate, !.at = now],
                        canaryEntry("canary.promote", app, actor, <<cs.candidate>>), now)

RollbackCanary(m, tenant, app, reason, actor, obs, now) ==
    IF GetCanary(m, tenant, app).code # "ok" THEN <<m, Err("not_found")>>
    ELSE LET cs == m.canaries[<<tenant, app>>]
         IN  Transition(m, tenant, app,
                        [cs EXCEPT !.state = "rolled_back", !.percent = 0, !.rate = obs.rate,
                                   !.samples = obs.samples, !.at = now],
                        canaryEntry("canary.rollback", app, actor, <<reason, obs.rate, cs.stable>>), now)
=============================================================================
