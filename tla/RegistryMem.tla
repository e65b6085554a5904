----------------------------- MODULE RegistryMem -----------------------------
(***************************************************************************)
(* MemStore of the registry: one map per table, from ids to records, each  *)
(* call under the store's mutex.  The calls have the signatures and        *)
(* outcomes of module RegistryPostgres, which the package's comment says   *)
(* this store mirrors.                                                     *)
(***************************************************************************)
EXTENDS Integers, Sequences, FiniteSets

CONSTANTS NoId, None, DefaultPage, MaxPage

Tables == {"tenants", "apps", "builds", "policies", "profiles", "keys", "signing", "hooks", "sessions"}

NewMemStore == [t \in Tables |-> <<>>]

Ok(v) == [code |-> "ok", val |-> v]
Err(c) == [code |-> c, val |-> None]

\* m.t[id] = rec, delete(m.t, id), and the records of a table as a set.
Put(m, t, id, rec) == [m EXCEPT ![t] = [i \in DOMAIN @ \cup {id} |-> IF i = id THEN rec ELSE @[i]]]
Drop(m, t, id) == [m EXCEPT ![t] = [i \in DOMAIN @ \ {id} |-> @[i]]]
Values(m, t) == {m[t][i] : i \in DOMAIN m[t]}
Added(m, t, rec) == <<Put(m, t, rec.id, rec), Ok(rec)>>

\* m.t[id], owned by the tenant.
Has(m, t, tenant, id) == id \in DOMAIN m[t] /\ m[t][id].tenant = tenant
Lookup(m, t, tenant, id) == IF Has(m, t, tenant, id) THEN Ok(m[t][id]) ELSE Err("not_found")
Own(m, t, tenant) == {r \in Values(m, t) : r.tenant = tenant}

\* sort.Slice by CreatedAt, then Id.
RECURSIVE Sorted(_)
Sorted(rows) ==
    IF rows = {} THEN <<>>
    ELSE LET last == CHOOSE r \in rows : \A s \in rows : s.id <= r.id
         IN  Append(Sorted(rows \ {last}), last)

clampPageSize(n) == IF n <= 0 THEN DefaultPage ELSE IF n > MaxPage THEN MaxPage ELSE n

pageSlice(all, page) ==
    LET size == clampPageSize(page.size)
        end == page.token + size
    IN  IF page.token < 0 THEN Err("invalid")
        ELSE IF page.token >= Len(all) THEN Ok([items |-> <<>>, next |-> 0])
        ELSE IF end >= Len(all) THEN Ok([items |-> SubSeq(all, page.token + 1, Len(all)), next |-> 0])
        ELSE Ok([items |-> SubSeq(all, page.token + 1, end), next |-> end])

-----------------------------------------------------------------------------

CreateTenant(m, id, name, slug, tier) ==
    IF name = NoId \/ slug = NoId THEN <<m, Err("invalid")>>
    ELSE IF \E t \in Values(m, "tenants") : t.slug = slug THEN <<m, Err("conflict")>>
    ELSE Added(m, "tenants", [id |-> id, name |-> name, slug |-> slug,
                              tier |-> IF tier = NoId THEN "starter" ELSE tier, status |-> "active"])

GetTenant(m, id) == IF id \in DOMAIN m.tenants THEN Ok(m.tenants[id]) ELSE Err("not_found")

ListTenants(m, page) == pageSlice(Sorted(Values(m, "tenants")), page)

UpdateTenant(m, id, tier, status) ==
    IF id \notin DOMAIN m.tenants THEN <<m, Err("not_found")>>
    ELSE LET t == m.tenants[id]
             t1 == IF tier # NoId THEN [t EXCEPT !.tier = tier] ELSE t
         IN  Added(m, "tenants", IF status # NoId THEN [t1 EXCEPT !.status = status] ELSE t1)

CreateApp(m, id, tenant, name, platform, package) ==
    IF tenant = NoId \/ name = NoId \/ package = NoId THEN <<m, Err("invalid")>>
    ELSE IF \E a \in Own(m, "apps", tenant) : a.platform = platform /\ a.package = package
         THEN <<m, Err("conflict")>>
    ELSE Added(m, "apps", [id |-> id, tenant |-> tenant, name |-> name, platform |-> platform, package |-> package])

GetApp(m, tenant, id) == Lookup(m, "apps", tenant, id)

ListApps(m, tenant, page) == pageSlice(Sorted(Own(m, "apps", tenant)), page)

SearchApps(m, tenant, query) ==
    Ok({a \in Own(m, "apps", tenant) : query # NoId => (a.name = query \/ a.package = query)})

CreateBuild(m, id, tenant, app, hash) ==
    IF tenant = NoId \/ app = NoId \/ hash = NoId THEN <<m, Err("invalid")>>
    ELSE IF \E b \in Own(m, "builds", tenant) : b.hash = hash THEN <<m, Err("conflict")>>
    ELSE Added(m, "builds", [id |-> id, tenant |-> tenant, app |-> app, hash |-> hash])

GetBuild(m, tenant, id) == Lookup(m, "builds", tenant, id)

ListBuilds(m, tenant, app, page) ==
    pageSlice(Sorted({b \in Own(m, "builds", tenant) : app = NoId \/ b.app = app}), page)

CreateProtectionProfile(m, id, tenant, name, mode) ==
    IF tenant = NoId \/ name = NoId THEN <<m, Err("invalid")>>
    ELSE IF \E p \in Own(m, "profiles", tenant) : p.name = name THEN <<m, Err("conflict")>>
    ELSE Added(m, "profiles", [id |-> id, tenant |-> tenant, name |-> name,
                               mode |-> IF mode = NoId THEN "observe" ELSE mode])

ListProtectionProfiles(m, tenant) == Ok(Sorted(Own(m, "profiles", tenant)))

-----------------------------------------------------------------------------

\* One past the largest version of the scope, 1 for the first.
CreatePolicy(m, id, tenant, app, name, mode) ==
    LET scope == {p \in Own(m, "policies", tenant) : p.app = app} IN
    IF tenant = NoId \/ name = NoId THEN <<m, Err("invalid")>>
    ELSE Added(m, "policies",
               [id |-> id, tenant |-> tenant, app |-> app, name |-> name, mode |-> mode, active |-> FALSE,
                version |-> CHOOSE v \in 1..(Cardinality(scope) + 1) :
                              /\ \A p \in scope : p.version < v
                              /\ v = 1 \/ \E p \in scope : p.version = v - 1])

GetActivePolicy(m, tenant, app) ==
    LET active == {p \in Own(m, "policies", tenant) : p.active}
        appScoped == {p \in active : p.app = app}
        tenantWide == {p \in active : p.app # app /\ p.app = NoId}
    IN  IF appScoped # {} THEN Ok(CHOOSE p \in appScoped : TRUE)
        ELSE IF tenantWide # {} THEN Ok(CHOOSE p \in tenantWide : TRUE)
        ELSE Err("not_found")

GetPolicy(m, tenant, id) == Lookup(m, "policies", tenant, id)

ListPolicies(m, tenant, app) == Ok({p \in Own(m, "policies", tenant) : app = NoId \/ p.app = app})

\* Mutant: the active policy of every scope of the tenant is deactivated.
ActivatePolicyTenantWide(m, tenant, id) ==
    IF ~Has(m, "policies", tenant, id) THEN <<m, Err("not_found")>>
    ELSE LET on == [i \in DOMAIN m.policies |->
                      LET p == m.policies[i] IN
                      IF i = id THEN [p EXCEPT !.active = TRUE]
                      ELSE IF p.tenant = tenant THEN [p EXCEPT !.active = FALSE] ELSE p]
         IN  <<[m EXCEPT !.policies = on], Ok(on[id])>>

ActivatePolicy(m, tenant, id) ==
    IF ~Has(m, "policies", tenant, id) THEN <<m, Err("not_found")>>
    ELSE LET on == [i \in DOMAIN m.policies |->
                      LET p == m.policies[i] IN
                      IF i = id THEN [p EXCEPT !.active = TRUE]
                      ELSE IF p.tenant = tenant /\ p.app = m.policies[id].app THEN [p EXCEPT !.active = FALSE]
                      ELSE p]
         IN  <<[m EXCEPT !.policies = on], Ok(on[id])>>

-----------------------------------------------------------------------------

CreateAPIKey(m, id, tenant, name) ==
    IF tenant = NoId THEN <<m, Err("invalid")>>
    ELSE Added(m, "keys", [id |-> id, tenant |-> tenant, name |-> name, secret |-> id, status |-> "active"])

ValidateAPIKey(m, id, secret) ==
    IF id \in DOMAIN m.keys /\ m.keys[id].status = "active" /\ m.keys[id].secret = secret
    THEN Ok([tenant |-> m.keys[id].tenant, key |-> id])
    ELSE Err("not_found")

Live(m, tenant, id) == Has(m, "keys", tenant, id) /\ m.keys[id].status = "active"
Revoked(m, id) == Put(m, "keys", id, [m.keys[id] EXCEPT !.status = "revoked"])

RevokeAPIKey(m, tenant, id) ==
    IF Live(m, tenant, id) THEN <<Revoked(m, id), Ok(None)>> ELSE <<m, Err("not_found")>>

RotateAPIKey(m, new, tenant, id) ==
    IF ~Live(m, tenant, id) THEN <<m, Err("not_found")>>
    ELSE Added(Revoked(m, id), "keys",
               [id |-> new, tenant |-> tenant, name |-> m.keys[id].name, secret |-> new, status |-> "active"])

CreateSigningKey(m, id, tenant) ==
    IF tenant = NoId THEN <<m, Err("invalid")>>
    ELSE LET off == [i \in DOMAIN m.signing |->
                       [m.signing[i] EXCEPT !.active = @ /\ m.signing[i].tenant # tenant]]
         IN  Added([m EXCEPT !.signing = off], "signing", [id |-> id, tenant |-> tenant, active |-> TRUE])

RotateSigningKey(m, id, tenant) == CreateSigningKey(m, id, tenant)

GetActiveSigningKey(m, tenant) ==
    LET active == {k \in Own(m, "signing", tenant) : k.active} IN
    IF active = {} THEN Err("not_found") ELSE Ok(CHOOSE k \in active : TRUE)

GetSigningKey(m, tenant, id) == Lookup(m, "signing", tenant, id)

-----------------------------------------------------------------------------

CreateWebhook(m, id, tenant, url, types) ==
    IF tenant = NoId \/ url = NoId THEN <<m, Err("invalid")>>
    ELSE Added(m, "hooks", [id |-> id, tenant |-> tenant, url |-> url, types |-> types, active |-> TRUE])

ListWebhooks(m, tenant) == Ok(Sorted(Own(m, "hooks", tenant)))

DeleteWebhook(m, tenant, id) ==
    IF Has(m, "hooks", tenant, id) THEN <<Drop(m, "hooks", id), Ok([deleted |-> TRUE])>> ELSE <<m, Ok([deleted |-> FALSE])>>

ListWebhooksForEvent(m, tenant, type) ==
    Ok({h \in Own(m, "hooks", tenant) : h.active /\ (h.types = {} \/ type \in h.types)})

\* The map entry is overwritten when the token id is already there.
CreateTrustSession(m, id, tenant, level, at) ==
    IF tenant = NoId \/ id = NoId THEN <<m, Err("invalid")>>
    ELSE <<Put(m, "sessions", id, [id |-> id, tenant |-> tenant, level |-> level, seq |-> 0,
                                   status |-> "active", at |-> at]), Ok(None)>>

GetTrustSession(m, tenant, id) == Lookup(m, "sessions", tenant, id)

ConsumeSequence(m, tenant, id, seq) ==
    IF ~Has(m, "sessions", tenant, id) THEN <<m, Err("not_found")>>
    ELSE IF m.sessions[id].status # "active" THEN <<m, Err("not_found")>>
    ELSE IF seq <= m.sessions[id].seq THEN <<m, Err("replay")>>
    ELSE <<[m EXCEPT !.sessions[id].seq = seq], Ok(None)>>

RevokeTrustSession(m, tenant, id) ==
    IF ~Has(m, "sessions", tenant, id) THEN <<m, Err("not_found")>>
    ELSE <<[m EXCEPT !.sessions[id].status = "revoked"], Ok(None)>>

RecordFailedAttestation(m, id, tenant, level, at) ==
    IF tenant = NoId THEN <<m, Err("invalid")>>
    ELSE <<Put(m, "sessions", id, [id |-> id, tenant |-> tenant, level |-> level, seq |-> 0,
                                   status |-> "failed", at |-> at]), Ok(None)>>

GetTrustSessionStats(m, tenant, from, to) ==
    LET in == {s \in Own(m, "sessions", tenant) : ~(from # 0 /\ s.at < from) /\ ~(to # 0 /\ s.at > to)}
        Count(S) == Cardinality(S)
        tokens == {s \in in : s.status # "failed"}
    IN  Ok([total |-> Count(in), issued |-> Count(tokens), failed |-> Count({s \in in : s.status = "failed"}),
            byLevel |-> [l \in {s.level : s \in tokens} |-> Count({s \in tokens : s.level = l})]])

GetTenantCounts(m, tenant) ==
    Ok([apps |-> Cardinality(Own(m, "apps", tenant)), builds |-> Cardinality(Own(m, "builds", tenant)),
        policies |-> Cardinality({p \in Own(m, "policies", tenant) : p.active}),
        hooks |-> Cardinality(Own(m, "hooks", tenant))])
=============================================================================
