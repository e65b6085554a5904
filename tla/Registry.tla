------------------------------ MODULE Registry ------------------------------
(***************************************************************************)
(* The registry's handlers, and the store calls the trust service, the     *)
(* gateway and the webhook service make, each performed on a PostgresStore *)
(* and on a MemStore side by side.  A behaviour works on one group of      *)
(* tables (focus): the groups share no row.                                *)
(***************************************************************************)
EXTENDS Integers, Sequences, FiniteSets

CONSTANTS NoId, None, DefaultPage, MaxPage,
          Atoms,      \* names, slugs, packages, hashes, modes, event types
          MaxSeq,     \* largest request sequence
          MaxCalls    \* bound on the calls of a behaviour, per group

VARIABLES pg,      \* the Postgres database
          mem,     \* the in-memory store
          next,    \* the next id, and the clock
          last,    \* caller, tenant named by the request, outcome of each store
          focus    \* the group of tables this behaviour works on

vars == <<pg, mem, next, last, focus>>

PG == INSTANCE RegistryPostgres
MEM == INSTANCE RegistryMem

Tenants == {1, 2}
NotAnApp == 1    \* an id that no app has
Groups == {"tenants", "apps", "policies", "keys", "hooks", "sessions"}
Ids == 1..(next - 1)
Pages == [size : {-1, 1, 9}, token : {-1, 0, 1, 2}]

\* Two tenants exist: every caller is authenticated as one.
Seeded(store, other) ==
    /\ pg = PG!CreateTenant(PG!CreateTenant(PG!NewPostgresStore, 1, store, store, NoId)[1], 2, other, other, NoId)[1]
    /\ mem = MEM!CreateTenant(MEM!CreateTenant(MEM!NewMemStore, 1, store, store, NoId)[1], 2, other, other, NoId)[1]

Init ==
    /\ Seeded("one", "two")
    /\ next = 3
    /\ last = [caller |-> 1, tenant |-> 1, pg |-> None, mem |-> None]
    /\ focus \in Groups

-----------------------------------------------------------------------------

requireTenant(caller, tenant) == tenant \in {NoId, caller}

\* A handler: refused at the edge, or the store's outcome.
Handle(caller, tenant, allowed, p, m) ==
    /\ pg' = IF allowed THEN p[1] ELSE pg
    /\ mem' = IF allowed THEN m[1] ELSE mem
    /\ last' = [caller |-> caller, tenant |-> tenant,
                pg |-> IF allowed THEN p[2] ELSE PG!Err("denied"),
                mem |-> IF allowed THEN m[2] ELSE MEM!Err("denied")]
    /\ next' = next + 1
    /\ UNCHANGED focus

OfTenant(caller, tenant, p, m) == Handle(caller, tenant, requireTenant(caller, tenant), p, m)

\* Only a platform administrator creates tenants.
CreateTenant(caller, admin, slug, tier) ==
    Handle(caller, None, admin, PG!CreateTenant(pg, next, slug, slug, tier), MEM!CreateTenant(mem, next, slug, slug, tier))

UpdateTenant(caller, id, tier, status) ==
    OfTenant(caller, id, PG!UpdateTenant(pg, id, tier, status), MEM!UpdateTenant(mem, id, tier, status))

CreateApp(caller, tenant, name, package) ==
    OfTenant(caller, tenant, PG!CreateApp(pg, next, tenant, name, "p", package),
                             MEM!CreateApp(mem, next, tenant, name, "p", package))

CreateBuild(caller, tenant, app, hash) ==
    OfTenant(caller, tenant, PG!CreateBuild(pg, next, tenant, app, hash),
                             MEM!CreateBuild(mem, next, tenant, app, hash))

CreateProtectionProfile(caller, tenant, name, mode) ==
    OfTenant(caller, tenant, PG!CreateProtectionProfile(pg, next, tenant, name, mode),
                             MEM!CreateProtectionProfile(mem, next, tenant, name, mode))

CreatePolicy(caller, tenant, app, name) ==
    OfTenant(caller, tenant, PG!CreatePolicy(pg, next, tenant, app, name, "observe"),
                             MEM!CreatePolicy(mem, next, tenant, app, name, "observe"))

ActivatePolicy(caller, tenant, id) ==
    OfTenant(caller, tenant, PG!ActivatePolicy(pg, tenant, id), MEM!ActivatePolicy(mem, tenant, id))

RegisterWebhook(caller, tenant, url, types) ==
    OfTenant(caller, tenant, PG!CreateWebhook(pg, next, tenant, url, types),
                             MEM!CreateWebhook(mem, next, tenant, url, types))

DeleteWebhook(caller, tenant, id) ==
    OfTenant(caller, tenant, PG!DeleteWebhook(pg, tenant, id), MEM!DeleteWebhook(mem, tenant, id))

\* The calls below name the authenticated tenant.
CreateAPIKey(t) == OfTenant(t, t, PG!CreateAPIKey(pg, next, t, "n"), MEM!CreateAPIKey(mem, next, t, "n"))
RevokeAPIKey(t, id) == OfTenant(t, t, PG!RevokeAPIKey(pg, t, id), MEM!RevokeAPIKey(mem, t, id))
RotateAPIKey(t, id) == OfTenant(t, t, PG!RotateAPIKey(pg, next, t, id), MEM!RotateAPIKey(mem, next, t, id))
CreateSigningKey(t) == OfTenant(t, t, PG!CreateSigningKey(pg, next, t), MEM!CreateSigningKey(mem, next, t))
RotateSigningKey(t) == OfTenant(t, t, PG!RotateSigningKey(pg, next, t), MEM!RotateSigningKey(mem, next, t))

CreateTrustSession(t, level) ==
    OfTenant(t, t, PG!CreateTrustSession(pg, next, t, level, next), MEM!CreateTrustSession(mem, next, t, level, next))
RecordFailedAttestation(t, level) ==
    OfTenant(t, t, PG!RecordFailedAttestation(pg, next, t, level, next),
                   MEM!RecordFailedAttestation(mem, next, t, level, next))
ConsumeSequence(t, id, seq) ==
    OfTenant(t, t, PG!ConsumeSequence(pg, t, id, seq), MEM!ConsumeSequence(mem, t, id, seq))
RevokeTrustSession(t, id) ==
    OfTenant(t, t, PG!RevokeTrustSession(pg, t, id), MEM!RevokeTrustSession(mem, t, id))

-----------------------------------------------------------------------------

Maybe(S) == S \cup {NoId}

TenantsNext(c) ==
    \/ \E admin \in BOOLEAN, slug \in Maybe(Atoms), tier \in Maybe({"pro"}) : CreateTenant(c, admin, slug, tier)
    \/ \E id \in Maybe(Ids), tier \in Maybe({"pro"}), status \in Maybe({"off"}) : UpdateTenant(c, id, tier, status)

AppsNext(c) == \E t \in Maybe(Tenants), x \in Maybe(Atoms) :
    \/ \E name \in Atoms : CreateApp(c, t, name, x)
    \/ \E app \in Maybe({NotAnApp} \cup {a.id : a \in pg.apps}) : CreateBuild(c, t, app, x)
    \/ \E mode \in Maybe({"protect"}) : CreateProtectionProfile(c, t, x, mode)

PoliciesNext(c) == \E t \in Maybe(Tenants) :
    \/ \E app \in Maybe(Atoms), name \in Maybe({"n"}) : CreatePolicy(c, t, app, name)
    \/ \E id \in Ids : ActivatePolicy(c, t, id)

KeysNext(c) ==
    \/ CreateAPIKey(c)
    \/ CreateSigningKey(c)
    \/ RotateSigningKey(c)
    \/ \E id \in Ids : RevokeAPIKey(c, id) \/ RotateAPIKey(c, id)

HooksNext(c) == \E t \in Maybe(Tenants) :
    \/ \E url \in Maybe({"u"}), types \in SUBSET Atoms : RegisterWebhook(c, t, url, types)
    \/ \E id \in Ids : DeleteWebhook(c, t, id)

SessionsNext(c) ==
    \/ \E level \in Atoms : CreateTrustSession(c, level) \/ RecordFailedAttestation(c, level)
    \/ \E id \in Ids, seq \in 1..MaxSeq : ConsumeSequence(c, id, seq)
    \/ \E id \in Ids : RevokeTrustSession(c, id)

Next ==
    /\ next <= MaxCalls[focus] + 2
    /\ \E c \in Tenants :
         \/ focus = "tenants" /\ TenantsNext(c)
         \/ focus = "apps" /\ AppsNext(c)
         \/ focus = "policies" /\ PoliciesNext(c)
         \/ focus = "keys" /\ KeysNext(c)
         \/ focus = "hooks" /\ HooksNext(c)
         \/ focus = "sessions" /\ SessionsNext(c)

Spec == Init /\ [][Next]_vars

-----------------------------------------------------------------------------

\* The builds only the MemStore has: it takes a build of an app that does not
\* exist, and the foreign key of the table does not.
Orphans == {b \in {mem.builds[id] : id \in DOMAIN mem.builds} : \A a \in pg.apps : a.id # b.app}

\* The two stores answer every call that names a tenant alike, refusals and
\* their class included (MemStore "mirrors the Postgres store's semantics"), unless
\* the foreign key refuses a build, or the build it refused has the hash in the MemStore.
CallsAgree == last.tenant # NoId =>
    \/ last.pg = last.mem
    \/ last.pg.code = "internal"
    \/ last.mem.code = "conflict" /\ Orphans # {}

\* A read handler: the answer of each store, unless refused at the edge.
Read(allowed, p, m) == IF allowed THEN <<p, m>> ELSE <<PG!Err("denied"), MEM!Err("denied")>>
OwnRead(c, t, p, m) == Read(requireTenant(c, t), p, m)
Same(answers) == answers[1] = answers[2]

GetTenant(c, id) == OwnRead(c, id, PG!GetTenant(pg, id), MEM!GetTenant(mem, id))
ListTenants(admin, page) == Read(admin, PG!ListTenants(pg, page), MEM!ListTenants(mem, page))
GetApp(c, t, id) == OwnRead(c, t, PG!GetApp(pg, t, id), MEM!GetApp(mem, t, id))
ListApps(c, t, page) == OwnRead(c, t, PG!ListApps(pg, t, page), MEM!ListApps(mem, t, page))
SearchApps(c, t, query) == OwnRead(c, t, PG!SearchApps(pg, t, query), MEM!SearchApps(mem, t, query))
GetBuild(c, t, id) == OwnRead(c, t, PG!GetBuild(pg, t, id), MEM!GetBuild(mem, t, id))
ListBuilds(c, t, app, page) ==
    OwnRead(c, t, PG!ListBuilds(pg, t, app, page), MEM!ListBuilds(mem, t, app, page))
ListProtectionProfiles(c, t) ==
    OwnRead(c, t, PG!ListProtectionProfiles(pg, t), MEM!ListProtectionProfiles(mem, t))
GetActivePolicy(c, t, app) == OwnRead(c, t, PG!GetActivePolicy(pg, t, app), MEM!GetActivePolicy(mem, t, app))
ListPolicies(c, t, app) == OwnRead(c, t, PG!ListPolicies(pg, t, app), MEM!ListPolicies(mem, t, app))
ListWebhooks(c, t) == OwnRead(c, t, PG!ListWebhooks(pg, t), MEM!ListWebhooks(mem, t))

TenantReadsAgree(c) ==
    /\ \A page \in Pages, admin \in BOOLEAN : Same(ListTenants(admin, page))
    /\ \A id \in Ids : Same(GetTenant(c, id))

AppReadsAgree(c, t) ==
    /\ \A page \in Pages : Same(ListApps(c, t, page))
    /\ \A id \in Ids : Same(GetApp(c, t, id))
    /\ \A x \in Maybe(Atoms) : Same(SearchApps(c, t, x))
    /\ Same(ListProtectionProfiles(c, t))

BuildReadsAgree(c, t) ==
    /\ \A page \in Pages, app \in Maybe(Ids) : Same(ListBuilds(c, t, app, page))
    /\ \A id \in Ids : Same(GetBuild(c, t, id))

PolicyReadsAgree(c, t) ==
    /\ \A id \in Ids : PG!GetPolicy(pg, t, id) = MEM!GetPolicy(mem, t, id)
    /\ \A app \in Maybe(Atoms) : Same(GetActivePolicy(c, t, app)) /\ Same(ListPolicies(c, t, app))

KeyReadsAgree(t) ==
    /\ \A id, secret \in Ids : PG!ValidateAPIKey(pg, id, secret) = MEM!ValidateAPIKey(mem, id, secret)
    /\ \A id \in Ids : PG!GetSigningKey(pg, t, id) = MEM!GetSigningKey(mem, t, id)
    /\ PG!GetActiveSigningKey(pg, t) = MEM!GetActiveSigningKey(mem, t)

HookReadsAgree(c, t) ==
    /\ Same(ListWebhooks(c, t))
    /\ \A e \in Atoms : PG!ListWebhooksForEvent(pg, t, e) = MEM!ListWebhooksForEvent(mem, t, e)

SessionReadsAgree(t) ==
    /\ \A id \in Ids : PG!GetTrustSession(pg, t, id) = MEM!GetTrustSession(mem, t, id)
    /\ \A from, to \in {0, 3, 4} :
         PG!GetTrustSessionStats(pg, t, from, to) = MEM!GetTrustSessionStats(mem, t, from, to)

\* Every read of the two stores, by either tenant, returns the same rows in
\* the same order and on the same pages; the reads that see builds do as long as
\* no build has an app that does not exist.
ReadsAgree == \A t \in Tenants :
    /\ Orphans = {} => PG!GetTenantCounts(pg, t) = MEM!GetTenantCounts(mem, t)
    /\ focus = "tenants" => TenantReadsAgree(t)
    /\ focus = "apps" => \A c \in Tenants : AppReadsAgree(c, t) /\ (Orphans = {} => BuildReadsAgree(c, t))
    /\ focus = "policies" => \A c \in Tenants : PolicyReadsAgree(c, t)
    /\ focus = "keys" => KeyReadsAgree(t)
    /\ focus = "hooks" => \A c \in Tenants : HookReadsAgree(c, t)
    /\ focus = "sessions" => SessionReadsAgree(t)

=============================================================================
