-------------------------- MODULE RegistryPostgres --------------------------
(***************************************************************************)
(* PostgresStore of the registry: each call as an operator from a database *)
(* (one set of rows per table) to <<database, outcome>>, or to an outcome  *)
(* when it only reads.  A call is one transaction, here taken alone;       *)
(* module ControlTx interleaves the ones with several statements.  Ids are *)
(* numbered in the order of creation, so created_at is the id; the empty   *)
(* string is NoId.                                                         *)
(***************************************************************************)
EXTENDS Integers, Sequences, FiniteSets

CONSTANTS NoId,          \* the empty id, name or filter
          None,          \* no value
          DefaultPage,   \* 50 in the code
          MaxPage        \* 500 in the code

Tables == {"tenants", "apps", "builds", "policies", "profiles", "keys", "signing", "hooks", "sessions"}

NewPostgresStore == [t \in Tables |-> {}]

Ok(v) == [code |-> "ok", val |-> v]
Err(c) == [code |-> c, val |-> None]

\* The unique constraints of the migrations, table by table.
Clash(t, r, s) ==
    CASE t = "tenants"  -> r.slug = s.slug
      [] t = "apps"     -> <<r.tenant, r.platform, r.package>> = <<s.tenant, s.platform, s.package>>
      [] t = "builds"   -> <<r.tenant, r.hash>> = <<s.tenant, s.hash>>
      [] t = "policies" -> /\ <<r.tenant, r.app>> = <<s.tenant, s.app>>
                           /\ r.version = s.version \/ (r.active /\ s.active)
      [] t = "profiles" -> <<r.tenant, r.name>> = <<s.tenant, s.name>>
      [] t = "keys"     -> r.id = s.id
      [] t = "signing"  -> r.tenant = s.tenant /\ r.active /\ s.active
      [] t = "sessions" -> r.id = s.id
      [] OTHER          -> FALSE

\* INSERT ... RETURNING, a duplicate key made ErrConflict by wrapPgErr.
Insert(db, t, row) ==
    IF \E r \in db[t] : Clash(t, r, row)
    THEN <<db, Err("conflict")>>
    ELSE <<[db EXCEPT ![t] = @ \cup {row}], Ok(row)>>

\* QueryRow ... Scan, no row made ErrNotFound by wrapPgErr.
QueryRow(rows) == IF rows = {} THEN Err("not_found") ELSE Ok(CHOOSE r \in rows : TRUE)

\* WithTenantTx refuses the empty tenant with an error of no class, and row
\* security leaves the tenant's rows only.
WithTenantTx(tenant, out) == IF tenant = NoId THEN Err("internal") ELSE out
Own(db, t, tenant) == {r \in db[t] : r.tenant = tenant}

\* ORDER BY created_at, id.
RECURSIVE ByCreation(_)
ByCreation(rows) ==
    IF rows = {} THEN <<>>
    ELSE LET first == CHOOSE r \in rows : \A s \in rows : r.id <= s.id
         IN  <<first>> \o ByCreation(rows \ {first})

\* A page token is the offset it encodes, 0 for none; a negative one stands
\* for a token that does not decode.
clampPageSize(n) == IF n <= 0 THEN DefaultPage ELSE IF n > MaxPage THEN MaxPage ELSE n
decodeOffset(token) == IF token < 0 THEN Err("invalid") ELSE Ok(token)

Limit(rows, n, offset) == SubSeq(rows, offset + 1, IF offset + n < Len(rows) THEN offset + n ELSE Len(rows))

\* LIMIT size+1 OFFSET offset, then the extra row is cut off and only tells
\* that there are more.
paginate(rows, size, offset) ==
    LET got == Limit(rows, size + 1, offset) IN
    IF Len(got) > size
    THEN [items |-> SubSeq(got, 1, size), next |-> offset + size]
    ELSE [items |-> got, next |-> 0]

Listing(rows, page) ==
    IF decodeOffset(page.token).code # "ok" THEN decodeOffset(page.token)
    ELSE Ok(paginate(ByCreation(rows), clampPageSize(page.size), page.token))

-----------------------------------------------------------------------------
(* Tenants.                                                                *)

CreateTenant(db, id, name, slug, tier) ==
    IF name = NoId \/ slug = NoId THEN <<db, Err("invalid")>>
    ELSE Insert(db, "tenants", [id |-> id, name |-> name, slug |-> slug,
                                tier |-> IF tier = NoId THEN "starter" ELSE tier, status |-> "active"])

GetTenant(db, id) == QueryRow({t \in db.tenants : t.id = id})

ListTenants(db, page) == Listing(db.tenants, page)

\* COALESCE(NULLIF(new, ''), old): an empty field is left as it was.
UpdateTenant(db, id, tier, status) ==
    IF id = NoId THEN <<db, Err("invalid")>>
    ELSE IF \A t \in db.tenants : t.id # id THEN <<db, Err("not_found")>>
    ELSE LET old == CHOOSE t \in db.tenants : t.id = id
             new == [old EXCEPT !.tier = IF tier = NoId THEN @ ELSE tier,
                                !.status = IF status = NoId THEN @ ELSE status]
         IN  <<[db EXCEPT !.tenants = (@ \ {old}) \cup {new}], Ok(new)>>

-----------------------------------------------------------------------------
(* Apps, builds, profiles.                                                 *)

CreateApp(db, id, tenant, name, platform, package) ==
    IF NoId \in {tenant, name, package} THEN <<db, Err("invalid")>>
    ELSE Insert(db, "apps", [id |-> id, tenant |-> tenant, name |-> name,
                             platform |-> platform, package |-> package])

GetApp(db, tenant, id) == WithTenantTx(tenant, QueryRow({a \in Own(db, "apps", tenant) : a.id = id}))

ListApps(db, tenant, page) == WithTenantTx(tenant, Listing(Own(db, "apps", tenant), page))

\* The pattern '%%' of an empty query matches all; names and packages are
\* atoms here, so a query matches the atom it names.
SearchApps(db, tenant, query) ==
    WithTenantTx(tenant, Ok({a \in Own(db, "apps", tenant) : query \in {NoId, a.name, a.package}}))

\* A build of an app that does not exist breaks the foreign key, which is tested
\* after the unique constraint and looks at the apps of every tenant; its violation
\* is an error of no class.
CreateBuild(db, id, tenant, app, hash) ==
    LET inserted == Insert(db, "builds", [id |-> id, tenant |-> tenant, app |-> app, hash |-> hash]) IN
    IF NoId \in {tenant, app, hash} THEN <<db, Err("invalid")>>
    ELSE IF inserted[2].code = "ok" /\ \A a \in db.apps : a.id # app THEN <<db, Err("internal")>>
    ELSE inserted

GetBuild(db, tenant, id) == WithTenantTx(tenant, QueryRow({b \in Own(db, "builds", tenant) : b.id = id}))

ListBuilds(db, tenant, app, page) ==
    WithTenantTx(tenant, Listing({b \in Own(db, "builds", tenant) : app \in {NoId, b.app}}, page))

CreateProtectionProfile(db, id, tenant, name, mode) ==
    IF NoId \in {tenant, name} THEN <<db, Err("invalid")>>
    ELSE Insert(db, "profiles", [id |-> id, tenant |-> tenant, name |-> name,
                                 mode |-> IF mode = NoId THEN "observe" ELSE mode])

ListProtectionProfiles(db, tenant) == WithTenantTx(tenant, Ok(ByCreation(Own(db, "profiles", tenant))))

-----------------------------------------------------------------------------
(* Policies: a scope is a tenant and an app, or NoId for the whole tenant. *)

Scope(db, tenant, app) == {p \in Own(db, "policies", tenant) : p.app = app}
MaxVersion(rows) == IF rows = {} THEN 0 ELSE CHOOSE v \in {p.version : p \in rows} : \A p \in rows : p.version <= v

CreatePolicy(db, id, tenant, app, name, mode) ==
    IF NoId \in {tenant, name} THEN <<db, Err("invalid")>>
    ELSE Insert(db, "policies",
                [id |-> id, tenant |-> tenant, app |-> app, name |-> name, mode |-> mode, active |-> FALSE,
                 version |-> MaxVersion(Scope(db, tenant, app)) + 1])

\* An app's own active policy before the tenant-wide one.
GetActivePolicy(db, tenant, app) ==
    LET rows == {p \in Own(db, "policies", tenant) : p.active /\ p.app \in {app, NoId}}
        own == {p \in rows : p.app = app}
    IN  WithTenantTx(tenant, QueryRow(IF own # {} THEN own ELSE rows))

GetPolicy(db, tenant, id) ==
    IF NoId \in {tenant, id} THEN Err("invalid")
    ELSE QueryRow({p \in Own(db, "policies", tenant) : p.id = id})

\* ORDER BY app_id, version DESC; the order is left to the version here.
ListPolicies(db, tenant, app) ==
    WithTenantTx(tenant, Ok({p \in Own(db, "policies", tenant) : app \in {NoId, p.app}}))

\* Deactivate the scope's active policy, then activate the target.
ActivatePolicy(db, tenant, id) ==
    LET found == {p \in Own(db, "policies", tenant) : p.id = id} IN
    IF tenant = NoId THEN <<db, Err("internal")>>
    ELSE IF found = {} THEN <<db, Err("not_found")>>
    ELSE LET app == (CHOOSE p \in found : TRUE).app
             off == {IF p \in Scope(db, tenant, app) THEN [p EXCEPT !.active = FALSE] ELSE p : p \in db.policies}
             on == {IF p.id = id THEN [p EXCEPT !.active = TRUE] ELSE p : p \in off}
         IN  <<[db EXCEPT !.policies = on], QueryRow({p \in on : p.id = id})>>

-----------------------------------------------------------------------------
(* API keys: the id is the key id, the secret stands for its hash.         *)

CreateAPIKey(db, id, tenant, name) ==
    IF tenant = NoId THEN <<db, Err("invalid")>>
    ELSE Insert(db, "keys", [id |-> id, tenant |-> tenant, name |-> name, secret |-> id, status |-> "active"])

\* Read across tenants by key id; the tenant is the key's.
ValidateAPIKey(db, id, secret) ==
    LET found == QueryRow({k \in db.keys : k.id = id}) IN
    IF found.code # "ok" THEN found
    ELSE IF found.val.status # "active" \/ found.val.secret # secret THEN Err("not_found")
    ELSE Ok([tenant |-> found.val.tenant, key |-> id])

SetStatus(db, k, status) == [db EXCEPT !.keys = (@ \ {k}) \cup {[k EXCEPT !.status = status]}]

RevokeAPIKey(db, tenant, id) ==
    LET found == {k \in Own(db, "keys", tenant) : k.id = id /\ k.status = "active"} IN
    IF tenant = NoId THEN <<db, Err("internal")>>
    ELSE IF found = {} THEN <<db, Err("not_found")>>
    ELSE <<SetStatus(db, CHOOSE k \in found : TRUE, "revoked"), Ok(None)>>

\* The old key is revoked and one like it inserted.
RotateAPIKey(db, new, tenant, id) ==
    LET found == {k \in Own(db, "keys", tenant) : k.id = id /\ k.status = "active"}
        old == CHOOSE k \in found : TRUE
    IN  IF tenant = NoId THEN <<db, Err("internal")>>
        ELSE IF found = {} THEN <<db, Err("not_found")>>
        ELSE Insert(SetStatus(db, old, "revoked"), "keys",
                    [id |-> new, tenant |-> tenant, name |-> old.name, secret |-> new, status |-> "active"])

-----------------------------------------------------------------------------
(* Signing keys.                                                           *)

CreateSigningKey(db, id, tenant) ==
    IF tenant = NoId THEN <<db, Err("invalid")>>
    ELSE LET off == {IF k.tenant = tenant THEN [k EXCEPT !.active = FALSE] ELSE k : k \in db.signing}
         IN  Insert([db EXCEPT !.signing = off], "signing", [id |-> id, tenant |-> tenant, active |-> TRUE])

\* As CreateSigningKey, without its test of the tenant.
RotateSigningKey(db, id, tenant) ==
    IF tenant = NoId THEN <<db, Err("internal")>> ELSE CreateSigningKey(db, id, tenant)

GetActiveSigningKey(db, tenant) == WithTenantTx(tenant, QueryRow({k \in Own(db, "signing", tenant) : k.active}))

GetSigningKey(db, tenant, id) == WithTenantTx(tenant, QueryRow({k \in Own(db, "signing", tenant) : k.id = id}))

-----------------------------------------------------------------------------
(* Webhooks.                                                               *)

CreateWebhook(db, id, tenant, url, types) ==
    IF NoId \in {tenant, url} THEN <<db, Err("invalid")>>
    ELSE Insert(db, "hooks", [id |-> id, tenant |-> tenant, url |-> url, types |-> types, active |-> TRUE])

ListWebhooks(db, tenant) == WithTenantTx(tenant, Ok(ByCreation(Own(db, "hooks", tenant))))

DeleteWebhook(db, tenant, id) ==
    LET gone == {h \in Own(db, "hooks", tenant) : h.id = id} IN
    IF tenant = NoId THEN <<db, Err("internal")>>
    ELSE <<[db EXCEPT !.hooks = @ \ gone], Ok([deleted |-> gone # {}])>>

\* A webhook with no event types takes them all.
ListWebhooksForEvent(db, tenant, type) ==
    WithTenantTx(tenant, Ok({h \in Own(db, "hooks", tenant) : h.active /\ (type \in h.types \/ h.types = {})}))

-----------------------------------------------------------------------------
(* Trust sessions: the id is the token id.                                 *)

CreateTrustSession(db, id, tenant, level, at) ==
    IF NoId \in {tenant, id} THEN <<db, Err("invalid")>>
    ELSE <<Insert(db, "sessions", [id |-> id, tenant |-> tenant, level |-> level, seq |-> 0,
                                   status |-> "active", at |-> at])[1], Ok(None)>>

GetTrustSession(db, tenant, id) == WithTenantTx(tenant, QueryRow({s \in Own(db, "sessions", tenant) : s.id = id}))

Replace(db, s, new) == [db EXCEPT !.sessions = (@ \ {s}) \cup {new}]

\* The row is locked from the read to the write.
ConsumeSequence(db, tenant, id, seq) ==
    LET found == {s \in Own(db, "sessions", tenant) : s.id = id /\ s.status = "active"}
        s == CHOOSE x \in found : TRUE
    IN  IF tenant = NoId THEN <<db, Err("internal")>>
        ELSE IF found = {} THEN <<db, Err("not_found")>>
        ELSE IF seq <= s.seq THEN <<db, Err("replay")>>
        ELSE <<Replace(db, s, [s EXCEPT !.seq = seq]), Ok(None)>>

RevokeTrustSession(db, tenant, id) ==
    LET found == {s \in Own(db, "sessions", tenant) : s.id = id}
        s == CHOOSE x \in found : TRUE
    IN  IF tenant = NoId THEN <<db, Err("internal")>>
        ELSE IF found = {} THEN <<db, Err("not_found")>>
        ELSE <<Replace(db, s, [s EXCEPT !.status = "revoked"]), Ok(None)>>

RecordFailedAttestation(db, id, tenant, level, at) ==
    IF tenant = NoId THEN <<db, Err("invalid")>>
    ELSE <<Insert(db, "sessions", [id |-> id, tenant |-> tenant, level |-> level, seq |-> 0,
                                   status |-> "failed", at |-> at])[1], Ok(None)>>

\* issued_at within [from, to], 0 for no bound.
GetTrustSessionStats(db, tenant, from, to) ==
    LET rows == {s \in Own(db, "sessions", tenant) : (from = 0 \/ s.at >= from) /\ (to = 0 \/ s.at <= to)}
        issued == {s \in rows : s.status # "failed"}
    IN  WithTenantTx(tenant,
          Ok([total |-> Cardinality(rows), issued |-> Cardinality(issued),
              failed |-> Cardinality(rows \ issued),
              byLevel |-> [l \in {s.level : s \in issued} |-> Cardinality({s \in issued : s.level = l})]]))

GetTenantCounts(db, tenant) ==
    WithTenantTx(tenant,
      Ok([apps |-> Cardinality(Own(db, "apps", tenant)), builds |-> Cardinality(Own(db, "builds", tenant)),
          policies |-> Cardinality({p \in Own(db, "policies", tenant) : p.active}),
          hooks |-> Cardinality(Own(db, "hooks", tenant))]))
=============================================================================
