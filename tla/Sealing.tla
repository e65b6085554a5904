------------------------------- MODULE Sealing -------------------------------
(***************************************************************************)
(* Sealing of tenant secrets: the platform key, the dedicated tier and     *)
(* customer-managed keys (server/shared/crypto/kek.go, dedicated.go,       *)
(* crypto.go, kms_http.go), and the two cached resolvers that choose       *)
(* between them (server/control-plane/registry/cmk.go, dedicated.go).      *)
(*                                                                         *)
(* One server process with its caches; the tenants row is shared with the  *)
(* other processes, which change it without touching these caches.  Calls  *)
(* are the signing-key operations in flight: each resolves the dedicated   *)
(* tier, then the customer-managed key, then seals or opens; a server can  *)
(* be configured without either (buildTenantSealer in main.go).            *)
(***************************************************************************)
EXTENDS Naturals

CONSTANTS
    None,
    Tenants,
    KeyURIs,        \* customer-managed keys a tenant may configure
    Calls,          \* numbered slots for operations in flight; the lowest is filled first
    TTL,            \* DefaultCMKCacheTTL
    Here,           \* whether an update is made by this process: BOOLEAN,
                    \* or {TRUE} where it is the only one
    MaxTime, MaxCalls, MaxChanges, MaxFaults      \* bounds

ASSUME TTLAssumption == TTL \in Nat \ {0}

VARIABLES
    tiers,      \* the kinds of key that this process is configured for
    row,        \* row[t] = [cmk, dedicated]: the tenants row
    cache,      \* cache[kind][t]: [value, expiresAt] or None
    lastSweep,  \* lastSweep[kind]
    setter,     \* an update made here whose cache entry is yet to be dropped
    call,       \* call[c]
    secret,     \* secret[t]: the sealed signing key, or None
    changed,    \* changed[t]: when the row last changed
    time, begun, changes, faults

vars == <<tiers, row, cache, lastSweep, setter, call, secret, changed, time, begun, changes, faults>>

Kinds == {"dedicated", "cmk"}

Idle == [stage |-> "idle", what |-> None, tenant |-> None, kind |-> None,
         now |-> 0, began |-> 0, value |-> None, answer |-> None]

Init ==
    /\ tiers \in SUBSET Kinds
    /\ row \in [Tenants -> [cmk : KeyURIs \cup {None}, dedicated : BOOLEAN]]
    /\ cache = [k \in Kinds |-> [t \in Tenants |-> None]]
    /\ lastSweep = [k \in Kinds |-> 0]
    /\ setter = None
    /\ call = [c \in Calls |-> Idle]
    /\ secret = [t \in Tenants |-> None]
    /\ changed = [t \in Tenants |-> 0]
    /\ time = TTL /\ begun = 0 /\ changes = 0 /\ faults = 0

Fault == faults < MaxFaults /\ faults' = faults + 1

----------------------------------------------------------------------------
(* Envelopes.  The magic names the domain; a wrapped key names its URI.    *)

Platform == [domain |-> "platform", uri |-> None]
Dedicated == [domain |-> "dedicated", uri |-> None]
encodeCMKEnvelope(uri) == [domain |-> "cmk", uri |-> uri]
Domains == {Platform, Dedicated} \cup {encodeCMKEnvelope(uri) : uri \in KeyURIs}

\* What is stored: the domain, and as history when the call that sealed it began.
Envelopes == [sealed : Domains, began : Nat]

ASSUME NoneAssumption ==
    None \notin KeyURIs /\ None \notin BOOLEAN /\ None \notin {"sealed", "opened"} /\ None \notin Envelopes

\* The domain the tenants row calls for: a key, known to the server or not,
\* rules the dedicated tier out.
Configured(t) ==
    IF row[t].cmk # None THEN IF "cmk" \in tiers THEN encodeCMKEnvelope(row[t].cmk) ELSE Platform
    ELSE IF row[t].dedicated /\ "dedicated" \in tiers THEN Dedicated ELSE Platform

hasDedicatedMagic(sealed) == sealed.domain = "dedicated"
hasCMKMagic(sealed) == sealed.domain = "cmk"

\* Opening what is stored with what the tenant resolves to now.  A customer's
\* KMS unwraps only what the same key wrapped.
OpenForTenant(resolved, sealed) ==
    IF resolved.domain = "dedicated"
    THEN IF hasDedicatedMagic(sealed) THEN "opened" ELSE "not_dedicated_envelope"
    ELSE IF "dedicated" \in tiers /\ hasDedicatedMagic(sealed) THEN "dedicated_disabled"
    ELSE IF resolved.domain = "cmk"
    THEN IF ~hasCMKMagic(sealed) THEN "not_cmk_envelope"
         ELSE IF sealed.uri = resolved.uri THEN "opened" ELSE "kms_refused"
    ELSE IF "cmk" \in tiers /\ hasCMKMagic(sealed) THEN "cmk_disabled"
    ELSE IF sealed.domain = "platform" THEN "opened" ELSE "not_decrypted"

----------------------------------------------------------------------------
(* The tenants row.  An update made by this process drops its own cache    *)
(* entry once the statement has returned.                                  *)

SetRow(t, kind, new, here) ==
    /\ changes < MaxChanges /\ setter = None /\ row[t] # new
    /\ row' = [row EXCEPT ![t] = new]
    /\ changed' = [changed EXCEPT ![t] = time]
    /\ changes' = changes + 1
    /\ setter' = IF here THEN <<kind, t>> ELSE None
    /\ UNCHANGED <<tiers, cache, lastSweep, call, secret, time, begun, faults>>

SetTenantCMKKeyURI(t, uri, here) == SetRow(t, "cmk", [row[t] EXCEPT !.cmk = uri], here)

SetTenantDedicatedIsolation(t, on, here) ==
    SetRow(t, "dedicated", [row[t] EXCEPT !.dedicated = on], here)

Invalidate ==
    /\ setter # None
    /\ cache' = [cache EXCEPT ![setter[1]][setter[2]] = None]
    /\ setter' = None
    /\ UNCHANGED <<tiers, row, lastSweep, call, secret, changed, time, begun, changes, faults>>

----------------------------------------------------------------------------
(* An operation on a tenant's signing key.                                 *)

SignedKeyOps == {"seal", "open"}

\* Behind the dedicated tier: the customer's key, where the server knows of
\* them, or the platform key.
Fallback(o) ==
    IF "cmk" \in tiers THEN [o EXCEPT !.stage = "lookup", !.kind = "cmk", !.value = None, !.now = 0]
    ELSE [o EXCEPT !.stage = "crypt", !.value = Platform, !.now = 0]

Begin(c, what, t) ==
    LET o == [Idle EXCEPT !.what = what, !.tenant = t, !.began = time]
    IN  /\ call[c].stage \in {"idle", "done"}
        /\ \A d \in Calls : d < c => call[d].stage \notin {"idle", "done"}
        /\ what = "open" => secret[t] # None
        /\ begun < MaxCalls /\ begun' = begun + 1
        /\ call' = [call EXCEPT ![c] = IF "dedicated" \in tiers THEN [o EXCEPT !.stage = "lookup", !.kind = "dedicated"]
                                       ELSE Fallback(o)]
        /\ UNCHANGED <<tiers, row, cache, lastSweep, setter, secret, changed, time, changes, faults>>

\* Mutant: the dedicated tier is asked for whatever key the tenant has.
SelectedShadowing(kind, t) ==
    IF kind = "cmk" THEN row[t].cmk
    ELSE IF row[t].dedicated THEN TRUE ELSE None

\* What the row says to each resolver; the dedicated tier yields to a key.
Selected(kind, t) ==
    IF kind = "cmk" THEN row[t].cmk
    ELSE IF row[t].dedicated /\ row[t].cmk = None THEN TRUE ELSE None

\* The resolver has answered: not dedicated falls back; any other answer fixes
\* the domain.
Resolved(o, value) ==
    IF o.kind = "dedicated" /\ value = None
    THEN Fallback(o)
    ELSE [o EXCEPT !.stage = "crypt", !.now = 0,
                   !.value = IF o.kind = "dedicated" THEN Dedicated
                             ELSE IF value = None THEN Platform ELSE encodeCMKEnvelope(value)]

Fresh(entry, now) == IF entry = None THEN FALSE ELSE now < entry.expiresAt

\* now is read before the cache is.
Lookup(c) ==
    LET o == call[c]
        entry == cache[o.kind][o.tenant]
    IN  /\ o.stage = "lookup"
        /\ call' = [call EXCEPT ![c] = IF Fresh(entry, time) THEN Resolved(o, entry.value)
                                       ELSE [o EXCEPT !.stage = "query", !.now = time]]
        /\ UNCHANGED <<tiers, row, cache, lastSweep, setter, secret, changed, time, begun, changes, faults>>

\* The call returns; envelope is what it sealed or was asked to open.
Ends(c, answer, envelope) ==
    call' = [call EXCEPT ![c] = [@ EXCEPT !.stage = "done", !.answer = answer,
                                          !.kind = None, !.now = 0, !.value = envelope]]

QueryRow(c) ==
    LET o == call[c]
    IN  /\ o.stage = "query"
        /\ \/ Ends(c, "lookup_failed", None) /\ Fault
           \/ /\ call' = [call EXCEPT ![c].stage = "put",
                                      ![c].value = Selected(o.kind, o.tenant)]
              /\ UNCHANGED faults
        /\ UNCHANGED <<tiers, row, cache, lastSweep, setter, secret, changed, time, begun, changes>>

Expiry(o) == o.now + TTL

\* At most once per TTL the expired entries go.
sweepLocked(entries, kind, now) ==
    IF now - lastSweep[kind] < TTL THEN entries
    ELSE [t \in Tenants |-> IF Fresh(entries[t], now) THEN entries[t] ELSE None]

Put(c) ==
    LET o == call[c]
        entry == [value |-> o.value, expiresAt |-> Expiry(o)]
    IN  /\ o.stage = "put"
        /\ cache' = [cache EXCEPT ![o.kind] =
                        sweepLocked([@ EXCEPT ![o.tenant] = entry], o.kind, o.now)]
        /\ lastSweep' = [lastSweep EXCEPT ![o.kind] = IF o.now - @ < TTL THEN @ ELSE o.now]
        /\ call' = [call EXCEPT ![c] = Resolved(o, o.value)]
        /\ UNCHANGED <<tiers, row, setter, secret, changed, time, begun, changes, faults>>

\* A KMS that fails, or returns a wrapped key that cannot be framed, leaves
\* nothing sealed.
SealForTenant(c) ==
    LET envelope == [sealed |-> call[c].value, began |-> call[c].began]
    IN  \/ /\ secret' = [secret EXCEPT ![call[c].tenant] = envelope]
           /\ Ends(c, "sealed", envelope) /\ UNCHANGED faults
        \/ /\ call[c].value.domain = "cmk"
           /\ Ends(c, "kms_failed", None) /\ Fault /\ UNCHANGED secret

Open(c) ==
    LET envelope == secret[call[c].tenant]
    IN  /\ \/ /\ Ends(c, OpenForTenant(call[c].value, envelope.sealed), envelope)
              /\ UNCHANGED faults
           \/ call[c].value.domain = "cmk" /\ Ends(c, "kms_failed", None) /\ Fault
        /\ UNCHANGED secret

Crypt(c) ==
    /\ call[c].stage = "crypt"
    /\ IF call[c].what = "seal" THEN SealForTenant(c) ELSE Open(c)
    /\ UNCHANGED <<tiers, row, cache, lastSweep, setter, changed, time, begun, changes>>

Tick ==
    /\ time < MaxTime
    /\ time' = time + 1
    /\ UNCHANGED <<tiers, row, cache, lastSweep, setter, call, secret, changed, begun, changes, faults>>

Next ==
    \/ \E t \in Tenants, here \in Here :
        \/ \E uri \in KeyURIs \cup {None} : SetTenantCMKKeyURI(t, uri, here)
        \/ \E on \in BOOLEAN : SetTenantDedicatedIsolation(t, on, here)
    \/ Invalidate
    \/ \E c \in Calls :
        \/ \E what \in SignedKeyOps, t \in Tenants : Begin(c, what, t)
        \/ Lookup(c) \/ QueryRow(c) \/ Put(c) \/ Crypt(c)
    \/ Tick

Spec == Init /\ [][Next]_vars

----------------------------------------------------------------------------
(* Properties.                                                             *)

\* A row that has stood still for a TTL before an operation begins.
Settled(t, began) == changed[t] + TTL <= began

\* The dedicated tier never shadows a customer's key, nor the platform key
\* either (registry/dedicated.go:19, kek.go:90): a secret sealed once the
\* configuration has stood for a TTL is in the domain the tenants row names,
\* whatever the caches, the concurrent lookups and the KMS do.
SealedAsConfigured ==
    \A c \in Calls :
        LET o == call[c]
        IN  o.answer = "sealed" /\ Settled(o.tenant, o.began)
            => o.value.sealed = Configured(o.tenant)

\* What was sealed opens (kek.go:150): with the configuration standing since a
\* TTL before the secret was sealed, an open fails only for the KMS or the
\* database, in whichever order calls fill the caches.
SettledOpens ==
    \A c \in Calls :
        LET o == call[c]
        IN  o.what = "open" /\ o.stage = "done" /\ o.value # None
                /\ Settled(o.tenant, o.began) /\ Settled(o.tenant, o.value.began)
            => o.answer = "opened"

\* A change of key or tier shuts the old domain (kek.go:83, dedicated.go:36):
\* once the change has stood for a TTL, an open succeeds only if the secret is
\* in the domain the tenants row names; there is no falling back.
OldDomainShut ==
    \A c \in Calls :
        LET o == call[c]
        IN  o.answer = "opened" /\ Settled(o.tenant, o.began)
            => o.value.sealed = Configured(o.tenant)

\* A secret is sealed in the domain the tenant's row names and opens while that
\* stands; a change of key or tier shuts the old domain (SealForTenant, OpenForTenant).
DomainFollowsRow == SealedAsConfigured /\ SettledOpens /\ OldDomainShut
=============================================================================
