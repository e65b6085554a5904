--------------------------- MODULE SiemConnectors ---------------------------
(***************************************************************************)
(* SIEM connectors: SiemService over a PostgresConnectorStore and a        *)
(* MemConnectorStore side by side, and what the exporter renders for a     *)
(* stored connector from an event.  A record is the set of its fields and  *)
(* a rendered row adds the envelope's keys; values play no part.           *)
(***************************************************************************)
EXTENDS Integers, Sequences, FiniteSets

CONSTANTS NoId, None, Tenants,
          Kinds,        \* sink kinds a request may carry
          AllowLists,   \* field lists a request may carry
          MaxCalls      \* bound on the calls of a behaviour

VARIABLES pg,      \* set of rows
          mem,     \* tenant -> id -> connector
          next,    \* next id
          last     \* outcome of each store

vars == <<pg, mem, next, last>>

Formats == {"unspecified", "splunk_hec", "sentinel", "ecs"}

canonicalFields == {"tenant_id", "app_id", "event_type", "risk_level", "risk_bits", "risk_signals", "confidence",
                    "build_hash", "policy_hash", "install_key_hash", "coarse_time_bucket", "country_or_region"}

Ok(v) == [code |-> "ok", val |-> v]
Err(c) == [code |-> c, val |-> None]

NormalizeAllowList(requested) ==
    IF requested = {} THEN Ok(canonicalFields)
    ELSE IF requested \subseteq canonicalFields THEN Ok(requested)
    ELSE Err("invalid")

defaultFormatFor(kind) ==
    CASE kind = "splunk_hec" -> "splunk_hec"
      [] kind = "sentinel"   -> "sentinel"
      [] kind = "elastic"    -> "ecs"
      [] OTHER               -> "unspecified"

formatMatchesKind(kind, format) == format = defaultFormatFor(kind)

\* https, http or another scheme; only the first two name a host.
validateEndpoint(endpoint) == endpoint \in {"https", "http"}

validateInput(in) ==
    /\ in.endpoint # "" /\ validateEndpoint(in.endpoint)
    /\ in.secret # ""
    /\ in.kind # "unspecified"
    /\ formatMatchesKind(in.kind, in.format)
    /\ in.kind = "sentinel" => in.settings = "dcr"
    /\ in.kind = "elastic" => in.settings = "index"

\* The connector both stores keep, or the refusal.
Connector(id, tenant, in) ==
    LET full == [in EXCEPT !.format = IF @ = "unspecified" THEN defaultFormatFor(in.kind) ELSE @]
        allow == NormalizeAllowList(in.allow)
    IN  IF ~validateInput(full) THEN Err("invalid")
        ELSE IF allow.code # "ok" THEN allow
        ELSE Ok([id |-> id, tenant |-> tenant, kind |-> full.kind, format |-> full.format, allow |-> allow.val,
                 settings |-> full.settings, active |-> TRUE])

-----------------------------------------------------------------------------
(* The two stores.                                                         *)

create(db, id, tenant, in) ==
    LET c == Connector(id, tenant, in) IN
    IF c.code # "ok" THEN <<db, c>> ELSE <<db \cup {c.val}, c>>

PgListConnectors(db, tenant) == {c \in db : c.tenant = tenant}

PgDeleteConnector(db, tenant, id) ==
    LET gone == {c \in db : c.tenant = tenant /\ c.id = id} IN <<db \ gone, Ok([deleted |-> gone # {}])>>

PgListActiveWithSecrets(db, tenant) == {c \in db : c.tenant = tenant /\ c.active}

CreateConnector(m, id, tenant, in) ==
    LET c == Connector(id, tenant, in) IN
    IF c.code # "ok" THEN <<m, c>>
    ELSE <<[m EXCEPT ![tenant] = [i \in DOMAIN @ \cup {id} |-> IF i = id THEN c.val ELSE @[i]]], c>>

ListConnectors(m, tenant) == {m[tenant][i] : i \in DOMAIN m[tenant]}

DeleteConnector(m, tenant, id) ==
    IF id \notin DOMAIN m[tenant] THEN <<m, Ok([deleted |-> FALSE])>>
    ELSE <<[m EXCEPT ![tenant] = [i \in DOMAIN @ \ {id} |-> @[i]]], Ok([deleted |-> TRUE])>>

ListActiveWithSecrets(m, tenant) == {c \in ListConnectors(m, tenant) : c.active}

-----------------------------------------------------------------------------
(* Rendering.                                                              *)

\* Mutant: fields that the connector does not list pass.
allowSetAll(allow) == canonicalFields

\* A list with nothing canonical in it stands for the whole contract.
allowSet(allow) ==
    IF allow \cap canonicalFields = {} THEN canonicalFields ELSE allow \cap canonicalFields

\* The country is there only for an event that has one.
minimized(country, allow) ==
    (IF country THEN canonicalFields ELSE canonicalFields \ {"country_or_region"}) \cap allow

coarseTimeOf(record) == "coarse_time_bucket" \in record

Timed(record, key) == IF coarseTimeOf(record) THEN record \cup {key} ELSE record

renderSplunk(c, record) == Ok(Timed(record, "time"))
renderSentinel(c, record) == IF c.settings = "dcr" THEN Ok(Timed(record, "TimeGenerated")) ELSE Err("render")
renderElastic(c, record) == IF c.settings = "index" THEN Ok(Timed(record, "@timestamp")) ELSE Err("render")

renderBatch(c, record) ==
    CASE c.format = "splunk_hec" -> renderSplunk(c, record)
      [] c.format = "sentinel"   -> renderSentinel(c, record)
      [] c.format = "ecs"        -> renderElastic(c, record)
      [] OTHER                   -> Err("render")

Rendered(c, country) == renderBatch(c, minimized(country, allowSet(c.allow)))

-----------------------------------------------------------------------------

\* Every kind, format, list and settings with an endpoint and a secret, and one
\* request that may lack either.
Inputs == [kind : Kinds, format : Formats, endpoint : {"https"}, secret : {"s"},
           allow : AllowLists, settings : {"dcr", "index"}]
          \cup [kind : {"splunk_hec"}, format : {"unspecified"}, endpoint : {"http", "https"}, secret : {"", "s"},
                allow : {{}}, settings : {"none"}]

Init ==
    /\ pg = {} /\ mem = [t \in Tenants |-> <<>>]
    /\ next = 1
    /\ last = [pg |-> None, mem |-> None]

requireTenant(caller, tenant) == tenant \in {NoId, caller}

Answer(p, m) ==
    /\ pg' = p[1] /\ mem' = m[1]
    /\ last' = [pg |-> p[2], mem |-> m[2]]
    /\ next' = next + 1

Refused(caller, tenant) ==
    /\ ~requireTenant(caller, tenant)
    /\ Answer(<<pg, Err("denied")>>, <<mem, Err("denied")>>)

\* The service takes https endpoints only.
RegisterConnector(caller, in) ==
    IF in.secret = "" \/ in.endpoint # "https"
    THEN Answer(<<pg, Err("invalid")>>, <<mem, Err("invalid")>>)
    ELSE Answer(create(pg, next, caller, in), CreateConnector(mem, next, caller, in))

RemoveConnector(caller, id) == Answer(PgDeleteConnector(pg, caller, id), DeleteConnector(mem, caller, id))

Next ==
    /\ next <= MaxCalls
    /\ \E caller \in Tenants :
         \/ \E tenant \in Tenants : Refused(caller, tenant)
         \/ \E in \in Inputs : RegisterConnector(caller, in)
         \/ \E id \in 1..next : RemoveConnector(caller, id)

Spec == Init /\ [][Next]_vars

-----------------------------------------------------------------------------

\* The two connector stores answer and list alike.
ConnectorStoresAgree ==
    /\ last.pg = last.mem
    /\ \A t \in Tenants : /\ PgListConnectors(pg, t) = ListConnectors(mem, t)
                          /\ PgListActiveWithSecrets(pg, t) = ListActiveWithSecrets(mem, t)

\* The kinds a connector can have by name; an enum field may carry another number.
NamedKinds == {"splunk_hec", "sentinel", "elastic"}

\* A connector that registration accepted can be delivered to whatever the event
\* (validateEndpoint: a typo is to surface "at registration time rather than later
\* as repeated delivery failures"), exactly when its kind has a name: a kind that is
\* a number without a name is accepted with no format, and no event can be rendered
\* for it.
RegisteredRenders == \A c \in pg, country \in BOOLEAN : Rendered(c, country).code = "ok" <=> c.kind \in NamedKinds

\* Whatever leaves for a sink was listed by the connector, and the envelope
\* carries the event's time only if the list has the time bucket.
ExportWithinAllowList == \A c \in pg, country \in BOOLEAN : Rendered(c, country).code = "ok" =>
    LET row == Rendered(c, country).val IN
    /\ row \cap canonicalFields \subseteq c.allow
    /\ (row \ canonicalFields) # {} => "coarse_time_bucket" \in c.allow
=============================================================================
