------------------------- MODULE CompliancePostgres -------------------------
(***************************************************************************)
(* PostgresStore of the compliance package: one set of rows per table, one *)
(* call per transaction (module ControlTx interleaves their statements).   *)
(* now is the clock's reading during the call.                             *)
(***************************************************************************)
EXTENDS Integers, Sequences, FiniteSets

CONSTANTS NoId, None, DefaultPage, MaxPage, DefaultThreshold

Chain == INSTANCE AuditChain
Kill == INSTANCE KillSwitch

NewPostgresStore == [audit |-> {}, records |-> {}, switches |-> {}, canaries |-> {}]

Ok(v) == [code |-> "ok", val |-> v]
Err(c) == [code |-> c, val |-> None]

Own(rows, tenant) == {r \in rows : r.tenant = tenant}

\* ORDER BY seq.
Chained(db, tenant) ==
    LET rows == Own(db.audit, tenant) IN
    [i \in 1..Cardinality(rows) |-> CHOOSE r \in rows : Cardinality({s \in rows : s.seq <= r.seq}) = i]

\* The seq after the largest, chained to its hash.
appendAuditTx(db, tenant, entry, now) ==
    LET chain == Chained(db, tenant)
        last == chain[Len(chain)]
        ev == IF chain = <<>> THEN Chain!Event(tenant, 1, entry, now, Chain!NoHash)
              ELSE Chain!Event(tenant, last.seq + 1, entry, now, last.hash)
    IN  [db EXCEPT !.audit = @ \cup {ev}]

AppendAudit(db, tenant, entry, now) ==
    IF tenant = NoId THEN <<db, Err("invalid")>>
    ELSE IF ~Chain!validateEntry(entry) THEN <<db, Err("internal")>>
    ELSE <<appendAuditTx(db, tenant, entry, now), Ok(None)>>

clampPageSize(n) == IF n <= 0 THEN DefaultPage ELSE IF n > MaxPage THEN MaxPage ELSE n

\* Newest first, below the cursor; the row past the page only tells that
\* there are more.  A cursor below 0 is none.
ListAudit(db, tenant, action, from, to, page) ==
    LET rows == {r \in Own(db.audit, tenant) : /\ page.token < 0 \/ r.seq < page.token
                                               /\ action \in {NoId, r.entry.action}
                                               /\ from = 0 \/ r.at >= from
                                               /\ to = 0 \/ r.at <= to}
        size == clampPageSize(page.size)
        shown == {r \in rows : Cardinality({s \in rows : s.seq > r.seq}) < size}
    IN  IF tenant = NoId THEN Err("invalid")
        ELSE Ok([items |-> shown,
                 next |-> IF Cardinality(rows) <= size THEN 0
                          ELSE (CHOOSE r \in shown : \A s \in shown : r.seq <= s.seq).seq])

VerifyAudit(db, tenant) ==
    IF tenant = NoId THEN Err("invalid") ELSE Ok(Chain!recompute(tenant, Chained(db, tenant)))

\* The categories of a record are trimmed, empty ones and repeats dropped.
normalizeDataCategories(categories) == categories \ {NoId}
normalizeDataProcessingInput(tenant, days, categories, purpose, basis) ==
    /\ tenant # NoId /\ days >= 0 /\ purpose # NoId /\ basis # NoId
    /\ normalizeDataCategories(categories) # {}

Upsert(rows, row) == {r \in rows : <<r.tenant, r.app>> # <<row.tenant, row.app>>} \cup {row}

PutDataProcessing(db, tenant, app, days, categories, purpose, basis, now) ==
    LET rec == [tenant |-> tenant, app |-> app, days |-> days, purpose |-> purpose, basis |-> basis,
                categories |-> normalizeDataCategories(categories), at |-> now]
    IN  IF ~normalizeDataProcessingInput(tenant, days, categories, purpose, basis) THEN <<db, Err("invalid")>>
        ELSE <<[db EXCEPT !.records = Upsert(@, rec)], Ok(rec)>>

ListDataProcessing(db, tenant) == IF tenant = NoId THEN Err("invalid") ELSE Ok(Own(db.records, tenant))

\* COALESCE(MAX(version), 0) + 1 for the scope, upsert, audit.
IssueKillSwitch(db, tenant, app, build, command, key, actor, now) ==
    LET old == {k \in db.switches : <<k.tenant, k.app, k.build>> = <<tenant, app, build>>}
        version == IF old = {} THEN 1 ELSE (CHOOSE k \in old : \A o \in old : o.version <= k.version).version + 1
        ks == Kill!NewKillSwitch(tenant, app, build, command, version, now, key)
    IN  IF tenant = NoId \/ command = NoId THEN <<db, Err("invalid")>>
        ELSE <<appendAuditTx([db EXCEPT !.switches = (@ \ old) \cup {ks}], tenant,
                             Kill!killSwitchEntry(app, build, command, version, actor), now), Ok(ks)>>

ListKillSwitches(db, tenant) == IF tenant = NoId THEN Err("invalid") ELSE Ok(Own(db.switches, tenant))

canaryEntry(action, app, actor, meta) == [action |-> action, resource |-> app, actor |-> actor, meta |-> meta]

getCanaryTx(db, tenant, app) ==
    LET rows == {c \in db.canaries : c.tenant = tenant /\ c.app = app} IN
    IF rows = {} THEN Err("not_found") ELSE Ok(CHOOSE c \in rows : TRUE)

\* On conflict the observations of the last transition stay, and so does the
\* stable policy when the caller names none.
SetCanary(db, tenant, app, candidate, stable, percent, threshold, actor, now) ==
    LET old == getCanaryTx(db, tenant, app)
        fresh == [tenant |-> tenant, app |-> app, candidate |-> candidate, stable |-> stable, percent |-> percent,
                  state |-> "active", rate |-> 0, samples |-> 0,
                  threshold |-> IF threshold <= 0 THEN DefaultThreshold ELSE threshold, at |-> now]
        row == IF old.code # "ok" THEN fresh
               ELSE [fresh EXCEPT !.stable = IF stable # NoId THEN stable ELSE old.val.stable,
                                  !.rate = old.val.rate, !.samples = old.val.samples]
    IN  IF NoId \in {tenant, app, candidate} \/ percent > 100 THEN <<db, Err("invalid")>>
        ELSE <<appendAuditTx([db EXCEPT !.canaries = Upsert(@, row)], tenant,
                             canaryEntry("canary.set", app, actor, <<candidate, percent>>), now), Ok(row)>>

GetCanary(db, tenant, app) == IF NoId \in {tenant, app} THEN Err("invalid") ELSE getCanaryTx(db, tenant, app)

ListActiveCanaries(db) == {c \in db.canaries : c.state = "active"}

PromoteCanary(db, tenant, app, actor, now) ==
    LET old == getCanaryTx(db, tenant, app)
        row == [old.val EXCEPT !.state = "promoted", !.percent = 100, !.stable = old.val.candidate, !.at = now]
    IN  IF NoId \in {tenant, app} THEN <<db, Err("invalid")>>
        ELSE IF old.code # "ok" THEN <<db, old>>
        ELSE <<appendAuditTx([db EXCEPT !.canaries = Upsert(@, row)], tenant,
                             canaryEntry("canary.promote", app, actor, <<row.candidate>>), now), Ok(row)>>

RollbackCanary(db, tenant, app, reason, actor, obs, now) ==
    LET old == getCanaryTx(db, tenant, app)
        row == [old.val EXCEPT !.state = "rolled_back", !.percent = 0, !.rate = obs.rate, !.samples = obs.samples,
                               !.at = now]
    IN  IF NoId \in {tenant, app} THEN <<db, Err("invalid")>>
        ELSE IF old.code # "ok" THEN <<db, old>>
        ELSE <<appendAuditTx([db EXCEPT !.canaries = Upsert(@, row)], tenant,
                             canaryEntry("canary.rollback", app, actor, <<reason, obs.rate, row.stable>>), now),
               Ok(row)>>
=============================================================================
