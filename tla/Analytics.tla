------------------------------ MODULE Analytics ------------------------------
(***************************************************************************)
(* Stored telemetry: the two analytics stores behind one interface         *)
(* (server/data-plane/ingest/writer.go and store_clickhouse.go), the       *)
(* retention purger that runs over them (ingest/retention.go, with the     *)
(* window a tenant configures in control-plane/registry/retention.go), the *)
(* query service and the policy simulator that read them.                  *)
(*                                                                         *)
(* mem is the slice of the in-memory store, table the rows ClickHouse      *)
(* holds, copies of a redelivered row included.  The same events reach     *)
(* both.  One unit of time is a day.                                       *)
(***************************************************************************)
EXTENDS Risk

CONSTANTS
    None,           \* no cursor, no filter, no override, no pass
    Tenants,
    Offered,        \* device events: [id, tenant, app, type, wire,
                    \* bucket], and frame, the codec version they travel in
    Filters,        \* the request filters a caller may send
    Specs,          \* policies the simulator may compare
    Windows,        \* retention windows a tenant may set; None inherits
    DefaultDays,    \* platform window; 0 retains indefinitely
    DefaultPage, MaxPage, Limits,
    MillisCutoff, MillisPerUnit, MaxClockSkew,
    MaxDay, MaxFaults   \* bounds

VARIABLES
    sent,       \* events already written once
    mem, table,
    window,     \* window[t]: raw_retention_days of tenant t
    broken,     \* tenants whose retention lookup keeps failing
    pass,       \* the purge pass in progress, or None
    walk,       \* a client paging through ListEvents, its last walk
    day, faults

vars == <<sent, mem, table, window, broken, pass, walk, day, faults>>

----------------------------------------------------------------------------
(* What ingest stores of an event.                                         *)

normalizeTimeBucketSec(v, now) ==
    LET sec == IF v >= MillisCutoff THEN v \div MillisPerUnit ELSE v
    IN  IF v <= 0 \/ sec > now + MaxClockSkew THEN now ELSE sec

\* A frame of version 1 carries no layout.
decodeStoredEvent(row, version) ==
    IF version = 1 THEN [row EXCEPT !.layout = "unknown"] ELSE row

StoredEvent(e) ==
    LET bits == FromWire(e.wire)
    IN  decodeStoredEvent(
            [id |-> e.id, tenant |-> e.tenant, app |-> e.app, type |-> e.type,
             level |-> Level(Score(bits, <<>>), <<>>), bits |-> bits,
             layout |-> "server",
             time |-> normalizeTimeBucketSec(e.bucket, day)], e.frame)

NormalizeStored(bits, layout) == IF layout = "wire" THEN FromWire(bits) ELSE bits

----------------------------------------------------------------------------
(* The in-memory store.  Set filters empty and bounds 0 select everything. *)

matches(q, e) ==
    /\ q.tenant \in {None, e.tenant}
    /\ q.app \in {None, e.app}
    /\ q.from = 0 \/ e.time >= q.from
    /\ q.to = 0 \/ e.time <= q.to
    /\ q.types = {} \/ e.type \in q.types
    /\ q.levels = {} \/ e.level \in q.levels

eventLess(a, b) == a.time < b.time \/ (a.time = b.time /\ a.id < b.id)

clampLimit(limit) ==
    IF limit <= 0 THEN DefaultPage ELSE IF limit > MaxPage THEN MaxPage ELSE limit

\* A page token carries the place of the last event of the page.
encodeCursor(e) == <<e.time, e.id>>

\* Mutant: the token gives back the time bucket only.
decodeCursorTime(token) == [time |-> token[1], id |-> 0]

decodeCursor(token) == [time |-> token[1], id |-> token[2]]

Beyond(e, token) == token = None \/ eventLess(e, decodeCursor(token))

\* The first limit of the rows, most recent first, and the cursor to go on.
\* A page is the set of its events: the order fixes their sequence.
PageOf(rows, limit) ==
    LET page == {e \in rows : Cardinality({x \in rows : eventLess(e, x)}) < limit}
        last == CHOOSE e \in page : \A x \in page : ~eventLess(x, e)
    IN  [events |-> page,
         next |-> IF page # rows THEN encodeCursor(last) ELSE None]

MemQuery(q) == {e \in mem : matches(q, e)}

MemCount(q) == Cardinality(MemQuery(q))

MemListEvents(q, limit, cursor) ==
    PageOf({e \in MemQuery(q) : Beyond(e, cursor)}, clampLimit(limit))

MemTenantIDs == {e.tenant : e \in mem}

MemPurge(t, cutoff) == {e \in mem : ~(e.tenant = t /\ e.time < cutoff)}

----------------------------------------------------------------------------
(* ClickHouse.  A row of table is <<event, copy>>; FINAL keeps one row per  *)
(* (tenant_id, time_bucket, id), the ORDER BY key of the schema.           *)

FINAL == {r[1] : r \in table}

clickhouseWhere(q) ==
    {r \in table : /\ q.tenant # None => r[1].tenant = q.tenant
                   /\ q.app # None => r[1].app = q.app
                   /\ q.from # 0 => r[1].time >= q.from
                   /\ q.to # 0 => r[1].time <= q.to
                   /\ q.types # {} => r[1].type \in q.types
                   /\ q.levels # {} => r[1].level \in q.levels}

Query(q) == {e \in FINAL : \E r \in clickhouseWhere(q) : r[1] = e}

Count(q) == Cardinality({r[1].id : r \in clickhouseWhere(q)})

ListEvents(q, limit, cursor) ==
    PageOf({e \in Query(q) : Beyond(e, cursor)}, clampLimit(limit))

TenantIDs == {r[1].tenant : r \in table}

PurgeRawEventsOlderThan(t, cutoff) ==
    {r \in table : ~(r[1].tenant = t /\ r[1].time < cutoff)}

----------------------------------------------------------------------------
(* The query service and the simulator.                                    *)

EmptyQuery == [tenant |-> None, app |-> None, from |-> 0, to |-> 0,
               types |-> {}, levels |-> {}]

millisToSec(ms) == IF ms = 0 THEN 0 ELSE ms \div MillisPerUnit

\* The query of an authenticated tenant: never wider than the tenant.
Scoped(t, f) ==
    [tenant |-> t, app |-> f.app, from |-> millisToSec(f.from),
     to |-> millisToSec(f.to), types |-> f.types, levels |-> f.levels]

toEventRecord(e) ==
    [id |-> e.id, tenant |-> e.tenant, level |-> e.level,
     bits |-> NormalizeStored(e.bits, e.layout),
     timestamp |-> e.time * MillisPerUnit]

RecentEvents == 2

GetTenantOverview(t) ==
    [last24h |-> Count([EmptyQuery EXCEPT !.tenant = t, !.from = day - 1]),
     recent |-> ListEvents([EmptyQuery EXCEPT !.tenant = t], RecentEvents, None).events]

MemTenantOverview(t) ==
    [last24h |-> MemCount([EmptyQuery EXCEPT !.tenant = t, !.from = day - 1]),
     recent |-> MemListEvents([EmptyQuery EXCEPT !.tenant = t], RecentEvents, None).events]

decide(bits, spec) == Decision(Level(Score(bits, spec.weights), spec.thresholds), spec.mode)

isBlock(d) == d = "DENY"

newlyBlocked(cur, cand) == isBlock(cand) /\ ~isBlock(cur)

newlyAllowed(cur, cand) == ~isBlock(cand) /\ isBlock(cur)

\* The decisions of the recorded events under both policies, and the shifts.
Simulate(q, current, candidate) ==
    LET Replay(e) == LET bits == NormalizeStored(e.bits, e.layout)
                     IN  [id |-> e.id, cur |-> decide(bits, current),
                          cand |-> decide(bits, candidate)]
        replayed == {Replay(e) : e \in Query(q)}
        Having(P(_)) == Cardinality({r \in replayed : P(r)})
    IN  [total |-> Cardinality(replayed),
         current |-> [d \in Decisions |-> Having(LAMBDA r : r.cur = d)],
         candidate |-> [d \in Decisions |-> Having(LAMBDA r : r.cand = d)],
         changed |-> Having(LAMBDA r : r.cur # r.cand),
         newlyBlocked |-> Having(LAMBDA r : newlyBlocked(r.cur, r.cand)),
         newlyAllowed |-> Having(LAMBDA r : newlyAllowed(r.cur, r.cand))]

----------------------------------------------------------------------------
(* The system: writers, a paging client and the purger.                    *)

Init ==
    /\ sent = {} /\ mem = {} /\ table = {}
    /\ window = [t \in Tenants |-> None]
    /\ broken \in SUBSET Tenants
    /\ pass = None
    /\ walk = [q |-> EmptyQuery, cursor |-> None, got |-> {}, twice |-> {},
               done |-> TRUE, must |-> {}]
    /\ day = 1 /\ faults = 0

Idle == UNCHANGED <<window, broken, pass, day>>

\* Faults, redeliveries and reconfigurations share one bound.
Disturb == faults < MaxFaults /\ faults' = faults + 1

Write(e) ==
    /\ e \notin sent
    /\ LET row == StoredEvent(e)
       IN  /\ mem' = mem \cup {row}
           /\ table' = table \cup {<<row, 1>>}
    /\ sent' = sent \cup {e}
    /\ UNCHANGED <<walk, faults>> /\ Idle

\* The broker delivers a written event again; only ClickHouse sits behind a
\* broker that does.  Bound: before retention removes the row.
Redeliver(r) ==
    /\ r[2] = 1 /\ Disturb
    /\ table' = table \cup {<<r[1], 2>>}
    /\ UNCHANGED <<sent, mem, walk>> /\ Idle

SetTenantRawRetentionDays(t, days) ==
    /\ window[t] # days /\ Disturb
    /\ window' = [window EXCEPT ![t] = days]
    /\ pass' = IF pass = None THEN None
               ELSE [pass EXCEPT !.inForce[t] = @ \cup {days}]
    /\ UNCHANGED <<sent, mem, table, broken, walk, day>>

Tick ==
    /\ day < MaxDay
    /\ day' = day + 1
    /\ UNCHANGED <<sent, mem, table, window, broken, pass, walk, faults>>

----------------------------------------------------------------------------
(* A client walks ListEvents of its tenant to the last page.  must holds   *)
(* the matching events that were there from the first page on.             *)

StartWalk(t, f) ==
    /\ walk.q = EmptyQuery      \* bound: one walk
    /\ walk' = [q |-> Scoped(t, f), cursor |-> None, got |-> {}, twice |-> {},
                done |-> FALSE, must |-> {e.id : e \in Query(Scoped(t, f))}]
    /\ UNCHANGED <<sent, mem, table, faults>> /\ Idle

NextPage(limit) ==
    /\ ~walk.done
    /\ LET page == ListEvents(walk.q, limit, walk.cursor)
           ids == {toEventRecord(e).id : e \in page.events}
       IN  walk' = [walk EXCEPT !.got = @ \cup ids, !.twice = @ \cup (walk.got \cap ids),
                                !.cursor = page.next, !.done = page.next = None]
    /\ UNCHANGED <<sent, mem, table, faults>> /\ Idle

----------------------------------------------------------------------------
(* The retention purger.  inForce[t] collects the windows of tenant t since *)
(* the pass began.                                                         *)

PurgeBegin ==
    /\ pass = None
    /\ pass' = [todo |-> TenantIDs, now |-> day, tenant |-> None, days |-> 0,
                inForce |-> [t \in Tenants |-> {window[t]}]]
    /\ UNCHANGED <<sent, mem, table, window, broken, walk, day, faults>>

Effective(days) == IF days = None THEN DefaultDays ELSE days

retentionDaysFor(t) == Effective(window[t])

\* The loop goes on with the next tenant; after the last one the pass ends.
Continue(t) ==
    pass' = IF pass.todo = {t} THEN None
            ELSE [pass EXCEPT !.todo = @ \ {t}, !.tenant = None, !.days = 0]

\* Mutant: the first failure aborts the pass.
TenantFailsAborting(t) == pass' = None

\* The error is recorded and the loop goes on.
TenantFails(t) == Continue(t)

PurgeResolve(t) ==
    /\ pass # None /\ pass.tenant = None /\ t \in pass.todo
    /\ \/ t \in broken /\ TenantFails(t) /\ UNCHANGED faults
       \/ t \notin broken /\ TenantFails(t) /\ Disturb
       \/ /\ t \notin broken
          /\ IF retentionDaysFor(t) <= 0 THEN Continue(t)
             ELSE pass' = [pass EXCEPT !.tenant = t, !.days = retentionDaysFor(t)]
          /\ UNCHANGED faults
    /\ UNCHANGED <<sent, mem, table, window, broken, walk, day>>

\* No tenant holds events: the loop body never runs.
PurgeNothing ==
    /\ pass # None /\ pass.todo = {}
    /\ pass' = None
    /\ UNCHANGED <<sent, mem, table, window, broken, walk, day, faults>>

PurgeTenant ==
    /\ pass # None /\ pass.tenant # None
    /\ \/ /\ TenantFails(pass.tenant) /\ Disturb
          /\ UNCHANGED <<mem, table, walk>>
       \/ /\ LET cutoff == pass.now - pass.days
             IN  /\ mem' = MemPurge(pass.tenant, cutoff)
                 /\ table' = PurgeRawEventsOlderThan(pass.tenant, cutoff)
          /\ walk' = [walk EXCEPT !.must = @ \cap {r[1].id : r \in table'}]
          /\ Continue(pass.tenant) /\ UNCHANGED faults
    /\ UNCHANGED <<sent, window, broken, day>>

PurgeOnce == PurgeBegin \/ PurgeNothing \/ PurgeTenant \/ \E t \in Tenants : PurgeResolve(t)

Next ==
    \/ \E e \in Offered : Write(e)
    \/ \E r \in table : Redeliver(r)
    \/ \E t \in Tenants, days \in Windows : SetTenantRawRetentionDays(t, days)
    \/ Tick
    \/ \E t \in Tenants, f \in Filters : StartWalk(t, f)
    \/ \E limit \in Limits : NextPage(limit)
    \/ PurgeOnce

\* Run purges at once and on every tick of its interval, and a pass runs on.
Fairness == WF_vars(PurgeOnce)

Spec == Init /\ [][Next]_vars
FairSpec == Spec /\ Fairness

----------------------------------------------------------------------------
(* Properties.                                                             *)

\* The two stores answer every read of the query service and the purger
\* alike (store_clickhouse.go:279: "identical in shape and ordering to the
\* in-memory store"), although ClickHouse holds redelivered copies.
BackendsAgree ==
    /\ TenantIDs = MemTenantIDs
    /\ \A t \in Tenants :
        /\ GetTenantOverview(t) = MemTenantOverview(t)
        /\ \A f \in Filters :
            LET q == Scoped(t, f)
            IN  /\ Count(q) = MemCount(q)
                /\ Query(q) = MemQuery(q)
                /\ \A limit \in Limits :
                    LET page == ListEvents(q, limit, None)
                    IN  /\ page = MemListEvents(q, limit, None)
                        /\ page.next # None =>
                             ListEvents(q, limit, page.next)
                               = MemListEvents(q, limit, page.next)

\* Paging is gap-free and repeats nothing (writer.go:219), whatever is
\* written, delivered again or purged between two pages: a completed walk has
\* returned every matching event that was there all along, and none twice.
WalkGapFree ==
    /\ walk.twice = {}
    /\ walk.done => walk.must \subseteq walk.got

\* The purger removes an event only if it is older than a window its own
\* tenant had in force during the pass; a tenant that retains indefinitely
\* loses nothing (retention.go:92), nor does one whose neighbour is purged.
PurgesExpired ==
    \A r \in table \ table' :
        \E days \in pass.inForce[r[1].tenant] :
            Effective(days) > 0 /\ r[1].time < pass.now - Effective(days)

\* A simulation accounts for every event and every shift: what the candidate
\* denies more than the current policy is what it newly blocks less what it
\* newly allows, and swapping the policies swaps the two.
SimulationBalances ==
    \A t \in Tenants, current \in Specs : \A candidate \in Specs \ {current} :
        LET q == [EmptyQuery EXCEPT !.tenant = t]
            r == Simulate(q, current, candidate)
            back == Simulate(q, candidate, current)
        IN  /\ r.newlyBlocked - r.newlyAllowed = r.candidate["DENY"] - r.current["DENY"]
            /\ r.newlyBlocked = back.newlyAllowed
            /\ r.newlyBlocked + r.newlyAllowed <= r.changed

\* One tenant whose retention lookup keeps failing blocks nobody else's
\* (retention.go:108): an event past the window its tenant keeps is gone.
ExpiredPurged ==
    \A e \in Offered :
        []<>(e.tenant \in broken
             \/ ~\E r \in FINAL : r.id = e.id /\ Effective(window[e.tenant]) > 0
                                 /\ r.time < day - Effective(window[e.tenant]))
=============================================================================
