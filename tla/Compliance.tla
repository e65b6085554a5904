----------------------------- MODULE Compliance -----------------------------
(***************************************************************************)
(* ComplianceService: its handlers, each performed on a PostgresStore and  *)
(* on a MemStore side by side, and a reader who pages through the audit    *)
(* trail while they run.  A behaviour works on one group of records.       *)
(***************************************************************************)
EXTENDS Integers, Sequences, FiniteSets

CONSTANTS NoId, None, DefaultPage, MaxPage, DefaultThreshold,
          Tenants, Apps, Builds, Policies,
          MaxCalls    \* bound on the calls of a behaviour, per group

VARIABLES pg, mem,   \* the two stores
          keys,      \* tenant -> active signing key, 0 for none yet
          now,       \* clock, one tick per call
          last,      \* caller, app named by the request and outcome of each store
          walk,      \* paged listing of tenant 1's trail: cursor, events seen, events to see
          focus

vars == <<pg, mem, keys, now, last, walk, focus>>

PG == INSTANCE CompliancePostgres
MEM == INSTANCE ComplianceMem
Chain == INSTANCE AuditChain
Kill == INSTANCE KillSwitch

Maybe(S) == S \cup {NoId}
NoWalk == [done |-> FALSE, token |-> -1, seen |-> <<>>, due |-> {}]

Init ==
    /\ pg = PG!NewPostgresStore /\ mem = MEM!NewMemStore
    /\ keys = [t \in Tenants |-> 0]
    /\ now = 1
    /\ last = [caller |-> NoId, app |-> NoId, pg |-> None, mem |-> None]
    /\ walk = NoWalk
    /\ focus \in {"records", "switches", "canaries"}

-----------------------------------------------------------------------------

\* The tenant of the principal is used, whatever the request names, once the
\* two are known to agree.
requireTenant(caller, tenant) == tenant \in {NoId, caller}

Answer(caller, app, p, m) ==
    /\ pg' = p[1] /\ mem' = m[1]
    /\ last' = [caller |-> caller, app |-> app, pg |-> p[2], mem |-> m[2]]
    /\ now' = now + 1
    /\ UNCHANGED <<walk, focus>>

Refused(caller, tenant) ==
    /\ ~requireTenant(caller, tenant)
    /\ last' = [caller |-> caller, app |-> NoId, pg |-> PG!Err("denied"), mem |-> MEM!Err("denied")]
    /\ UNCHANGED <<pg, mem, keys, now, walk, focus>>

dataProcessingAuditEntry(app, days, categories, actor) ==
    [action |-> "dataprocessing.put", resource |-> IF app = NoId THEN "tenant" ELSE app, actor |-> actor,
     meta |-> <<days, Cardinality(categories)>>]

\* The record, then its audit event, whose failure is dropped.
PutDataProcessingRecord(c, app, days, categories, purpose, audited) ==
    LET entry == dataProcessingAuditEntry(app, days, categories \ {NoId}, c)
        p == PG!PutDataProcessing(pg, c, app, days, categories, purpose, "consent", now)
        m == MEM!PutDataProcessing(mem, c, app, days, categories, purpose, "consent", now)
        Audit(ok) == ok = "ok" /\ audited
    IN  /\ Answer(c, app,
                  IF Audit(p[2].code) THEN <<PG!AppendAudit(p[1], c, entry, now)[1], p[2]>> ELSE p,
                  IF Audit(m[2].code) THEN <<MEM!AppendAudit(m[1], c, entry, now)[1], m[2]>> ELSE m)
        /\ UNCHANGED keys

\* The active key, or a first one.
signingKey(c) == IF keys[c] = 0 THEN now ELSE keys[c]

IssueKillSwitch(c, app, build, command) ==
    LET key == signingKey(c) IN
    /\ Answer(c, app, PG!IssueKillSwitch(pg, c, app, build, command, key, c, now),
                      MEM!IssueKillSwitch(mem, c, app, build, command, key, c, now))
    /\ keys' = IF command = NoId THEN keys ELSE [keys EXCEPT ![c] = key]

\* The signing key is rotated through the registry.
RotateSigningKey(c) ==
    /\ keys[c] # 0
    /\ keys' = [keys EXCEPT ![c] = now]
    /\ now' = now + 1
    /\ UNCHANGED <<pg, mem, last, walk, focus>>

\* The candidate is a policy of the tenant and the stable one the active
\* policy, if any; module CanaryRollout models where they come from.
SetCanaryRollout(c, app, candidate, stable, percent, threshold) ==
    /\ IF app = NoId
       THEN Answer(c, app, <<pg, PG!Err("invalid")>>, <<mem, MEM!Err("invalid")>>)
       ELSE Answer(c, app, PG!SetCanary(pg, c, app, candidate, stable, percent, threshold, c, now),
                           MEM!SetCanary(mem, c, app, candidate, stable, percent, threshold, c, now))
    /\ UNCHANGED keys

\* The handler reads the rollout before it promotes it.
PromoteCanary(c, app) ==
    /\ IF PG!GetCanary(pg, c, app).code # "ok"
       THEN Answer(c, app, <<pg, PG!GetCanary(pg, c, app)>>, <<mem, MEM!GetCanary(mem, c, app)>>)
       ELSE Answer(c, app, PG!PromoteCanary(pg, c, app, c, now), MEM!PromoteCanary(mem, c, app, c, now))
    /\ UNCHANGED keys

\* By an operator, with no observation, or by the controller, with the one
\* that made it roll back.
RollbackCanary(c, app, reason, obs) ==
    /\ Answer(c, app, PG!RollbackCanary(pg, c, app, reason, c, obs, now),
                      MEM!RollbackCanary(mem, c, app, reason, c, obs, now))
    /\ UNCHANGED keys

-----------------------------------------------------------------------------
(* A reader pages through tenant 1's trail, newest first.                  *)

\* Mutant: the page token of the request is not passed on.
ListAuditEventsAnew(size) ==
    LET page == PG!ListAudit(pg, 1, NoId, 0, 0, [size |-> size, token |-> -1]).val IN
    /\ ~walk.done
    /\ walk' = [done |-> page.next = 0, token |-> page.next, seen |-> Append(walk.seen, page.items),
                due |-> IF walk.seen = <<>> THEN {e \in pg.audit : e.tenant = 1} ELSE walk.due]
    /\ UNCHANGED <<pg, mem, keys, now, last, focus>>

ListAuditEvents(size) ==
    LET page == PG!ListAudit(pg, 1, NoId, 0, 0, [size |-> size, token |-> walk.token]).val IN
    /\ ~walk.done
    /\ walk' = [done |-> page.next = 0, token |-> page.next, seen |-> Append(walk.seen, page.items),
                due |-> IF walk.seen = <<>> THEN {e \in pg.audit : e.tenant = 1} ELSE walk.due]
    /\ UNCHANGED <<pg, mem, keys, now, last, focus>>

-----------------------------------------------------------------------------

Call(c) ==
    \/ \E t \in Tenants : Refused(c, t)
    \/ /\ focus = "records"
       /\ \E app \in Maybe(Apps), days \in {-1, 30}, cats \in {{}, {NoId}, {"ids", NoId}}, purpose \in Maybe({"p"}),
             audited \in BOOLEAN : PutDataProcessingRecord(c, app, days, cats, purpose, audited)
    \/ /\ focus = "switches"
       /\ \/ RotateSigningKey(c)
          \/ \E app \in Maybe(Apps), build \in Maybe(Builds), command \in {NoId, "enable", "disable"} :
               IssueKillSwitch(c, app, build, command)
    \/ /\ focus = "canaries"
       /\ \E app \in Maybe(Apps) :
            \/ PromoteCanary(c, app)
            \/ \E p \in Maybe(Policies), s \in Maybe(Policies), percent \in {50, 101}, threshold \in {0, 7} :
                 SetCanaryRollout(c, app, p, s, percent, threshold)
            \/ \E obs \in {[rate |-> 0, samples |-> 0], [rate |-> 9, samples |-> 40]} :
                 RollbackCanary(c, app, "why", obs)

Next ==
    \/ now <= MaxCalls[focus] /\ \E c \in Tenants : Call(c)
    \/ focus = "records" /\ \E size \in {1, 2} : ListAuditEvents(size)

Spec == Init /\ [][Next]_vars

-----------------------------------------------------------------------------

\* Two rollouts are the same but for the observations of the last rollback: a new
\* rollout keeps them in PostgreSQL and starts without any in the MemStore.
Bare(c) == [c EXCEPT !.rate = 0, !.samples = 0]
SameRollout(p, m) ==
    /\ Bare(p) = Bare(m)
    /\ p = m \/ (m = Bare(m) /\ p.state # "rolled_back")

\* Two answers about rollouts are the same, but for the class of the refusal when
\* the request names no app.
SameCanary(app, p, m) ==
    IF app = NoId /\ p.code # "ok" THEN p.code = "invalid" /\ m.code \in {"invalid", "not_found"}
    ELSE p.code = m.code /\ IF p.code = "ok" THEN SameRollout(p.val, m.val) ELSE p = m

\* The two stores answer every call alike ("held to identical semantics by a shared
\* suite"), except that a request about the rollout of no app is invalid in one and
\* not found in the other, and for the observations that a new rollout inherits.
CallsAgree ==
    last.caller # NoId =>
        IF focus = "canaries" /\ last.pg.code # "denied" THEN SameCanary(last.app, last.pg, last.mem)
        ELSE last.pg = last.mem

Pages == {[size |-> 1, token |-> -1], [size |-> 1, token |-> 3], [size |-> 9, token |-> 2], [size |-> -1, token |-> 0]}

\* A read handler: the answer of each store, unless refused at the edge.
Read(c, t, p, m) == IF requireTenant(c, t) THEN <<p, m>> ELSE <<PG!Err("denied"), MEM!Err("denied")>>
Same(answers) == answers[1] = answers[2]
VerifyAuditChain(c, t) == Read(c, t, PG!VerifyAudit(pg, t), MEM!VerifyAudit(mem, t))
GetDataProcessingRegistry(c, t) == Read(c, t, PG!ListDataProcessing(pg, t), MEM!ListDataProcessing(mem, t))
ListKillSwitches(c, t) == Read(c, t, PG!ListKillSwitches(pg, t), MEM!ListKillSwitches(mem, t))
GetCanaryStatus(c, t, app) == Read(c, t, PG!GetCanary(pg, t, app), MEM!GetCanary(mem, t, app))
GetKillSwitchState(t, app, build) ==
    Kill!GetKillSwitchState(ListKillSwitches(t, t)[1].val, app, build)

\* Every read of the two stores returns the same: the audit trail page by
\* page and its verification, the records, the switches and the rollouts, with the
\* exceptions of CallsAgree and of a range that ends before the epoch, which is
\* empty in PostgreSQL and has no end in the MemStore.
ReadsAgree == \A t \in Tenants :
    /\ \A page \in Pages :
         /\ \A action \in {NoId, "canary.set"}, range \in {<<0, 0>>, <<2, 2>>} :
              PG!ListAudit(pg, t, action, range[1], range[2], page) = MEM!ListAudit(mem, t, action, range[1], range[2], page)
         /\ PG!ListAudit(pg, t, NoId, 0, -1, page) = PG!Ok([items |-> {}, next |-> 0])
         /\ MEM!ListAudit(mem, t, NoId, 0, -1, page) = MEM!ListAudit(mem, t, NoId, 0, 0, page)
    /\ \A c \in Tenants :
         /\ Same(VerifyAuditChain(c, t))
         /\ Same(GetDataProcessingRegistry(c, t))
         /\ Same(ListKillSwitches(c, t))
         /\ c = t => \A app \in Maybe(Apps) :
              SameCanary(app, GetCanaryStatus(c, t, app)[1], GetCanaryStatus(c, t, app)[2])
    /\ {Bare(r) : r \in PG!ListActiveCanaries(pg)} = {Bare(r) : r \in MEM!ListActiveCanaries(mem)}

Drop(s, i) == [j \in 1..(Len(s) - 1) |-> IF j < i THEN s[j] ELSE s[j + 1]]
Swap(s, i) == [s EXCEPT ![i] = s[i + 1], ![i + 1] = s[i]]

\* What a trail can become: an event is edited, dropped or put in a second time,
\* two neighbours trade places, or it ends early.
Tampered(s) ==
    {[s EXCEPT ![i].entry.actor = None] : i \in DOMAIN s}
    \cup {Drop(s, i) : i \in DOMAIN s}
    \cup {SubSeq(s, 1, i) \o <<s[j]>> \o SubSeq(s, i + 1, Len(s)) : i \in 0..Len(s), j \in DOMAIN s}
    \cup {Swap(s, i) : i \in 1..(Len(s) - 1)}
    \cup {SubSeq(s, 1, i) : i \in 0..Len(s)}

\* Verification accepts a tenant's trail, and of what it can become exactly the
\* beginnings of it: every edit, insertion, reordering and drop is detected but the
\* loss of the newest events, which nothing that is checked commits to
\* (docs/audit-trail.md promises it of "any insert, edit, drop, or reorder").
TamperEvident == \A t \in Tenants :
    LET chain == PG!Chained(pg, t)
        IsBeginning(s) == Len(s) <= Len(chain) /\ s = SubSeq(chain, 1, Len(s))
    IN  /\ Chain!recompute(t, chain).intact
        /\ \A s \in Tampered(chain) : Chain!recompute(t, s).intact <=> IsBeginning(s)

\* A reader who pages through the trail while events are appended sees every
\* event that was there at its first page, on exactly one page, and no other.
WalkComplete ==
    /\ walk.done => walk.due = UNION {walk.seen[i] : i \in DOMAIN walk.seen}
    /\ \A i, j \in DOMAIN walk.seen : i # j => walk.seen[i] \cap walk.seen[j] = {}

\* The switch in effect is the build's of the app, else the app's, else the
\* build's of any app, else the tenant's, else none and the app is enabled.
MostSpecificWins == \A t \in Tenants, app \in Apps, build \in Builds :
    LET Of(a, b) == {k \in pg.switches : k.tenant = t /\ k.app = a /\ k.build = b}
        order == <<Of(app, build), Of(app, NoId), Of(NoId, build), Of(NoId, NoId)>>
        state == GetKillSwitchState(t, app, build)
    IN  IF \A i \in 1..4 : order[i] = {} THEN state.command = "enable"
        ELSE LET first == CHOOSE i \in 1..4 : order[i] # {} /\ \A j \in 1..(i - 1) : order[j] = {}
             IN  state.active \in order[first] /\ state.command = state.active.command
=============================================================================
