------------------------------ MODULE ControlTx ------------------------------
(***************************************************************************)
(* The control plane's multi-statement transactions of one tenant, run     *)
(* concurrently under READ COMMITTED: each statement is an action with its *)
(* own snapshot, row locks are the uncommitted writes, and a unique index  *)
(* makes a statement wait for the transaction whose row it clashes with.   *)
(* A transaction may be lost at any point (cancelled context, crash).      *)
(***************************************************************************)
EXTENDS Integers, FiniteSets

CONSTANTS Txs,      \* connections
          Scopes,   \* app scopes of policies, switches and rollouts
          None,
          MaxCalls  \* bound on the calls of a behaviour

\* An audit event: its number, its id, the id of the one before it, and the
\* change that it tells of.
Events == [seq : Nat, id : Nat, prev : Nat, what : {"switch", "canary", "record"} \X (Scopes \cup {None}) \X Nat]

ASSUME NoneAssumption == None \notin Txs /\ None \notin Events
ASSUME ScopesAssumption == Scopes # {}

VARIABLES rows,    \* committed rows: id -> record
          audit,   \* committed audit events
          next,    \* next id
          op,      \* what each connection runs
          pc,      \* its next statement
          writes,  \* its uncommitted rows
          found,   \* ids its last query matched
          got,     \* the version it read
          tail,    \* the last audit event it read
          pend,    \* its uncommitted audit event
          lock,    \* advisory lock -> holder
          out      \* outcome of its last call

txVars == <<op, pc, writes, found, got, tail, pend, lock, out>>
vars == <<rows, audit, next, txVars>>

Tenant == "tenant"
Idle == [kind |-> "none", scope |-> None, id |-> 0, new |-> 0]
NoEvent == [seq |-> 0, id |-> 0]
Over(f, g) == [i \in DOMAIN f \cup DOMAIN g |-> IF i \in DOMAIN g THEN g[i] ELSE f[i]]
NoRows == [i \in {} |-> None]

Row(tab, scope, ver, active, from) == [tab |-> tab, scope |-> scope, ver |-> ver, active |-> active, from |-> from]

\* A policy and an API key exist already, the policy in force.
Init ==
    /\ rows = [i \in {1, 2} |-> IF i = 1 THEN Row("policy", CHOOSE s \in Scopes : TRUE, 1, TRUE, 0)
                                         ELSE Row("apikey", None, 2, TRUE, 0)]
    /\ audit = {}
    /\ next = 3
    /\ op = [t \in Txs |-> Idle] /\ pc = [t \in Txs |-> "idle"]
    /\ writes = [t \in Txs |-> NoRows] /\ found = [t \in Txs |-> {}] /\ got = [t \in Txs |-> 0]
    /\ tail = [t \in Txs |-> NoEvent] /\ pend = [t \in Txs |-> None]
    /\ lock = [l \in Scopes \cup {Tenant} |-> None]
    /\ out = [t \in Txs |-> "none"]

-----------------------------------------------------------------------------
(* The unique indexes, and what a statement sees.                          *)

\* uq_policies_version, uq_policies_active, uq_signing_keys_active, and one
\* switch and one rollout per scope.
Clash(a, b) ==
    /\ a.tab = b.tab
    /\ \/ a.tab = "policy" /\ a.scope = b.scope /\ (a.ver = b.ver \/ (a.active /\ b.active))
       \/ a.tab = "signing" /\ a.active /\ b.active
       \/ a.tab \in {"switch", "canary"} /\ a.scope = b.scope

Visible(t) == Over(rows, writes[t])
Others(t) == Txs \ {t}
LockedByOther(t, id) == \E u \in Others(t) : id \in DOMAIN writes[u]

\* Another transaction holds the row, or one that clashes in its old or its
\* new version.
MustWait(t, id, row) ==
    \/ LockedByOther(t, id)
    \/ \E u \in Others(t) : \E i \in DOMAIN writes[u] \ {id} :
         Clash(writes[u][i], row) \/ (i \in DOMAIN rows /\ Clash(rows[i], row))
Violates(t, id, row) == \E i \in DOMAIN Visible(t) \ {id} : Clash(Visible(t)[i], row)

-----------------------------------------------------------------------------

Goto(t, label) == pc' = [pc EXCEPT ![t] = label]

\* Mutant: locks of the session, which outlive the transaction.
EndsHolding(t, outcome) ==
    /\ Goto(t, "idle")
    /\ op' = [op EXCEPT ![t] = Idle]
    /\ writes' = [writes EXCEPT ![t] = NoRows]
    /\ found' = [found EXCEPT ![t] = {}]
    /\ got' = [got EXCEPT ![t] = 0]
    /\ tail' = [tail EXCEPT ![t] = NoEvent]
    /\ pend' = [pend EXCEPT ![t] = None]
    /\ lock' = lock
    /\ out' = [out EXCEPT ![t] = outcome]

\* The end of a transaction, its locks released with it.
Ends(t, outcome) ==
    /\ Goto(t, "idle")
    /\ op' = [op EXCEPT ![t] = Idle]
    /\ writes' = [writes EXCEPT ![t] = NoRows]
    /\ found' = [found EXCEPT ![t] = {}]
    /\ got' = [got EXCEPT ![t] = 0]
    /\ tail' = [tail EXCEPT ![t] = NoEvent]
    /\ pend' = [pend EXCEPT ![t] = None]
    /\ lock' = [l \in DOMAIN lock |-> IF lock[l] = t THEN None ELSE lock[l]]
    /\ out' = [out EXCEPT ![t] = outcome]

Fails(t, outcome) == Ends(t, outcome) /\ UNCHANGED <<rows, audit, next>>

\* Writes row id, unless an index has to wait or is violated.
Write(t, id, row, label) ==
    /\ ~MustWait(t, id, row)
    /\ IF Violates(t, id, row) THEN Fails(t, "conflict")
       ELSE /\ writes' = [writes EXCEPT ![t] = Over(@, [i \in {id} |-> row])]
            /\ Goto(t, label)
            /\ UNCHANGED <<rows, audit, next, op, found, got, tail, pend, lock, out>>

Begin(t, kind, scope, id, label) ==
    /\ pc[t] = "idle" /\ next <= MaxCalls + 2
    /\ op' = [op EXCEPT ![t] = [kind |-> kind, scope |-> scope, id |-> id, new |-> next]]
    /\ Goto(t, label)
    /\ next' = next + 1
    /\ out' = [out EXCEPT ![t] = "none"]
    /\ UNCHANGED <<rows, audit, writes, found, got, tail, pend, lock>>

Is(t, kind, label) == op[t].kind = kind /\ pc[t] = label

\* The query of an UPDATE: the rows its snapshot has.
Matched(t, S, label) ==
    /\ found' = [found EXCEPT ![t] = S]
    /\ Goto(t, label)
    /\ UNCHANGED <<rows, audit, next, op, writes, got, tail, pend, lock, out>>

\* Its effect: the matched rows, once no other transaction holds one, that
\* still are active.
Deactivate(t, label, orElse) ==
    LET still == {i \in found[t] : Visible(t)[i].active} IN
    /\ \A i \in found[t] : ~LockedByOther(t, i)
    /\ IF still = {} /\ orElse # "ok" THEN Fails(t, orElse)
       ELSE /\ writes' = [writes EXCEPT ![t] = Over(@, [i \in still |-> [Visible(t)[i] EXCEPT !.active = FALSE]])]
            /\ Goto(t, label)
            /\ UNCHANGED <<rows, audit, next, op, found, got, tail, pend, lock, out>>

Active(t, tab, scope) ==
    {i \in DOMAIN Visible(t) : Visible(t)[i].tab = tab /\ Visible(t)[i].scope = scope /\ Visible(t)[i].active}
Versions(t, tab, scope) ==
    {Visible(t)[i].ver : i \in {j \in DOMAIN Visible(t) : Visible(t)[j].tab = tab /\ Visible(t)[j].scope = scope}}

\* One more than the highest version, or than 0 where there is none; versions start at 1.
ReadNext(t, tab, label) ==
    /\ \E m \in Versions(t, tab, op[t].scope) \cup {0} :
          /\ \A v \in Versions(t, tab, op[t].scope) : v <= m
          /\ got' = [got EXCEPT ![t] = m + 1]
    /\ Goto(t, label)
    /\ UNCHANGED <<rows, audit, next, op, writes, found, tail, pend, lock, out>>

-----------------------------------------------------------------------------
(* Policies.                                                               *)

CreatePolicy(t) == \E s \in Scopes : Begin(t, "create", s, 0, "max")

CreatePolicyMax(t) == Is(t, "create", "max") /\ ReadNext(t, "policy", "insert")

CreatePolicyInsert(t) ==
    /\ Is(t, "create", "insert")
    /\ Write(t, op[t].new, Row("policy", op[t].scope, got[t], FALSE, 0), "commit")

\* The scope of a policy never changes, so the first query is part of the call.
ActivatePolicy(t) ==
    \E i \in DOMAIN rows : rows[i].tab = "policy" /\ Begin(t, "activate", rows[i].scope, i, "match")

ActivatePolicyMatch(t) ==
    Is(t, "activate", "match") /\ Matched(t, Active(t, "policy", op[t].scope), "clear")

ActivatePolicyClear(t) ==
    Is(t, "activate", "clear") /\ Deactivate(t, "set", "ok")

ActivatePolicySet(t) ==
    /\ Is(t, "activate", "set")
    /\ Write(t, op[t].id, [Visible(t)[op[t].id] EXCEPT !.active = TRUE], "commit")

-----------------------------------------------------------------------------
(* Keys.                                                                   *)

\* RotateSigningKey runs the same two statements.
CreateSigningKey(t) == Begin(t, "signing", None, 0, "match")

CreateSigningKeyMatch(t) == Is(t, "signing", "match") /\ Matched(t, Active(t, "signing", None), "clear")
CreateSigningKeyClear(t) == Is(t, "signing", "clear") /\ Deactivate(t, "insert", "ok")
CreateSigningKeyInsert(t) ==
    Is(t, "signing", "insert") /\ Write(t, op[t].new, Row("signing", None, op[t].new, TRUE, 0), "commit")

RevokeAPIKey(t) == \E i \in DOMAIN rows : rows[i].tab = "apikey" /\ Begin(t, "revoke", None, i, "match")
RevokeAPIKeyMatch(t) ==
    Is(t, "revoke", "match") /\ Matched(t, {op[t].id} \cap Active(t, "apikey", None), "clear")
RevokeAPIKeyClear(t) == Is(t, "revoke", "clear") /\ Deactivate(t, "commit", "not_found")

RotateAPIKey(t) == \E i \in DOMAIN rows : rows[i].tab = "apikey" /\ Begin(t, "rotate", None, i, "select")

RotateAPIKeySelect(t) ==
    /\ Is(t, "rotate", "select")
    /\ IF op[t].id \in Active(t, "apikey", None)
       THEN Matched(t, {op[t].id}, "clear")
       ELSE Fails(t, "not_found")

\* The UPDATE does not ask whether the key is active still.
RotateAPIKeyRevoke(t) ==
    /\ Is(t, "rotate", "clear")
    /\ Write(t, op[t].id, [Visible(t)[op[t].id] EXCEPT !.active = FALSE], "insert")

RotateAPIKeyInsert(t) ==
    /\ Is(t, "rotate", "insert")
    /\ Write(t, op[t].new, Row("apikey", None, op[t].new, TRUE, op[t].id), "commit")

-----------------------------------------------------------------------------
(* Kill switches, rollouts and the audit trail.                            *)

TakeLock(t, l, label) ==
    /\ lock[l] \in {None, t}
    /\ lock' = [lock EXCEPT ![l] = t]
    /\ Goto(t, label)
    /\ UNCHANGED <<rows, audit, next, op, writes, found, got, tail, pend, out>>

IssueKillSwitch(t) == \E s \in Scopes : Begin(t, "switch", s, 0, "scope")

\* Mutant: versions of a scope are not serialised.
IssueKillSwitchUnlocked(t) == Is(t, "switch", "scope") /\ Matched(t, {}, "max")

IssueKillSwitchLock(t) == Is(t, "switch", "scope") /\ TakeLock(t, op[t].scope, "max")

IssueKillSwitchMax(t) == Is(t, "switch", "max") /\ ReadNext(t, "switch", "upsert")

\* The scope's row, or the new one.
Keyed(t, tab) ==
    LET same == {i \in DOMAIN rows : rows[i].tab = tab /\ rows[i].scope = op[t].scope}
    IN  IF same = {} THEN op[t].new ELSE CHOOSE i \in same : TRUE

IssueKillSwitchUpsert(t) ==
    /\ Is(t, "switch", "upsert")
    /\ Write(t, Keyed(t, "switch"), Row("switch", op[t].scope, got[t], TRUE, op[t].new), "tenant")

\* SetCanary inserts or updates; PromoteCanary and RollbackCanary only update.
SetCanary(t) == \E s \in Scopes : Begin(t, "canary", s, 0, "upsert")
SetCanaryUpsert(t) ==
    /\ Is(t, "canary", "upsert")
    /\ Write(t, Keyed(t, "canary"), Row("canary", op[t].scope, op[t].new, TRUE, 0), "tenant")

MoveCanary(t) == \E s \in Scopes : Begin(t, "move", s, 0, "update")

\* Mutant: the transition is not audited.
MoveCanarySilent(t) ==
    /\ Is(t, "move", "update")
    /\ IF Keyed(t, "canary") = op[t].new THEN Fails(t, "not_found")
       ELSE Write(t, Keyed(t, "canary"), Row("canary", op[t].scope, op[t].new, FALSE, 0), "commit")

MoveCanaryUpdate(t) ==
    /\ Is(t, "move", "update")
    /\ IF Keyed(t, "canary") = op[t].new THEN Fails(t, "not_found")
       ELSE Write(t, Keyed(t, "canary"), Row("canary", op[t].scope, op[t].new, FALSE, 0), "tenant")

\* The audit event of a data-processing record, in a transaction of its own.
AppendAudit(t) == Begin(t, "audit", None, 0, "tenant")

Audited == {"switch", "canary", "move", "audit"}

appendAuditLock(t) == op[t].kind \in Audited /\ pc[t] = "tenant" /\ TakeLock(t, Tenant, "tail")

appendAuditTail(t) ==
    /\ pc[t] = "tail"
    /\ tail' = [tail EXCEPT ![t] = IF audit = {} THEN NoEvent
                                   ELSE LET e == CHOOSE d \in audit : \A c \in audit : c.seq <= d.seq
                                        IN  [seq |-> e.seq, id |-> e.id]]
    /\ Goto(t, "append")
    /\ UNCHANGED <<rows, audit, next, op, writes, found, got, pend, lock, out>>

\* What the event tells of the change.
Change(t) == IF op[t].kind = "switch" THEN <<"switch", op[t].scope, got[t]>>
             ELSE IF op[t].kind \in {"canary", "move"} THEN <<"canary", op[t].scope, op[t].new>>
             ELSE <<"record", None, 0>>

\* Mutant: numbered by a database sequence, which a rollback does not undo.
appendAuditSerial(t) ==
    LET seq == op[t].new - 2 IN
    /\ pc[t] = "append"
    /\ \A u \in Others(t) : pend[u] # None => pend[u].seq # seq
    /\ IF \E e \in audit : e.seq = seq THEN Fails(t, "audit conflict")
       ELSE /\ pend' = [pend EXCEPT ![t] = [seq |-> seq, id |-> op[t].new, prev |-> tail[t].id, what |-> Change(t)]]
            /\ Goto(t, "commit")
            /\ UNCHANGED <<rows, audit, next, op, writes, found, got, tail, lock, out>>

appendAuditInsert(t) ==
    LET seq == tail[t].seq + 1 IN
    /\ pc[t] = "append"
    /\ \A u \in Others(t) : pend[u] # None => pend[u].seq # seq
    /\ IF \E e \in audit : e.seq = seq THEN Fails(t, "audit conflict")
       ELSE /\ pend' = [pend EXCEPT ![t] = [seq |-> seq, id |-> op[t].new, prev |-> tail[t].id, what |-> Change(t)]]
            /\ Goto(t, "commit")
            /\ UNCHANGED <<rows, audit, next, op, writes, found, got, tail, lock, out>>

-----------------------------------------------------------------------------

Commit(t) ==
    /\ pc[t] = "commit"
    /\ rows' = Visible(t)
    /\ audit' = IF pend[t] = None THEN audit ELSE audit \cup {pend[t]}
    /\ Ends(t, "ok")
    /\ UNCHANGED next

\* The context is cancelled or the connection lost: the transaction is undone.
Rollback(t) == pc[t] # "idle" /\ Fails(t, "aborted")

Call(t) ==
    \/ CreatePolicy(t) \/ ActivatePolicy(t) \/ CreateSigningKey(t) \/ RevokeAPIKey(t) \/ RotateAPIKey(t)
    \/ IssueKillSwitch(t) \/ SetCanary(t) \/ MoveCanary(t) \/ AppendAudit(t)

Statement(t) ==
    \/ CreatePolicyMax(t) \/ CreatePolicyInsert(t)
    \/ ActivatePolicyMatch(t) \/ ActivatePolicyClear(t) \/ ActivatePolicySet(t)
    \/ CreateSigningKeyMatch(t) \/ CreateSigningKeyClear(t) \/ CreateSigningKeyInsert(t)
    \/ RevokeAPIKeyMatch(t) \/ RevokeAPIKeyClear(t)
    \/ RotateAPIKeySelect(t) \/ RotateAPIKeyRevoke(t) \/ RotateAPIKeyInsert(t)
    \/ IssueKillSwitchLock(t) \/ IssueKillSwitchMax(t) \/ IssueKillSwitchUpsert(t)
    \/ SetCanaryUpsert(t) \/ MoveCanaryUpdate(t)
    \/ appendAuditLock(t) \/ appendAuditTail(t) \/ appendAuditInsert(t)
    \/ Commit(t)

Next == \E t \in Txs : Call(t) \/ Statement(t) \/ Rollback(t)

Spec == Init /\ [][Next]_vars

\* A statement that can run does: the driver waits for nothing else.
FairSpec == Spec /\ \A t \in Txs : WF_vars(Statement(t))

-----------------------------------------------------------------------------

\* Committed rows are typed, and an id is given out once.
TypeOK ==
    /\ next \in Nat
    /\ DOMAIN rows \subseteq 1..(next - 1)
    /\ \A i \in DOMAIN rows : rows[i] \in [tab : {"policy", "apikey", "signing", "switch", "canary"},
                                           scope : Scopes \cup {None}, ver : Nat, active : BOOLEAN, from : Nat]
    /\ \A e \in audit : e \in Events /\ e.id \in 1..(next - 1) /\ e.prev \in 0..(next - 1)
    /\ \A t \in Txs : pc[t] = "idle" => writes[t] = NoRows /\ pend[t] = None /\ op[t] = Idle

\* Whatever commits in whatever order, the trail has neither gap nor fork:
\* every event but the first continues the one numbered before it.
ChainUnbroken == \A e \in audit :
    /\ e.seq >= 1
    /\ e.seq = 1 => e.prev = 0
    /\ e.seq > 1 => \E d \in audit : d.seq = e.seq - 1 /\ d.id = e.prev
    /\ \A d \in audit : d.seq = e.seq => d = e

\* No call fails because another appended at the same time: "concurrent
\* appends serialize".
AppendsNeverCollide == \A t \in Txs : out[t] # "audit conflict"

\* The newest event about a switch or a rollout tells what its row holds, so
\* the trail and the state cannot disagree on which change came last.
TrailTellsState == \A i \in DOMAIN rows : rows[i].tab \in {"switch", "canary"} =>
    LET about == {e \in audit : e.what[1] = rows[i].tab /\ e.what[2] = rows[i].scope}
    IN  \E e \in about : (\A d \in about : d.seq <= e.seq) /\ e.what[3] = rows[i].ver

\* A scope keeps exactly one policy in force, and a tenant that has a signing
\* key keeps exactly one active, however activations and rotations interleave.
OneInForce ==
    /\ \A k \in DOMAIN rows : rows[k].tab = "policy" /\ rows[k].active =>
         {i \in DOMAIN rows : rows[i].tab = "policy" /\ rows[i].scope = rows[k].scope /\ rows[i].active} = {k}
    /\ (\E i \in DOMAIN rows : rows[i].tab = "signing") =>
         \E k \in DOMAIN rows : {i \in DOMAIN rows : rows[i].tab = "signing" /\ rows[i].active} = {k}

\* A committed switch raises its scope's version by exactly one.
VersionsStep == [][\A i \in DOMAIN rows' : rows'[i].tab = "switch" =>
                     rows'[i].ver = IF i \in DOMAIN rows THEN rows[i].ver + (IF rows'[i] = rows[i] THEN 0 ELSE 1)
                                    ELSE 1]_vars

\* A scope that has a policy in force never is without one.
InForceKept == [][\A i \in DOMAIN rows : rows[i].tab = "policy" /\ rows[i].active =>
                    \E j \in DOMAIN rows' : rows'[j].tab = "policy" /\ rows'[j].scope = rows[i].scope
                                            /\ rows'[j].active]_vars

\* What is in force is never doubled and never lost, and versions count what was
\* committed (ActivatePolicy, RotateSigningKey, IssueKillSwitch).
InForceHistory == []OneInForce /\ VersionsStep /\ InForceKept

\* Every transaction ends: no order of the locks makes two wait for each other.
EveryTxEnds == \A t \in Txs : []<>(pc[t] = "idle")
=============================================================================
