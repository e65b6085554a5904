---------------------------- MODULE ControlProofs ----------------------------
(***************************************************************************)
(* Module ControlTx, for every number of connections, scopes and calls:    *)
(* the audit trail has no gap, no fork and no failed append, what is in    *)
(* force is neither doubled nor lost, switch versions step by one, and the *)
(* trail tells what the rows hold.                                         *)
(***************************************************************************)
EXTENDS ControlTx, TLAPS

\* What a connection read last is the end of the committed trail.
AtEnd(t) ==
    \/ audit = {} /\ tail[t] = NoEvent
    \/ \E e \in audit : (\A d \in audit : d.seq <= e.seq) /\ tail[t] = [seq |-> e.seq, id |-> e.id]

\* Events are numbered from 1 without a hole.
Numbered == \E n \in Nat :
    /\ \A e \in audit : e.seq \in 1..n
    /\ \A k \in 1..n : \E e \in audit : e.seq = k

\* The connection that reads the end of the trail or holds an event to add
\* to it has the tenant's lock, so what it read stays the end.
Exclusive == \A t \in Txs :
    /\ pc[t] \in {"tail", "append"} \/ pend[t] # None => lock[Tenant] = t
    /\ pc[t] = "append" \/ pend[t] # None => AtEnd(t)
    /\ pend[t] # None => /\ pc[t] = "commit"
                         /\ pend[t].seq = tail[t].seq + 1
                         /\ pend[t].prev = tail[t].id

Shapes ==
    /\ DOMAIN pc = Txs /\ DOMAIN pend = Txs /\ DOMAIN tail = Txs /\ DOMAIN out = Txs
    /\ DOMAIN lock = Scopes \cup {Tenant}

IInv == Shapes /\ Numbered /\ ChainUnbroken /\ Exclusive /\ AppendsNeverCollide

-----------------------------------------------------------------------------

\* Initially the trail is empty and nobody has read it.
LEMMA InitInv == Init => IInv
<1> SUFFICES ASSUME Init PROVE IInv
  BY Zenon
<1>1. Numbered
  <2>1. 0 \in Nat /\ 1..0 = {}
    OBVIOUS
  <2> QED BY <2>1, Zenon DEF Init, Numbered
<1>2. Shapes BY Zenon DEF Init, Shapes
<1>3. ChainUnbroken /\ AppendsNeverCollide BY Zenon DEF Init, ChainUnbroken, AppendsNeverCollide
<1>4. Exclusive BY Zenon DEF Init, Exclusive
<1> QED BY <1>1, <1>2, <1>3, <1>4, Zenon DEF IInv

\* A statement that neither takes a lock nor touches the trail.
LEMMA QuietStep ==
  ASSUME IInv, NEW t \in Txs, NEW label, label # "tail", label # "append", pend[t] = None,
         UNCHANGED <<audit, tail, pend, lock>>, pc' = [pc EXCEPT ![t] = label],
         out' = out \/ out' = [out EXCEPT ![t] = "none"]
  PROVE  IInv'
<1>1. Shapes' BY Zenon DEF IInv, Shapes
<1>2. Numbered' /\ ChainUnbroken' BY Zenon DEF IInv, Numbered, ChainUnbroken
<1>3. ASSUME NEW u \in Txs PROVE AtEnd(u)' = AtEnd(u) BY Zenon DEF AtEnd
<1>5. Exclusive'
  <2>1. \A u \in Txs \ {t} : pc'[u] = pc[u]
    BY Zenon DEF IInv, Shapes
  <2>2. pc'[t] \notin {"tail", "append"}
    BY Zenon DEF IInv, Shapes
  <2> QED BY <1>3, <2>1, <2>2, Zenon DEF IInv, Exclusive
<1>4. AppendsNeverCollide' BY Zenon DEF IInv, Shapes, AppendsNeverCollide
<1> QED BY <1>1, <1>2, <1>4, <1>5, Zenon DEF IInv

\* A transaction that is undone takes its event and its locks with it.
LEMMA FailedStep ==
  ASSUME IInv, NEW t \in Txs, NEW outcome, outcome # "audit conflict", Fails(t, outcome)
  PROVE  IInv'
<1> USE DEF Fails, Ends, Goto
<1>1. Shapes' BY Zenon DEF IInv, Shapes
<1>2. Numbered' /\ ChainUnbroken' BY Zenon DEF IInv, Numbered, ChainUnbroken
<1>3. Exclusive'
  <2> SUFFICES ASSUME NEW u \in Txs
               PROVE  /\ pc'[u] \in {"tail", "append"} \/ pend'[u] # None => lock'[Tenant] = u
                      /\ pc'[u] = "append" \/ pend'[u] # None => AtEnd(u)'
                      /\ pend'[u] # None => /\ pc'[u] = "commit"
                                            /\ pend'[u].seq = tail'[u].seq + 1
                                            /\ pend'[u].prev = tail'[u].id
    BY Zenon DEF Exclusive
  <2>1. CASE u = t BY <2>1, Zenon DEF IInv, Shapes
  <2>2. CASE u # t
    <3>1. pc'[u] = pc[u] /\ pend'[u] = pend[u] /\ tail'[u] = tail[u] /\ audit' = audit
      BY <2>2, Zenon DEF IInv, Shapes
    <3>2. lock[Tenant] = u => lock'[Tenant] = u
      BY <2>2, Zenon DEF IInv, Shapes
    <3> QED BY <3>1, <3>2 DEF IInv, Exclusive, AtEnd
  <2> QED BY <2>1, <2>2, Zenon
<1>4. AppendsNeverCollide' BY Zenon DEF IInv, Shapes, AppendsNeverCollide
<1> QED BY <1>1, <1>2, <1>3, <1>4, Zenon DEF IInv

\* A row written, unless its index refuses it.
LEMMA WriteStep ==
  ASSUME IInv, NEW t \in Txs, NEW id, NEW row, NEW label, label # "tail", label # "append",
         pc[t] # "commit", Write(t, id, row, label)
  PROVE  IInv'
<1>0. pend[t] = None BY Zenon DEF IInv, Exclusive
<1>1. CASE Fails(t, "conflict") BY <1>1, FailedStep, Zenon
<1>2. CASE ~Violates(t, id, row) BY <1>0, <1>2, QuietStep, Zenon DEF Write, Goto
<1> QED BY <1>1, <1>2, Zenon DEF Write

\* A query, and the update it belongs to.
LEMMA MatchedStep ==
  ASSUME IInv, NEW t \in Txs, NEW S, NEW label, label # "tail", label # "append",
         pc[t] # "commit", Matched(t, S, label)
  PROVE  IInv'
<1>0. pend[t] = None BY Zenon DEF IInv, Exclusive
<1> QED BY <1>0, QuietStep, Zenon DEF Matched, Goto

\* The rows of a query deactivated.
LEMMA DeactivateStep ==
  ASSUME IInv, NEW t \in Txs, NEW label, label # "tail", label # "append", NEW orElse, orElse # "audit conflict",
         pc[t] # "commit", Deactivate(t, label, orElse)
  PROVE  IInv'
<1>0. pend[t] = None BY Zenon DEF IInv, Exclusive
<1>1. CASE Fails(t, orElse) BY <1>1, FailedStep, Zenon
<1>2. CASE ~Fails(t, orElse) BY <1>0, <1>2, QuietStep, Zenon DEF Deactivate, Goto
<1> QED BY <1>1, <1>2, Zenon

\* A call begins on an idle connection.
LEMMA CallStep ==
  ASSUME IInv, NEW t \in Txs, Call(t)
  PROVE  IInv'
<1>1. ASSUME NEW kind, NEW scope, NEW id, NEW label, label # "tail", label # "append", Begin(t, kind, scope, id, label)
      PROVE  IInv'
  <2>1. pend[t] = None BY <1>1, Zenon DEF IInv, Exclusive, Begin
  <2> QED BY <1>1, <2>1, QuietStep, Zenon DEF Begin, Goto
<1> QED BY <1>1, Zenon DEF Call, CreatePolicy, ActivatePolicy, CreateSigningKey, RevokeAPIKey, RotateAPIKey, IssueKillSwitch,
                    SetCanary, MoveCanary, AppendAudit

\* A lock is taken only from nobody, so the one who has it keeps it.
LEMMA LockStep ==
  ASSUME IInv, NEW t \in Txs, NEW l, NEW label, label # "append",
         label = "tail" => l = Tenant, pc[t] # "commit", TakeLock(t, l, label)
  PROVE  IInv'
<1> USE DEF TakeLock, Goto
<1>0. pend[t] = None BY Zenon DEF IInv, Exclusive
<1>1. Shapes' BY Zenon DEF IInv, Shapes
<1>2. Numbered' /\ ChainUnbroken' /\ AppendsNeverCollide'
  BY Zenon DEF IInv, Numbered, ChainUnbroken, AppendsNeverCollide
<1>3. \A u \in Txs : AtEnd(u)' = AtEnd(u) BY Zenon DEF AtEnd
<1>4. ASSUME NEW u \in Txs \ {t} PROVE pc'[u] = pc[u] /\ (lock[Tenant] = u => lock'[Tenant] = u)
  BY <1>4, NoneAssumption, Zenon DEF IInv, Shapes
<1>5. pc'[t] = label /\ (label = "tail" => lock'[Tenant] = t)
  BY Zenon DEF IInv, Shapes
<1>6. Exclusive' BY <1>0, <1>3, <1>4, <1>5 DEF IInv, Exclusive
<1> QED BY <1>1, <1>2, <1>6, Zenon DEF IInv

\* The end of the trail is read under the lock.
LEMMA TailStep ==
  ASSUME IInv, NEW t \in Txs, appendAuditTail(t)
  PROVE  IInv'
<1> USE DEF appendAuditTail, Goto
<1>1. Shapes' BY Zenon DEF IInv, Shapes
<1>2. Numbered' /\ ChainUnbroken' /\ AppendsNeverCollide'
  BY Zenon DEF IInv, Numbered, ChainUnbroken, AppendsNeverCollide
<1>3. pend[t] = None /\ lock[Tenant] = t BY Zenon DEF IInv, Exclusive
<1>4. AtEnd(t)'
  <2>1. CASE audit = {} BY <2>1, Zenon DEF AtEnd, IInv, Shapes
  <2>2. CASE audit # {}
    <3>1. PICK n \in Nat : (\A e \in audit : e.seq \in 1..n) /\ (\A k \in 1..n : \E e \in audit : e.seq = k)
      BY Zenon DEF IInv, Numbered
    <3>2. n \in 1..n BY <2>2, <3>1
    <3>3. \E d \in audit : \A c \in audit : c.seq <= d.seq BY <3>1, <3>2
    <3> DEFINE e == CHOOSE d \in audit : \A c \in audit : c.seq <= d.seq
    <3>4. e \in audit /\ \A c \in audit : c.seq <= e.seq BY <3>3, Zenon
    <3>5. tail'[t] = [seq |-> e.seq, id |-> e.id] BY <2>2, Zenon DEF IInv, Shapes
    <3> HIDE DEF e
    <3> QED BY <3>4, <3>5, Zenon DEF AtEnd
  <2> QED BY <2>1, <2>2, Zenon
<1>5. ASSUME NEW u \in Txs \ {t} PROVE pc'[u] = pc[u] /\ tail'[u] = tail[u] /\ AtEnd(u)' = AtEnd(u)
  BY <1>5, Zenon DEF AtEnd, IInv, Shapes
<1>6. pc'[t] = "append" BY Zenon DEF IInv, Shapes
<1>7. Exclusive' BY <1>3, <1>4, <1>5, <1>6, Zenon DEF IInv, Exclusive
<1> QED BY <1>1, <1>2, <1>7, Zenon DEF IInv

\* The number after the end of the trail is free.
LEMMA InsertStep ==
  ASSUME IInv, NEW t \in Txs, appendAuditInsert(t)
  PROVE  IInv'
<1> DEFINE seq == tail[t].seq + 1
           ev == [seq |-> seq, id |-> op[t].new, prev |-> tail[t].id, what |-> Change(t)]
<1>1. pc[t] = "append" BY Zenon DEF appendAuditInsert
<1>2. lock[Tenant] = t /\ AtEnd(t) /\ pend[t] = None BY <1>1, Zenon DEF IInv, Exclusive
<1>3. ~ \E e \in audit : e.seq = seq
  <2>1. \A e \in audit : e.seq \in Nat BY DEF IInv, Numbered
  <2>2. CASE audit = {} BY <2>2, Zenon
  <2>3. CASE audit # {}
    <3>1. PICK e \in audit : (\A d \in audit : d.seq <= e.seq) /\ tail[t] = [seq |-> e.seq, id |-> e.id]
      BY <1>2, <2>3, Zenon DEF AtEnd
    <3>2. tail[t].seq = e.seq BY <3>1
    <3> QED BY <2>1, <3>1, <3>2
  <2> QED BY <2>2, <2>3, Zenon
<1>4. /\ pend' = [pend EXCEPT ![t] = ev]
      /\ pc' = [pc EXCEPT ![t] = "commit"]
      /\ UNCHANGED <<audit, tail, lock, out>>
  BY <1>3, Zenon DEF appendAuditInsert, Goto
<1> HIDE DEF ev
<1>5. ev.seq = tail[t].seq + 1 /\ ev.prev = tail[t].id BY Zenon DEF ev
<1>6. Shapes' BY <1>4, Zenon DEF IInv, Shapes
<1>7. Numbered' /\ ChainUnbroken' /\ AppendsNeverCollide'
  BY <1>4, Zenon DEF IInv, Numbered, ChainUnbroken, AppendsNeverCollide
<1>8. \A u \in Txs : AtEnd(u)' = AtEnd(u) BY <1>4, Zenon DEF AtEnd
<1>9. ASSUME NEW u \in Txs \ {t} PROVE pc'[u] = pc[u] /\ pend'[u] = pend[u]
  BY <1>4, <1>9, Zenon DEF IInv, Shapes
<1>10. pc'[t] = "commit" /\ pend'[t] = ev BY <1>4, Zenon DEF IInv, Shapes
<1>11. Exclusive' BY <1>2, <1>4, <1>5, <1>8, <1>9, <1>10 DEF IInv, Exclusive
<1> QED BY <1>6, <1>7, <1>11, Zenon DEF IInv

\* The event that a transaction commits is the next one of the trail.
LEMMA ChainExtends ==
  ASSUME IInv, NEW t \in Txs, pend[t] # None, audit' = audit \cup {pend[t]}
  PROVE  Numbered' /\ ChainUnbroken'
<1> DEFINE ev == pend[t]
<1>1. ev.seq = tail[t].seq + 1 /\ ev.prev = tail[t].id /\ AtEnd(t) BY Zenon DEF IInv, Exclusive
<1>2. PICK n \in Nat : (\A e \in audit : e.seq \in 1..n) /\ (\A k \in 1..n : \E e \in audit : e.seq = k)
  BY Zenon DEF IInv, Numbered
<1>3. CASE audit = {}
  <2>1. tail[t].seq = 0 /\ tail[t].id = 0 BY <1>1, <1>3 DEF AtEnd, NoEvent
  <2>2. ev.seq = 1 /\ ev.prev = 0 BY <1>1, <2>1
  <2>3. audit' = {ev} BY <1>3, Zenon
  <2>4. Numbered'
    <3>1. (\A e \in {ev} : e.seq \in 1..1) /\ (\A k \in 1..1 : \E e \in {ev} : e.seq = k) BY <2>2
    <3> QED BY <2>3, <3>1, Zenon DEF Numbered
  <2>5. ChainUnbroken' BY <2>2, <2>3 DEF ChainUnbroken
  <2> QED BY <2>4, <2>5, Zenon
<1>4. CASE audit # {}
  <2>1. PICK e \in audit : (\A d \in audit : d.seq <= e.seq) /\ tail[t] = [seq |-> e.seq, id |-> e.id]
    BY <1>1, <1>4, Zenon DEF AtEnd
  <2>2. n \in 1..n BY <1>2, <1>4
  <2>3. e.seq = n BY <1>2, <2>1, <2>2
  <2>4. ev.seq = n + 1 /\ ev.prev = e.id BY <1>1, <2>1, <2>3
  <2>5. Numbered'
    <3>1. \A d \in audit' : d.seq \in 1..(n + 1) BY <1>2, <2>4
    <3>2. \A k \in 1..(n + 1) : \E d \in audit' : d.seq = k BY <1>2, <2>4
    <3> QED BY <3>1, <3>2 DEF Numbered
  <2>6. ChainUnbroken'
    <3> SUFFICES ASSUME NEW d \in audit'
                 PROVE  /\ d.seq >= 1
                        /\ d.seq = 1 => d.prev = 0
                        /\ d.seq > 1 => \E c \in audit' : c.seq = d.seq - 1 /\ c.id = d.prev
                        /\ \A c \in audit' : c.seq = d.seq => c = d
      BY Zenon DEF ChainUnbroken
    <3>1. CASE d = ev
      <4>1. d.seq = n + 1 /\ d.prev = e.id /\ n >= 1 BY <2>2, <2>4, <3>1
      <4>2. e \in audit' /\ e.seq = d.seq - 1 BY <2>3, <4>1
      <4>3. \A c \in audit : c.seq # d.seq BY <1>2, <4>1
      <4> QED BY <3>1, <4>1, <4>2, <4>3
    <3>2. CASE d \in audit
      <4>1. d.seq # ev.seq BY <1>2, <2>4, <3>2
      <4>2. \A c \in audit' : c.seq = d.seq => c = d
        BY <3>2, <4>1, Zenon DEF IInv, ChainUnbroken
      <4>3. d.seq > 1 => \E c \in audit : c.seq = d.seq - 1 /\ c.id = d.prev
        BY <3>2, Zenon DEF IInv, ChainUnbroken
      <4>4. d.seq >= 1 /\ (d.seq = 1 => d.prev = 0)
        BY <3>2, Zenon DEF IInv, ChainUnbroken
      <4> QED BY <4>2, <4>3, <4>4, Zenon
    <3> QED BY <3>1, <3>2, Zenon
  <2> QED BY <2>5, <2>6, Zenon
<1> QED BY <1>3, <1>4, Zenon

\* Only the holder of the lock adds to the trail, and it lets go of both.
LEMMA CommitStep ==
  ASSUME IInv, NEW t \in Txs, Commit(t)
  PROVE  IInv'
<1> USE DEF Commit, Ends, Goto
<1>1. Shapes' BY Zenon DEF IInv, Shapes
<1>2. AppendsNeverCollide' BY Zenon DEF IInv, Shapes, AppendsNeverCollide
<1>3. Numbered' /\ ChainUnbroken'
  <2>1. CASE pend[t] = None BY <2>1, Zenon DEF IInv, Numbered, ChainUnbroken
  <2>2. CASE pend[t] # None BY <2>2, ChainExtends, Zenon
  <2> QED BY <2>1, <2>2, Zenon
<1>4. pc'[t] = "idle" /\ pend'[t] = None BY Zenon DEF IInv, Shapes
<1>5. ASSUME NEW u \in Txs \ {t}
      PROVE  /\ pc'[u] = pc[u] /\ pend'[u] = pend[u] /\ tail'[u] = tail[u]
             /\ lock[Tenant] = u => lock'[Tenant] = u
  BY <1>5, Zenon DEF IInv, Shapes
<1>6. ASSUME NEW u \in Txs \ {t}, lock[Tenant] = u PROVE AtEnd(u)' = AtEnd(u)
  <2>1. pend[t] = None BY <1>6, Zenon DEF IInv, Exclusive
  <2>2. audit' = audit BY <2>1, Zenon
  <2>3. tail'[u] = tail[u] BY <1>5, <1>6, Zenon
  <2> QED BY ONLY <2>2, <2>3, Zenon DEF AtEnd
<1>7. Exclusive' BY <1>4, <1>5, <1>6 DEF IInv, Exclusive
<1> QED BY <1>1, <1>2, <1>3, <1>7, Zenon DEF IInv

\* Every statement keeps the invariant.
LEMMA StatementStep ==
  ASSUME IInv, NEW t \in Txs, Statement(t)
  PROVE  IInv'
<1>1. CASE CreatePolicyMax(t) \/ IssueKillSwitchMax(t)
  <2>1. pend[t] = None BY <1>1, Zenon DEF IInv, Exclusive, CreatePolicyMax, IssueKillSwitchMax, Is
  <2> QED BY <1>1, <2>1, QuietStep, Zenon DEF CreatePolicyMax, IssueKillSwitchMax, ReadNext, Goto
<1>2. CASE CreatePolicyInsert(t) \/ ActivatePolicySet(t)
  BY <1>2, WriteStep, Zenon DEF CreatePolicyInsert, ActivatePolicySet, Is
<1>3. CASE ActivatePolicyMatch(t) \/ CreateSigningKeyMatch(t) \/ RevokeAPIKeyMatch(t)
  BY <1>3, MatchedStep, Zenon DEF ActivatePolicyMatch, CreateSigningKeyMatch, RevokeAPIKeyMatch, Is
<1>4. CASE ActivatePolicyClear(t) \/ CreateSigningKeyClear(t) \/ RevokeAPIKeyClear(t)
  BY <1>4, DeactivateStep, Zenon DEF ActivatePolicyClear, CreateSigningKeyClear, RevokeAPIKeyClear, Is
<1>5. CASE CreateSigningKeyInsert(t) \/ RotateAPIKeyRevoke(t) \/ RotateAPIKeyInsert(t)
  BY <1>5, WriteStep, Zenon DEF CreateSigningKeyInsert, RotateAPIKeyRevoke, RotateAPIKeyInsert, Is
<1>6. CASE RotateAPIKeySelect(t)
  <2>1. CASE Fails(t, "not_found") BY <2>1, FailedStep, Zenon
  <2>2. CASE Matched(t, {op[t].id}, "clear") BY <1>6, <2>2, MatchedStep, Zenon DEF RotateAPIKeySelect, Is
  <2> QED BY <1>6, <2>1, <2>2, Zenon DEF RotateAPIKeySelect
<1>7. CASE IssueKillSwitchUpsert(t) \/ SetCanaryUpsert(t)
  BY <1>7, WriteStep, Zenon DEF IssueKillSwitchUpsert, SetCanaryUpsert, Is
<1>8. CASE MoveCanaryUpdate(t)
  <2>1. CASE Fails(t, "not_found") BY <2>1, FailedStep, Zenon
  <2>2. CASE ~Fails(t, "not_found") BY <1>8, <2>2, WriteStep, Zenon DEF MoveCanaryUpdate, Is
  <2> QED BY <2>1, <2>2, Zenon
<1>9. CASE IssueKillSwitchLock(t)
  BY <1>9, LockStep, Zenon DEF IssueKillSwitchLock, Is
<1>10. CASE appendAuditLock(t) BY <1>10, LockStep, Zenon DEF appendAuditLock
<1>11. CASE appendAuditTail(t) BY <1>11, TailStep, Zenon
<1>12. CASE appendAuditInsert(t) BY <1>12, InsertStep, Zenon
<1>13. CASE Commit(t) BY <1>13, CommitStep, Zenon
<1> QED BY <1>1, <1>2, <1>3, <1>4, <1>5, <1>6, <1>7, <1>8, <1>9, <1>10, <1>11, <1>12, <1>13, Zenon DEF Statement

\* The inductive invariant: committed events form a chain, and whoever holds the lock of the trail
\* links to its last event (appendAudit: pg_advisory_xact_lock, SELECT, INSERT).
THEOREM TrailInvariant == Spec => []IInv
<1>1. IInv /\ [Next]_vars => IInv'
  <2> SUFFICES ASSUME IInv, [Next]_vars PROVE IInv'
    BY Zenon
  <2>1. CASE UNCHANGED vars
    BY <2>1 DEF vars, txVars, IInv, Shapes, Numbered, ChainUnbroken, Exclusive, AtEnd, AppendsNeverCollide
  <2>2. ASSUME NEW t \in Txs, Call(t) PROVE IInv' BY <2>2, CallStep, Zenon
  <2>3. ASSUME NEW t \in Txs, Statement(t) PROVE IInv' BY <2>3, StatementStep, Zenon
  <2>4. ASSUME NEW t \in Txs, Rollback(t) PROVE IInv' BY <2>4, FailedStep, Zenon DEF Rollback
  <2> QED BY <2>1, <2>2, <2>3, <2>4, Zenon DEF Next
<1> QED BY <1>1, InitInv, PTL DEF Spec

\* Audit events committed by any number of concurrent calls form one chain
\* without gap or fork (appendAudit).
THEOREM TrailUnbroken == Spec => []ChainUnbroken
<1>1. IInv => ChainUnbroken BY Zenon DEF IInv
<1> QED BY <1>1, TrailInvariant, PTL

\* No call is refused because another one appends at the same time (appendAudit).
THEOREM NoCollision == Spec => []AppendsNeverCollide
<1>1. IInv => AppendsNeverCollide BY Zenon DEF IInv
<1> QED BY <1>1, TrailInvariant, PTL

-----------------------------------------------------------------------------
(* The rows.                                                               *)

Tables == {"policy", "apikey", "signing", "switch", "canary"}
RowSet == [tab : Tables, scope : Scopes \cup {None}, ver : Nat, active : BOOLEAN, from : Nat]
Kinds == {"none", "create", "activate", "signing", "revoke", "rotate", "switch", "canary", "move", "audit"}
OpSet == [kind : Kinds, scope : Scopes \cup {None}, id : Nat, new : Nat]

\* The table that the transactions of a kind write.
TableOf(kind) == IF kind \in {"create", "activate"} THEN "policy"
                 ELSE IF kind = "signing" THEN "signing"
                 ELSE IF kind \in {"revoke", "rotate"} THEN "apikey"
                 ELSE IF kind = "switch" THEN "switch" ELSE "canary"

-----------------------------------------------------------------------------
(* What holds of the committed rows and of each transaction by itself.     *)

EventTyped(e, n) == e \in Events /\ 0 < e.id /\ e.id < n /\ e.prev < n

RowsTyped ==
    /\ next \in Nat /\ next >= 3
    /\ \A e \in audit : EventTyped(e, next)
    /\ \A i \in DOMAIN rows : i \in Nat /\ 0 < i /\ i < next /\ rows[i] \in RowSet

\* A transaction's id is its own, and its rows are typed.
TxTyped(t) ==
    /\ op[t] \in OpSet /\ got[t] \in Nat /\ op[t].new < next
    /\ \A i \in DOMAIN writes[t] : i \in Nat /\ 0 < i /\ i < next /\ writes[t][i] \in RowSet
    /\ pend[t] # None => EventTyped(pend[t], next)
    /\ pc[t] = "idle" => op[t] = Idle
    /\ pc[t] # "idle" => 0 < op[t].new /\ op[t].new \notin DOMAIN rows

\* A transaction writes its own table, and inserts one row at most; what it
\* updates keeps its table and scope.
OwnRows(t) == \A i \in DOMAIN writes[t] :
    /\ op[t].kind \notin {"none", "audit"}
    /\ writes[t][i].tab = TableOf(op[t].kind)
    /\ op[t].kind # "rotate" => writes[t][i].scope = op[t].scope
    /\ i \in DOMAIN rows => rows[i].tab = writes[t][i].tab /\ rows[i].scope = writes[t][i].scope
    /\ i \notin DOMAIN rows => i = op[t].new

\* What it matched or was called for stays in its table and scope.
Targets(t) ==
    /\ \A i \in found[t] : i \in DOMAIN rows /\ rows[i].tab = TableOf(op[t].kind) /\ rows[i].scope = op[t].scope
                           /\ op[t].kind \in {"activate", "signing", "revoke", "rotate"}
    /\ op[t].kind = "activate" =>
         op[t].id \in DOMAIN rows /\ rows[op[t].id].tab = "policy" /\ rows[op[t].id].scope = op[t].scope
    /\ op[t].kind \in {"rotate", "revoke"} => op[t].id \in DOMAIN rows /\ rows[op[t].id].tab = "apikey"
    /\ op[t].kind \in {"signing", "rotate", "revoke"} => op[t].scope = None

Late == {"set", "insert", "tenant", "tail", "append", "commit"}

\* How far a transaction has come, and what it has written by then.
Stage(t) ==
    /\ pc[t] \notin Late => writes[t] = NoRows
    /\ pc[t] \in {"tenant", "tail", "append"} => op[t].kind \in Audited
    /\ pc[t] \in {"tenant", "tail", "append", "commit"} /\ op[t].kind \in {"switch", "canary", "move"} =>
         DOMAIN writes[t] # {}
    /\ op[t].kind = "create" => DOMAIN writes[t] \subseteq {op[t].new}
    /\ pc[t] = "commit" /\ op[t].kind = "activate" => op[t].id \in DOMAIN writes[t] /\ writes[t][op[t].id].active
    /\ pc[t] = "commit" /\ op[t].kind = "signing" => op[t].new \in DOMAIN writes[t] /\ writes[t][op[t].new].active
    /\ pc[t] = "commit" /\ op[t].kind \in Audited => pend[t] # None
    /\ pend[t] # None => pc[t] = "commit" /\ op[t].kind \in Audited /\ pend[t].what = Change(t)

\* An issued switch carries the number after the committed one, which the lock
\* of the scope keeps in place.
Counted(t) == op[t].kind = "switch" =>
    /\ op[t].scope \in Scopes
    /\ pc[t] \in {"max", "upsert", "tenant", "tail", "append", "commit"} => lock[op[t].scope] = t
    /\ pc[t] \in {"upsert", "tenant", "tail", "append", "commit"} =>
         /\ \A i \in DOMAIN rows : rows[i].tab = "switch" /\ rows[i].scope = op[t].scope => got[t] = rows[i].ver + 1
         /\ (\A i \in DOMAIN rows : ~(rows[i].tab = "switch" /\ rows[i].scope = op[t].scope)) => got[t] = 1
    /\ \A i \in DOMAIN writes[t] : writes[t][i].ver = got[t]

\* A rollout's row carries the call that wrote it.
Moved(t) == op[t].kind \in {"canary", "move"} => \A i \in DOMAIN writes[t] : writes[t][i].ver = op[t].new

Local(t) == TxTyped(t) /\ OwnRows(t) /\ Targets(t) /\ Stage(t) /\ Counted(t) /\ Moved(t)

-----------------------------------------------------------------------------
(* What holds between transactions.                                        *)

\* Row locks: no two transactions hold a row, and an id is given out once.
Apart == \A t, u \in Txs : t # u =>
    /\ DOMAIN writes[t] \cap DOMAIN writes[u] = {}
    /\ pc[t] # "idle" => op[t].new # op[u].new /\ op[t].new \notin DOMAIN writes[u]

\* The unique indexes hold of what is committed, of what a transaction sees,
\* and across what two of them write.
Unclashing ==
    /\ \A i, j \in DOMAIN rows : i # j => ~Clash(rows[i], rows[j])
    /\ \A t \in Txs : \A i, j \in DOMAIN Visible(t) : i # j => ~Clash(Visible(t)[i], Visible(t)[j])
    /\ \A t, u \in Txs : t # u => \A i \in DOMAIN writes[t], j \in DOMAIN writes[u] : ~Clash(writes[t][i], writes[u][j])

\* Once there is a signing key, one is active.
SigningKept == (\E i \in DOMAIN rows : rows[i].tab = "signing") =>
                   \E i \in DOMAIN rows : rows[i].tab = "signing" /\ rows[i].active

RowShapes == /\ DOMAIN op = Txs /\ DOMAIN writes = Txs /\ DOMAIN found = Txs /\ DOMAIN got = Txs

RowInv ==
    /\ IInv /\ RowShapes /\ RowsTyped /\ (\A t \in Txs : Local(t))
    /\ Apart /\ Unclashing /\ SigningKept /\ TrailTellsState

-----------------------------------------------------------------------------
(* What a statement sees.                                                  *)

\* What a statement sees: its own rows over the committed ones.
LEMMA Seen ==
  ASSUME NEW t \in Txs
  PROVE  /\ DOMAIN Visible(t) = DOMAIN rows \cup DOMAIN writes[t]
         /\ \A i \in DOMAIN writes[t] : Visible(t)[i] = writes[t][i]
         /\ \A i \in DOMAIN rows \ DOMAIN writes[t] : Visible(t)[i] = rows[i]
BY Zenon DEF Visible, Over

\* A transaction that has written nothing sees the committed rows.
LEMMA SeesRows ==
  ASSUME NEW t \in Txs, writes[t] = NoRows
  PROVE  DOMAIN Visible(t) = DOMAIN rows /\ \A i \in DOMAIN rows : Visible(t)[i] = rows[i]
<1>1. DOMAIN writes[t] = {} BY Zenon DEF NoRows
<1> QED BY <1>1, Seen, Zenon

-----------------------------------------------------------------------------
(* What a step leaves alone.                                               *)

\* The variables of the other transactions stand.
Alone(t) ==
    /\ \A u \in Others(t) : /\ op'[u] = op[u] /\ pc'[u] = pc[u] /\ writes'[u] = writes[u]
                            /\ found'[u] = found[u] /\ got'[u] = got[u] /\ pend'[u] = pend[u]
                            /\ \A l \in Scopes : lock[l] = u => lock'[l] = u
    /\ RowShapes'

\* An event stays typed when more ids have been given out.
LEMMA LaterTyped ==
  ASSUME NEW e, NEW m \in Nat, NEW n \in Nat, m <= n, EventTyped(e, m)
  PROVE  EventTyped(e, n)
<1>1. e.id \in Nat /\ e.prev \in Nat BY Zenon DEF EventTyped, Events
<1> QED BY <1>1 DEF EventTyped

\* While the committed rows stand, so does what is known of the others.
LEMMA OthersKeep ==
  ASSUME RowInv, NEW t \in Txs, Alone(t), rows' = rows, next' \in Nat, next' >= next, NEW u \in Others(t)
  PROVE  Local(u)'
<1>0. u \in Txs /\ Local(u) /\ RowsTyped BY Zenon DEF RowInv, Others
<1>1. /\ op'[u] = op[u] /\ pc'[u] = pc[u] /\ writes'[u] = writes[u]
      /\ found'[u] = found[u] /\ got'[u] = got[u] /\ pend'[u] = pend[u]
      /\ \A l \in Scopes : lock[l] = u => lock'[l] = u
  BY Zenon DEF Alone
<1>2. TxTyped(u)'
  <2>1. op[u].new \in Nat /\ op[u].new < next /\ next \in Nat BY <1>0, Zenon DEF Local, TxTyped, OpSet, RowsTyped
  <2>2. \A i \in DOMAIN writes[u] : i \in Nat /\ i < next' BY <1>0, <2>1 DEF Local, TxTyped
  <2>3. pend'[u] # None => EventTyped(pend'[u], next')
    BY <1>0, <1>1, <2>1, LaterTyped, Zenon DEF Local, TxTyped
  <2> QED BY <1>0, <1>1, <2>1, <2>2, <2>3 DEF Local, TxTyped, OpSet, RowSet, Idle
<1>3. OwnRows(u)' BY <1>0, <1>1, Zenon DEF Local, OwnRows
<1>4. Targets(u)' BY <1>0, <1>1, Zenon DEF Local, Targets
<1>5. Stage(u)' BY <1>0, <1>1, Zenon DEF Local, Stage, Change
<1>6. Counted(u)' BY <1>0, <1>1, Zenon DEF Local, Counted
<1>7. Moved(u)' BY <1>0, <1>1, Zenon DEF Local, Moved
<1> QED BY <1>2, <1>3, <1>4, <1>5, <1>6, <1>7, Zenon DEF Local

\* And what is known of the committed rows.
LEMMA RowsStay ==
  ASSUME RowInv, rows' = rows, audit' = audit, next' \in Nat, next' >= next
  PROVE  RowsTyped' /\ SigningKept' /\ TrailTellsState'
<1>1. RowsTyped'
  <2>1. next \in Nat /\ next >= 3 BY Zenon DEF RowInv, RowsTyped
  <2>2. \A i \in DOMAIN rows : i \in Nat /\ 0 < i /\ i < next' /\ rows[i] \in RowSet BY <2>1 DEF RowInv, RowsTyped
  <2>3. ASSUME NEW e \in audit PROVE EventTyped(e, next')
    <3>1. EventTyped(e, next) BY Zenon DEF RowInv, RowsTyped
    <3> QED BY <2>1, <3>1, LaterTyped, Zenon
  <2> QED BY <2>1, <2>2, <2>3 DEF RowsTyped, RowSet
<1>2. SigningKept' BY Zenon DEF RowInv, SigningKept
<1>3. TrailTellsState' BY Zenon DEF RowInv, TrailTellsState
<1> QED BY <1>1, <1>2, <1>3, Zenon

\* A statement that writes no row.
LEMMA QuietKeeps ==
  ASSUME RowInv, NEW t \in Txs, pc[t] # "idle", Alone(t), UNCHANGED <<rows, audit, next, op, writes>>, IInv', Local(t)'
  PROVE  RowInv'
<1>1. next' \in Nat /\ next' >= next BY DEF RowInv, RowsTyped
<1>2. \A u \in Txs : Local(u)' BY <1>1, OthersKeep, Zenon DEF Others
<1>3. Apart' BY DEF RowInv, Apart, Alone, Others
<1>4. Unclashing' BY Zenon DEF RowInv, Unclashing, Visible
<1>5. RowShapes' BY Zenon DEF Alone
<1> QED BY <1>1, <1>2, <1>3, <1>4, <1>5, RowsStay, Zenon DEF RowInv

-----------------------------------------------------------------------------
(* One lemma per operation that statements are made of.                    *)

\* A transaction that is undone leaves the rows as they are.
LEMMA FailsKeeps ==
  ASSUME RowInv, NEW t \in Txs, NEW outcome, Fails(t, outcome), IInv'
  PROVE  RowInv'
<1> USE DEF Fails, Ends, Goto
<1>0. RowShapes /\ Shapes BY Zenon DEF RowInv, IInv
<1>1. RowShapes' BY <1>0, Zenon DEF RowShapes
<1>2. Alone(t)
  <2>1. ASSUME NEW u \in Others(t)
        PROVE  /\ op'[u] = op[u] /\ pc'[u] = pc[u] /\ writes'[u] = writes[u]
               /\ found'[u] = found[u] /\ got'[u] = got[u] /\ pend'[u] = pend[u]
    BY <1>0, <2>1, Zenon DEF RowShapes, Shapes, Others
  <2>2. ASSUME NEW u \in Others(t), NEW l \in Scopes, lock[l] = u PROVE lock'[l] = u
    BY <1>0, <2>2, Zenon DEF Shapes, Others
  <2> QED BY <1>1, <2>1, <2>2, Zenon DEF Alone
<1>3. rows' = rows /\ audit' = audit /\ next' = next /\ next' \in Nat /\ next' >= next
  BY DEF RowInv, RowsTyped
<1>4. /\ op'[t] = Idle /\ pc'[t] = "idle" /\ writes'[t] = NoRows /\ found'[t] = {} /\ got'[t] = 0 /\ pend'[t] = None
  BY <1>0, Zenon DEF RowShapes, Shapes
<1>5. DOMAIN NoRows = {} BY Zenon DEF NoRows
<1>6. Local(t)'
  <2>1. Idle \in OpSet BY Zenon DEF Idle, OpSet, Kinds
  <2>2. TxTyped(t)' BY <1>3, <1>4, <1>5, <2>1 DEF TxTyped, Idle, RowInv, RowsTyped
  <2>3. OwnRows(t)' /\ Moved(t)' BY <1>4, <1>5, Zenon DEF OwnRows, Moved
  <2>4. Targets(t)' /\ Stage(t)' /\ Counted(t)' BY <1>4, <1>5 DEF Targets, Stage, Counted, Idle
  <2> QED BY <2>2, <2>3, <2>4, Zenon DEF Local
<1>7. \A u \in Txs : Local(u)' BY <1>2, <1>3, <1>6, OthersKeep, Zenon DEF Others
<1>8. Apart'
  <2> SUFFICES ASSUME NEW u \in Txs, NEW v \in Txs, u # v
               PROVE  /\ DOMAIN writes'[u] \cap DOMAIN writes'[v] = {}
                      /\ pc'[u] # "idle" => op'[u].new # op'[v].new /\ op'[u].new \notin DOMAIN writes'[v]
    BY Zenon DEF Apart
  <2>1. CASE u = t BY <1>4, <1>5, <2>1, Zenon
  <2>2. CASE v = t
    <3>1. op'[u] = op[u] /\ pc'[u] = pc[u] /\ op'[v].new = 0 BY <1>2, <1>4, <2>2 DEF Alone, Others, Idle
    <3>2. pc[u] # "idle" => 0 < op[u].new BY Zenon DEF RowInv, Local, TxTyped
    <3> QED BY <1>4, <1>5, <2>2, <3>1, <3>2
  <2>3. CASE u # t /\ v # t
    BY <1>2, <2>3 DEF Alone, Others, RowInv, Apart
  <2> QED BY <2>1, <2>2, <2>3, Zenon
<1>9. Unclashing'
  <2>1. \A i, j \in DOMAIN rows' : i # j => ~Clash(rows'[i], rows'[j]) BY <1>3, Zenon DEF RowInv, Unclashing
  <2>2. ASSUME NEW u \in Txs, NEW i \in DOMAIN Visible(u)', NEW j \in DOMAIN Visible(u)', i # j
        PROVE  ~Clash(Visible(u)'[i], Visible(u)'[j])
    <3>1. CASE u = t
      <4>1. DOMAIN Visible(u)' = DOMAIN rows' /\ \A k \in DOMAIN rows' : Visible(u)'[k] = rows'[k]
        BY <1>4, <1>5, <3>1, Zenon DEF Visible, Over
      <4> QED BY <2>1, <2>2, <4>1, Zenon
    <3>2. CASE u # t
      <4>1. Visible(u)' = Visible(u) BY <1>2, <1>3, <3>2, Zenon DEF Visible, Alone, Others
      <4> QED BY <2>2, <4>1, Zenon DEF RowInv, Unclashing
    <3> QED BY <3>1, <3>2, Zenon
  <2>3. ASSUME NEW u \in Txs, NEW v \in Txs, u # v, NEW i \in DOMAIN writes'[u], NEW j \in DOMAIN writes'[v]
        PROVE  ~Clash(writes'[u][i], writes'[v][j])
    <3>1. u # t /\ v # t BY <1>4, <1>5, <2>3, Zenon
    <3> QED BY <1>2, <2>3, <3>1, Zenon DEF Alone, Others, RowInv, Unclashing
  <2> QED BY <2>1, <2>2, <2>3, Zenon DEF Unclashing
<1> QED BY <1>1, <1>3, <1>7, <1>8, <1>9, RowsStay, Zenon DEF RowInv

\* A call begins with an id that nobody has.
LEMMA BeginKeeps ==
  ASSUME RowInv, NEW t \in Txs, NEW kind \in Kinds \ {"none"}, NEW scope \in Scopes \cup {None}, NEW id \in Nat, NEW label,
         label \notin {"idle", "commit"}, kind = "switch" => label = "scope" /\ scope \in Scopes,
         label \in {"tenant", "tail", "append"} => kind = "audit", kind \in {"signing", "rotate", "revoke"} => scope = None,
         Begin(t, kind, scope, id, label), IInv',
         kind = "activate" => id \in DOMAIN rows /\ rows[id].tab = "policy" /\ rows[id].scope = scope,
         kind \in {"rotate", "revoke"} => id \in DOMAIN rows /\ rows[id].tab = "apikey"
  PROVE  RowInv'
<1> USE DEF Begin, Goto
<1>0. RowShapes /\ Shapes /\ Local(t) /\ RowsTyped BY Zenon DEF RowInv, IInv
<1>1. RowShapes' BY <1>0, Zenon DEF RowShapes
<1>2. Alone(t)
  <2>1. ASSUME NEW u \in Others(t)
        PROVE  /\ op'[u] = op[u] /\ pc'[u] = pc[u] /\ writes'[u] = writes[u]
               /\ found'[u] = found[u] /\ got'[u] = got[u] /\ pend'[u] = pend[u]
    BY <1>0, <2>1, Zenon DEF RowShapes, Shapes, Others
  <2> QED BY <1>1, <2>1, Zenon DEF Alone
<1>3. rows' = rows /\ audit' = audit /\ next' = next + 1 /\ next' \in Nat /\ next' >= next /\ next \in Nat /\ next >= 3
  BY <1>0 DEF RowsTyped
<1>4. /\ op'[t] = [kind |-> kind, scope |-> scope, id |-> id, new |-> next] /\ pc'[t] = label
      /\ writes'[t] = writes[t] /\ found'[t] = found[t] /\ got'[t] = got[t] /\ pend'[t] = pend[t]
  BY <1>0, Zenon DEF RowShapes, Shapes
<1>5. pc[t] = "idle" /\ op[t] = Idle /\ writes[t] = NoRows /\ pend[t] = None /\ found[t] = {} /\ DOMAIN writes[t] = {}
  BY <1>0 DEF Local, TxTyped, Stage, Late, Targets, Idle, NoRows
<1>6. next \notin DOMAIN rows /\ \A u \in Txs : next \notin DOMAIN writes[u] /\ op[u].new < next
  BY <1>3 DEF RowInv, RowsTyped, Local, TxTyped
<1>7. Local(t)'
  <2>1. op'[t] \in OpSet BY <1>3, <1>4 DEF OpSet
  <2>2. TxTyped(t)' BY <1>0, <1>3, <1>4, <1>5, <1>6, <2>1 DEF TxTyped, Local
  <2>3. OwnRows(t)' /\ Moved(t)' BY <1>4, <1>5, Zenon DEF OwnRows, Moved
  <2>4. Targets(t)' BY <1>3, <1>4, <1>5 DEF Targets
  <2>5. Stage(t)' BY <1>4, <1>5 DEF Stage, Audited
  <2>6. Counted(t)' BY <1>4, <1>5 DEF Counted
  <2> QED BY <2>2, <2>3, <2>4, <2>5, <2>6, Zenon DEF Local
<1>8. \A u \in Txs : Local(u)' BY <1>2, <1>3, <1>7, OthersKeep, Zenon DEF Others
<1>9. Apart'
  <2> SUFFICES ASSUME NEW u \in Txs, NEW v \in Txs, u # v
               PROVE  /\ DOMAIN writes'[u] \cap DOMAIN writes'[v] = {}
                      /\ pc'[u] # "idle" => op'[u].new # op'[v].new /\ op'[u].new \notin DOMAIN writes'[v]
    BY Zenon DEF Apart
  <2>1. writes' = writes BY Zenon DEF Begin
  <2>2. op'[t].new = next BY <1>4
  <2>3. CASE u = t
    <3>1. op'[v].new = op[v].new /\ op[v].new \in Nat BY <1>2, <2>3, Zenon DEF Alone, Others, RowInv, Local, TxTyped, OpSet
    <3> QED BY <1>3, <1>6, <2>1, <2>2, <2>3, <3>1 DEF RowInv, Apart
  <2>4. CASE v = t
    <3>1. op'[u].new = op[u].new /\ pc'[u] = pc[u] /\ op[u].new \in Nat
      BY <1>2, <2>4, Zenon DEF Alone, Others, RowInv, Local, TxTyped, OpSet
    <3> QED BY <1>3, <1>5, <1>6, <2>1, <2>2, <2>4, <3>1 DEF RowInv, Apart
  <2>5. CASE u # t /\ v # t
    BY <1>2, <2>5 DEF Alone, Others, RowInv, Apart
  <2> QED BY <2>3, <2>4, <2>5, Zenon
<1>10. Unclashing' BY Zenon DEF RowInv, Unclashing, Visible
<1> QED BY <1>1, <1>3, <1>8, <1>9, <1>10, RowsStay, Zenon DEF RowInv

\* Two rows clash on a unique index whichever is looked at first.
LEMMA ClashSymmetric ==
  ASSUME NEW a, NEW b, Clash(a, b)
  PROVE  Clash(b, a)
BY Zenon DEF Clash

\* A row that is deactivated clashes with nothing that it did not clash with.
LEMMA ClashLess ==
  ASSUME NEW a \in RowSet, NEW b, Clash([a EXCEPT !.active = FALSE], b)
  PROVE  Clash(a, b)
BY Zenon DEF Clash, RowSet

\* New contents of a transaction that hold rows of its own only, and clash with
\* nothing that it sees or that others write.
LEMMA ContentsKeep ==
  ASSUME RowInv, NEW t \in Txs, pc[t] # "idle", NEW w, NEW label, label # "idle",
         writes' = [writes EXCEPT ![t] = w], pc' = [pc EXCEPT ![t] = label],
         UNCHANGED <<rows, audit, next, op, found, got, pend, lock>>, IInv', Local(t)',
         \A u \in Others(t) : DOMAIN w \cap DOMAIN writes[u] = {},
         \A i \in DOMAIN w : i \in DOMAIN rows \/ i = op[t].new,
         \A i, j \in DOMAIN w : i # j => ~Clash(w[i], w[j]),
         \A i \in DOMAIN w, j \in DOMAIN rows \ DOMAIN w : ~Clash(w[i], rows[j]),
         \A u \in Others(t) : \A i \in DOMAIN w, j \in DOMAIN writes[u] : ~Clash(w[i], writes[u][j])
  PROVE  RowInv'
<1>0. RowShapes /\ Shapes BY Zenon DEF RowInv, IInv
<1>1. RowShapes' BY <1>0, Zenon DEF RowShapes
<1>2. Alone(t)
  <2>1. ASSUME NEW u \in Others(t) PROVE pc'[u] = pc[u] /\ writes'[u] = writes[u]
    BY <1>0, <2>1, Zenon DEF RowShapes, Shapes, Others
  <2> QED BY <1>1, <2>1, Zenon DEF Alone
<1>3. next' \in Nat /\ next' >= next BY DEF RowInv, RowsTyped
<1>4. \A u \in Txs : Local(u)' BY <1>2, <1>3, OthersKeep, Zenon DEF Others
<1>5. writes'[t] = w /\ pc'[t] = label BY <1>0, Zenon DEF RowShapes, Shapes
<1>6. Apart'
  <2> SUFFICES ASSUME NEW u \in Txs, NEW v \in Txs, u # v
               PROVE  /\ DOMAIN writes'[u] \cap DOMAIN writes'[v] = {}
                      /\ pc'[u] # "idle" => op[u].new # op[v].new /\ op[u].new \notin DOMAIN writes'[v]
    BY Zenon DEF Apart
  <2>0. pc[u] # "idle" => op[u].new # op[v].new /\ op[u].new \notin DOMAIN writes[v] /\ op[u].new \notin DOMAIN rows
    BY Zenon DEF RowInv, Apart, Local, TxTyped
  <2>1. CASE u = t
    <3>1. writes'[v] = writes[v] /\ v \in Others(t) BY <1>2, <2>1, Zenon DEF Alone, Others
    <3> QED BY <1>5, <2>0, <2>1, <3>1, Zenon
  <2>2. CASE v = t
    <3>1. writes'[u] = writes[u] /\ pc'[u] = pc[u] /\ u \in Others(t) BY <1>2, <2>2, Zenon DEF Alone, Others
    <3> QED BY <1>5, <2>0, <2>2, <3>1, Zenon
  <2>3. CASE u # t /\ v # t BY <1>2, <2>3 DEF Alone, Others, RowInv, Apart
  <2> QED BY <2>1, <2>2, <2>3, Zenon
<1>7. \A i \in DOMAIN w, j \in DOMAIN rows \ DOMAIN w : ~Clash(rows[j], w[i]) BY ClashSymmetric, Zenon
<1>8. \A u \in Others(t) : \A i \in DOMAIN w, j \in DOMAIN writes[u] : ~Clash(writes[u][j], w[i]) BY ClashSymmetric, Zenon
<1>9. ASSUME NEW u \in Txs, NEW i \in DOMAIN Visible(u)', NEW j \in DOMAIN Visible(u)', i # j
      PROVE  ~Clash(Visible(u)'[i], Visible(u)'[j])
  <2>1. CASE u = t
    <3>1. Visible(u)' = Over(rows, w) BY <1>5, <2>1, Zenon DEF Visible
    <3>2. DOMAIN Over(rows, w) = DOMAIN rows \cup DOMAIN w
      BY Zenon DEF Over
    <3>3. \A k \in DOMAIN w : Over(rows, w)[k] = w[k] BY Zenon DEF Over
    <3>4. \A k \in DOMAIN rows \ DOMAIN w : Over(rows, w)[k] = rows[k] BY Zenon DEF Over
    <3>5. \A k, l \in DOMAIN rows : k # l => ~Clash(rows[k], rows[l]) BY Zenon DEF RowInv, Unclashing
    <3>6. CASE i \in DOMAIN w /\ j \in DOMAIN w BY <1>9, <3>1, <3>3, <3>6, Zenon
    <3>7. CASE i \in DOMAIN w /\ j \notin DOMAIN w BY <1>9, <3>1, <3>2, <3>3, <3>4, <3>7, Zenon
    <3>8. CASE i \notin DOMAIN w /\ j \in DOMAIN w BY <1>7, <1>9, <3>1, <3>2, <3>3, <3>4, <3>8
    <3>9. CASE i \notin DOMAIN w /\ j \notin DOMAIN w BY <1>9, <3>1, <3>2, <3>4, <3>5, <3>9, Zenon
    <3> QED BY <3>6, <3>7, <3>8, <3>9, Zenon
  <2>2. CASE u # t
    <3>1. Visible(u)' = Visible(u) BY <1>2, <2>2, Zenon DEF Visible, Alone, Others
    <3> QED BY <1>9, <3>1, Zenon DEF RowInv, Unclashing
  <2> QED BY <2>1, <2>2, Zenon
<1>10. ASSUME NEW u \in Txs, NEW v \in Txs, u # v, NEW i \in DOMAIN writes'[u], NEW j \in DOMAIN writes'[v]
       PROVE  ~Clash(writes'[u][i], writes'[v][j])
  <2>1. CASE u = t
    <3>1. v \in Others(t) /\ writes'[v] = writes[v] BY <1>2, <1>10, <2>1, Zenon DEF Alone, Others
    <3> QED BY <1>5, <1>10, <2>1, <3>1, Zenon
  <2>2. CASE v = t
    <3>1. u \in Others(t) /\ writes'[u] = writes[u] BY <1>2, <1>10, <2>2, Zenon DEF Alone, Others
    <3> QED BY <1>5, <1>8, <1>10, <2>2, <3>1, Zenon
  <2>3. CASE u # t /\ v # t BY <1>2, <1>10, <2>3, Zenon DEF Alone, Others, RowInv, Unclashing
  <2> QED BY <2>1, <2>2, <2>3, Zenon
<1>11. Unclashing' BY <1>9, <1>10, Zenon DEF RowInv, Unclashing
<1> QED BY <1>1, <1>3, <1>4, <1>6, <1>11, RowsStay, Zenon DEF RowInv

\* A row written: one that is its own to write, with the number its call gives it.
LEMMA WriteKeeps ==
  ASSUME RowInv, NEW t \in Txs, NEW id, NEW row \in RowSet, NEW label \in Late, pc[t] \notin {"idle", "commit"},
         Write(t, id, row, label), ~Violates(t, id, row), IInv',
         op[t].kind \notin {"none", "audit"}, row.tab = TableOf(op[t].kind),
         op[t].kind # "rotate" => row.scope = op[t].scope,
         id \in DOMAIN rows => rows[id].tab = row.tab /\ rows[id].scope = row.scope,
         id \in DOMAIN rows \/ id = op[t].new,
         op[t].kind = "create" => id = op[t].new,
         label \in {"tenant", "tail", "append"} => op[t].kind \in Audited,
         label = "commit" => /\ op[t].kind \notin Audited
                             /\ op[t].kind = "activate" => id = op[t].id /\ row.active
                             /\ op[t].kind = "signing" => id = op[t].new /\ row.active,
         op[t].kind = "switch" => row.ver = got[t] /\ pc[t] = "upsert",
         op[t].kind \in {"canary", "move"} => row.ver = op[t].new
  PROVE  RowInv'
<1> DEFINE w == Over(writes[t], [i \in {id} |-> row])
<1>0. RowShapes /\ Shapes /\ Local(t) /\ RowsTyped /\ Unclashing /\ IInv BY Zenon DEF RowInv, IInv
<1>1. /\ writes' = [writes EXCEPT ![t] = w] /\ pc' = [pc EXCEPT ![t] = label]
      /\ UNCHANGED <<rows, audit, next, op, found, got, tail, pend, lock, out>>
      /\ ~MustWait(t, id, row)
  BY Zenon DEF Write, Goto
<1>2. DOMAIN w = DOMAIN writes[t] \cup {id} /\ w[id] = row /\ \A i \in DOMAIN writes[t] \ {id} : w[i] = writes[t][i]
  BY Zenon DEF Over
<1> HIDE DEF w
<1>3. writes'[t] = w /\ pc'[t] = label BY <1>0, <1>1, Zenon DEF RowShapes, Shapes
<1>4. pend[t] = None BY <1>0, Zenon DEF Local, Stage
<1>5. id \in Nat /\ 0 < id /\ id < next BY <1>0, Zenon DEF RowsTyped, Local, TxTyped, OpSet
<1>6. Local(t)'
  <2>1. TxTyped(t)' BY <1>0, <1>1, <1>2, <1>3, <1>5 DEF Local, TxTyped, Late
  <2>2. OwnRows(t)' BY <1>0, <1>1, <1>2, <1>3 DEF Local, OwnRows
  <2>3. Targets(t)' BY <1>0, <1>1, Zenon DEF Local, Targets
  <2>4. Stage(t)' BY <1>0, <1>1, <1>2, <1>3, <1>4, Zenon DEF Local, Stage
  <2>5. Counted(t)'
    <3>1. \A i \in DOMAIN w : op[t].kind = "switch" => w[i].ver = got[t] BY <1>0, <1>2, Zenon DEF Local, Counted
    <3> QED BY <1>0, <1>1, <1>3, <3>1, Zenon DEF Local, Counted
  <2>6. Moved(t)'
    <3>1. op[t].kind \in {"canary", "move"} => \A i \in DOMAIN w : w[i].ver = op[t].new BY <1>0, <1>2, Zenon DEF Local, Moved
    <3> QED BY <1>1, <1>3, <3>1, Zenon DEF Moved
  <2> QED BY <2>1, <2>2, <2>3, <2>4, <2>5, <2>6, Zenon DEF Local
<1>7. \A u \in Others(t) : id \notin DOMAIN writes[u] /\ \A j \in DOMAIN writes[u] : ~Clash(writes[u][j], row)
  BY <1>1, Zenon DEF MustWait, LockedByOther
<1>8. \A u \in Others(t) : DOMAIN w \cap DOMAIN writes[u] = {}
  BY <1>2, <1>7, Zenon DEF RowInv, Apart, Others
<1>9. \A i \in DOMAIN w : i \in DOMAIN rows \/ i = op[t].new BY <1>0, <1>2, Zenon DEF Local, OwnRows
<1>10. DOMAIN Visible(t) = DOMAIN rows \cup DOMAIN writes[t] /\ \A i \in DOMAIN writes[t] : Visible(t)[i] = writes[t][i]
  BY Seen, Zenon
<1>11. \A i \in DOMAIN rows \ DOMAIN writes[t] : Visible(t)[i] = rows[i] BY Seen, Zenon
<1>12. \A i \in DOMAIN Visible(t) \ {id} : ~Clash(Visible(t)[i], row) BY Zenon DEF Violates
<1>13. \A i, j \in DOMAIN Visible(t) : i # j => ~Clash(Visible(t)[i], Visible(t)[j]) BY <1>0, Zenon DEF Unclashing
<1>14. \A i, j \in DOMAIN w : i # j => ~Clash(w[i], w[j])
  <2> SUFFICES ASSUME NEW i \in DOMAIN w, NEW j \in DOMAIN w, i # j PROVE ~Clash(w[i], w[j])
    BY Zenon
  <2>1. CASE i = id
    <3>1. w[j] = Visible(t)[j] /\ j \in DOMAIN Visible(t) \ {id} BY <1>2, <1>10, <2>1, Zenon
    <3> QED BY <1>2, <1>12, <2>1, <3>1, ClashSymmetric, Zenon
  <2>2. CASE j = id
    <3>1. w[i] = Visible(t)[i] /\ i \in DOMAIN Visible(t) \ {id} BY <1>2, <1>10, <2>2, Zenon
    <3> QED BY <1>2, <1>12, <2>2, <3>1, Zenon
  <2>3. CASE i # id /\ j # id
    <3>1. w[i] = Visible(t)[i] /\ w[j] = Visible(t)[j] /\ i \in DOMAIN Visible(t) /\ j \in DOMAIN Visible(t)
      BY <1>2, <1>10, <2>3, Zenon
    <3> QED BY <1>13, <3>1, Zenon
  <2> QED BY <2>1, <2>2, <2>3, Zenon
<1>15. \A i \in DOMAIN w, j \in DOMAIN rows \ DOMAIN w : ~Clash(w[i], rows[j])
  <2> SUFFICES ASSUME NEW i \in DOMAIN w, NEW j \in DOMAIN rows \ DOMAIN w PROVE ~Clash(w[i], rows[j])
    BY Zenon
  <2>0. j \in DOMAIN Visible(t) /\ j # id /\ j # i /\ Visible(t)[j] = rows[j] BY <1>2, <1>10, <1>11, Zenon
  <2>1. CASE i = id BY <1>2, <1>12, <2>0, <2>1, ClashSymmetric, Zenon
  <2>2. CASE i # id
    <3>1. w[i] = Visible(t)[i] /\ i \in DOMAIN Visible(t) BY <1>2, <1>10, <2>2, Zenon
    <3> QED BY <1>13, <2>0, <3>1, Zenon
  <2> QED BY <2>1, <2>2, Zenon
<1>16. \A u \in Others(t) : \A i \in DOMAIN w, j \in DOMAIN writes[u] : ~Clash(w[i], writes[u][j])
  <2> SUFFICES ASSUME NEW u \in Others(t), NEW i \in DOMAIN w, NEW j \in DOMAIN writes[u] PROVE ~Clash(w[i], writes[u][j])
    BY Zenon
  <2>1. CASE i = id BY <1>2, <1>7, <2>1, ClashSymmetric, Zenon
  <2>2. CASE i # id BY <1>0, <1>2, <2>2, Zenon DEF Unclashing, Others
  <2> QED BY <2>1, <2>2, Zenon
<1>17. pc[t] # "idle" /\ label # "idle" BY Zenon DEF Late
<1>18. writes' = [writes EXCEPT ![t] = w] /\ pc' = [pc EXCEPT ![t] = label] BY <1>1, Zenon
<1>19. UNCHANGED <<rows, audit, next, op, found, got, pend, lock>> BY <1>1, Zenon
<1>20. RowInv /\ t \in Txs /\ IInv' BY Zenon
<1> QED BY ONLY <1>6, <1>8, <1>9, <1>14, <1>15, <1>16, <1>17, <1>18, <1>19, <1>20, ContentsKeep, Zenon

\* The rows of a query deactivated: they keep their table, scope and number.
LEMMA DeactivateKeeps ==
  ASSUME RowInv, NEW t \in Txs, pc[t] = "clear", op[t].kind \in {"activate", "signing", "revoke"},
         NEW label \in {"set", "insert", "commit"}, label = "commit" => op[t].kind = "revoke",
         NEW orElse, Deactivate(t, label, orElse), ~Fails(t, orElse), IInv'
  PROVE  RowInv'
<1> DEFINE still == {i \in found[t] : Visible(t)[i].active}
           w == Over(writes[t], [i \in still |-> [Visible(t)[i] EXCEPT !.active = FALSE]])
<1>0. RowShapes /\ Shapes /\ Local(t) /\ RowsTyped /\ Unclashing BY Zenon DEF RowInv, IInv
<1>1. /\ writes' = [writes EXCEPT ![t] = w] /\ pc' = [pc EXCEPT ![t] = label]
      /\ UNCHANGED <<rows, audit, next, op, found, got, tail, pend, lock, out>>
      /\ \A i \in found[t] : ~LockedByOther(t, i)
  BY Zenon DEF Deactivate, Goto
<1>2. writes[t] = NoRows /\ DOMAIN writes[t] = {} /\ pend[t] = None BY <1>0, Zenon DEF Local, Stage, Late, NoRows
<1>3. still \subseteq found[t] /\ found[t] \subseteq DOMAIN rows BY <1>0, Zenon DEF Local, Targets
<1>4. \A i \in DOMAIN rows : Visible(t)[i] = rows[i] /\ rows[i] \in RowSet BY <1>0, <1>2, SeesRows, Zenon DEF RowsTyped
<1>5. DOMAIN w = still /\ \A i \in still : w[i] = [rows[i] EXCEPT !.active = FALSE]
  <2>1. DOMAIN w = still BY <1>2, Zenon DEF Over
  <2>2. \A i \in still : w[i] = [Visible(t)[i] EXCEPT !.active = FALSE] BY <2>1, Zenon DEF Over
  <2> QED BY <1>3, <1>4, <2>1, <2>2, Zenon
<1> HIDE DEF w, still
<1>6. \A i \in DOMAIN w : /\ w[i] \in RowSet /\ w[i].tab = rows[i].tab /\ w[i].scope = rows[i].scope
                          /\ i \in DOMAIN rows /\ i \in found[t]
  <2> SUFFICES ASSUME NEW i \in DOMAIN w
               PROVE  /\ w[i] \in RowSet /\ w[i].tab = rows[i].tab /\ w[i].scope = rows[i].scope
                      /\ i \in DOMAIN rows /\ i \in found[t]
    BY Zenon
  <2>1. i \in still /\ i \in found[t] /\ i \in DOMAIN rows BY <1>3, <1>5, Zenon
  <2>2. rows[i] \in RowSet /\ w[i] = [rows[i] EXCEPT !.active = FALSE] BY <1>4, <1>5, <2>1, Zenon
  <2>3. ASSUME NEW a \in RowSet
        PROVE  LET b == [a EXCEPT !.active = FALSE] IN b \in RowSet /\ b.tab = a.tab /\ b.scope = a.scope
    BY Zenon DEF RowSet
  <2> QED BY <2>1, <2>2, <2>3, Zenon
<1>7. writes'[t] = w /\ pc'[t] = label BY <1>0, <1>1, Zenon DEF RowShapes, Shapes
<1>8. Local(t)'
  <2>1. TxTyped(t)' BY <1>0, <1>1, <1>6, <1>7, Zenon DEF Local, TxTyped, RowsTyped, Late
  <2>2. OwnRows(t)'
    <3>1. ASSUME NEW i \in DOMAIN w
          PROVE  /\ op[t].kind \notin {"none", "audit"} /\ w[i].tab = TableOf(op[t].kind) /\ w[i].scope = op[t].scope
                 /\ i \in DOMAIN rows /\ rows[i].tab = w[i].tab /\ rows[i].scope = w[i].scope
      BY <1>0, <1>6, Zenon DEF Local, Targets
    <3> QED BY <1>1, <1>7, <3>1, Zenon DEF OwnRows
  <2>3. Targets(t)' BY <1>0, <1>1, Zenon DEF Local, Targets
  <2>4. Stage(t)'
    <3>1. pc'[t] \in Late /\ pc'[t] \notin {"tenant", "tail", "append"} BY <1>7, Zenon DEF Late
    <3>2. op'[t] = op[t] /\ pend'[t] = None /\ op[t].kind \notin Audited BY <1>1, <1>2, Zenon DEF Audited
    <3>3. op[t].kind \notin {"switch", "canary", "move", "create"} BY Zenon
    <3> QED BY <1>7, <3>1, <3>2, <3>3, Zenon DEF Stage
  <2>5. Counted(t)' /\ Moved(t)' BY <1>1, Zenon DEF Counted, Moved
  <2> QED BY <2>1, <2>2, <2>3, <2>4, <2>5, Zenon DEF Local
<1>9. \A u \in Others(t) : DOMAIN w \cap DOMAIN writes[u] = {} BY <1>1, <1>6, Zenon DEF LockedByOther
<1>10. \A i \in DOMAIN w : \A b : Clash(w[i], b) => Clash(rows[i], b) BY <1>4, <1>5, <1>6, ClashLess
<1>11. \A i, j \in DOMAIN rows : i # j => ~Clash(rows[i], rows[j]) BY <1>0, Zenon DEF Unclashing
<1>12. \A i, j \in DOMAIN w : i # j => ~Clash(w[i], w[j])
  <2> SUFFICES ASSUME NEW i \in DOMAIN w, NEW j \in DOMAIN w, i # j, Clash(w[i], w[j]) PROVE FALSE
    BY Zenon
  <2>1. Clash(rows[i], w[j]) BY <1>10, Zenon
  <2>2. Clash(w[j], rows[i]) BY <2>1, ClashSymmetric, Zenon
  <2>3. Clash(rows[j], rows[i]) BY <1>10, <2>2, Zenon
  <2> QED BY <1>6, <1>11, <2>3, Zenon
<1>13. \A i \in DOMAIN w, j \in DOMAIN rows \ DOMAIN w : ~Clash(w[i], rows[j]) BY <1>6, <1>10, <1>11, Zenon
<1>14. \A u \in Others(t) : \A i \in DOMAIN w, j \in DOMAIN writes[u] : ~Clash(w[i], writes[u][j])
  <2> SUFFICES ASSUME NEW u \in Others(t), NEW i \in DOMAIN w, NEW j \in DOMAIN writes[u], Clash(w[i], writes[u][j]) PROVE FALSE
    BY Zenon
  <2>0. u \in Txs BY Zenon DEF Others
  <2>1. i \in DOMAIN rows \ DOMAIN writes[u] BY <1>6, <1>9, Zenon
  <2>2. Visible(u)[i] = rows[i] /\ Visible(u)[j] = writes[u][j] /\ i \in DOMAIN Visible(u) /\ j \in DOMAIN Visible(u)
    BY <2>0, <2>1, Seen, Zenon
  <2>3. ~Clash(Visible(u)[i], Visible(u)[j]) BY <1>0, <2>0, <2>1, <2>2, Zenon DEF Unclashing
  <2> QED BY <1>10, <2>2, <2>3, Zenon
<1>15. pc[t] # "idle" /\ label # "idle" BY Zenon
<1>16. \A i \in DOMAIN w : i \in DOMAIN rows \/ i = op[t].new BY <1>6, Zenon
<1> QED BY <1>1, <1>8, <1>9, <1>12, <1>13, <1>14, <1>15, <1>16, ContentsKeep

\* A query: it remembers rows of its own table and scope.
LEMMA MatchedKeeps ==
  ASSUME RowInv, NEW t \in Txs, pc[t] \in {"match", "select"}, op[t].kind \in {"activate", "signing", "revoke", "rotate"},
         NEW S, Matched(t, S, "clear"), IInv',
         \A i \in S : i \in DOMAIN rows /\ rows[i].tab = TableOf(op[t].kind) /\ rows[i].scope = op[t].scope
  PROVE  RowInv'
<1> USE DEF Matched, Goto
<1>0. RowShapes /\ Shapes /\ Local(t) BY Zenon DEF RowInv, IInv
<1>1. found'[t] = S /\ pc'[t] = "clear" BY <1>0, Zenon DEF RowShapes, Shapes
<1>2. Alone(t)
  <2>1. ASSUME NEW u \in Others(t) PROVE pc'[u] = pc[u] /\ found'[u] = found[u]
    BY <1>0, <2>1, Zenon DEF RowShapes, Shapes, Others
  <2> QED BY <1>0, <2>1, Zenon DEF Alone, RowShapes
<1>3. Local(t)'
  <2>1. TxTyped(t)' BY <1>0, <1>1, Zenon DEF Local, TxTyped
  <2>2. OwnRows(t)' /\ Moved(t)' BY <1>0, <1>1, Zenon DEF Local, OwnRows, Moved
  <2>3. Targets(t)' BY <1>0, <1>1, Zenon DEF Local, Targets
  <2>4. Stage(t)' BY <1>0, <1>1, Zenon DEF Local, Stage, Late
  <2>5. Counted(t)' BY Zenon DEF Counted
  <2> QED BY <2>1, <2>2, <2>3, <2>4, <2>5, Zenon DEF Local
<1> QED BY <1>2, <1>3, QuietKeeps, Zenon

\* A lock is taken only from nobody.
LEMMA LockKeeps ==
  ASSUME RowInv, NEW t \in Txs, NEW l \in Scopes \cup {Tenant}, NEW label, TakeLock(t, l, label), IInv',
         \/ op[t].kind = "switch" /\ pc[t] = "scope" /\ label = "max" /\ l = op[t].scope
         \/ op[t].kind \in Audited /\ pc[t] = "tenant" /\ label = "tail"
  PROVE  RowInv'
<1> USE DEF TakeLock, Goto
<1>0. RowShapes /\ Shapes /\ Local(t) BY Zenon DEF RowInv, IInv
<1>1. lock'[l] = t /\ pc'[t] = label BY <1>0, Zenon DEF Shapes
<1>2. Alone(t)
  <2>1. ASSUME NEW u \in Others(t) PROVE pc'[u] = pc[u]
    BY <1>0, <2>1, Zenon DEF Shapes, Others
  <2>2. ASSUME NEW u \in Others(t), NEW k \in Scopes, lock[k] = u PROVE lock'[k] = u
    <3>1. u \in Txs /\ u # t BY Zenon DEF Others
    <3>2. k # l BY <2>2, <3>1, NoneAssumption, Zenon
    <3> QED BY <1>0, <2>2, <3>2, Zenon DEF Shapes
  <2> QED BY <1>0, <2>1, <2>2, Zenon DEF Alone, RowShapes
<1>3. \A k \in Scopes : lock[k] = t => lock'[k] = t BY <1>0, Zenon DEF Shapes
<1>4. Local(t)'
  <2>1. TxTyped(t)' BY <1>0, <1>1, Zenon DEF Local, TxTyped
  <2>2. OwnRows(t)' /\ Moved(t)' BY <1>0, <1>1, Zenon DEF Local, OwnRows, Moved
  <2>3. Targets(t)' BY <1>0, Zenon DEF Local, Targets
  <2>4. Stage(t)' BY <1>0, <1>1, Zenon DEF Local, Stage, Late
  <2>5. Counted(t)' BY <1>0, <1>1, <1>3, Zenon DEF Local, Counted
  <2> QED BY <2>1, <2>2, <2>3, <2>4, <2>5, Zenon DEF Local
<1>5. pc[t] # "idle" BY Zenon
<1> QED BY <1>2, <1>4, <1>5, QuietKeeps, Zenon

\* The number read is the one after the highest committed.
LEMMA MaxKeeps ==
  ASSUME RowInv, NEW t \in Txs, CreatePolicyMax(t) \/ IssueKillSwitchMax(t), IInv'
  PROVE  RowInv'
<1> DEFINE tab == TableOf(op[t].kind)
           I == {j \in DOMAIN rows : rows[j].tab = tab /\ rows[j].scope = op[t].scope}
           V == {rows[i].ver : i \in I}
           label == IF op[t].kind = "create" THEN "insert" ELSE "upsert"
<1>0. RowShapes /\ Shapes /\ Local(t) /\ RowsTyped /\ Unclashing BY Zenon DEF RowInv, IInv
<1>1. pc[t] = "max" /\ op[t].kind \in {"create", "switch"} BY Zenon DEF CreatePolicyMax, IssueKillSwitchMax, Is
<1>2. DOMAIN Visible(t) = DOMAIN rows /\ \A i \in DOMAIN rows : Visible(t)[i] = rows[i]
  BY <1>0, <1>1, SeesRows, Zenon DEF Local, Stage, Late
<1>3. Versions(t, tab, op[t].scope) = V
  <2>1. {j \in DOMAIN Visible(t) : Visible(t)[j].tab = tab /\ Visible(t)[j].scope = op[t].scope} = I BY <1>2, Zenon
  <2>2. Versions(t, tab, op[t].scope) = {Visible(t)[i].ver : i \in I} BY <2>1, Zenon DEF Versions
  <2>3. \A i \in I : Visible(t)[i].ver = rows[i].ver BY <1>2, Zenon
  <2> QED BY <2>2, <2>3, Zenon
<1>4. ReadNext(t, tab, label)
  <2>1. CASE CreatePolicyMax(t) BY <2>1, Zenon DEF CreatePolicyMax, Is, TableOf
  <2>2. CASE IssueKillSwitchMax(t) BY <2>2, Zenon DEF IssueKillSwitchMax, Is, TableOf
  <2> QED BY <2>1, <2>2, Zenon
<1>5. PICK m \in V \cup {0} : (\A v \in V : v <= m) /\ got' = [got EXCEPT ![t] = m + 1] BY <1>3, <1>4, Zenon DEF ReadNext
<1>6. pc' = [pc EXCEPT ![t] = label] /\ UNCHANGED <<rows, audit, next, op, writes, found, tail, pend, lock, out>>
  BY <1>4, Zenon DEF ReadNext, Goto
<1>7. \A i \in I : rows[i].ver \in Nat BY <1>0, Zenon DEF RowsTyped, RowSet
<1>7a. m \in Nat BY <1>7
<1>7b. ASSUME op[t].kind = "switch"
       PROVE  (\A i \in I : m = rows[i].ver) /\ (I = {} => m = 0)
  <2>1. ASSUME NEW i \in I PROVE m = rows[i].ver
    <3>1. \A j \in I : j = i
      <4> SUFFICES ASSUME NEW j \in I, j # i PROVE FALSE
        BY Zenon
      <4>1. Clash(rows[i], rows[j]) BY <1>7b, Zenon DEF Clash, TableOf
      <4> QED BY <1>0, <4>1, Zenon DEF Unclashing
    <3>2. V = {rows[i].ver} BY <3>1, Zenon
    <3> HIDE DEF V
    <3> QED BY <1>5, <1>7, <3>2
  <2> QED BY <1>5, <2>1, Zenon
<1> HIDE DEF V
<1>7c. got'[t] = m + 1 /\ got'[t] \in Nat /\ pc'[t] = label BY <1>0, <1>5, <1>6, <1>7a DEF RowShapes, Shapes
<1>8. Alone(t)
  <2>1. ASSUME NEW u \in Others(t) PROVE pc'[u] = pc[u] /\ got'[u] = got[u]
    BY <1>0, <1>5, <1>6, <2>1, Zenon DEF RowShapes, Shapes, Others
  <2> QED BY <1>0, <1>5, <1>6, <2>1, Zenon DEF Alone, RowShapes
<1>9. Local(t)'
  <2>0. DOMAIN writes[t] = {} /\ pend[t] = None /\ writes[t] = NoRows BY <1>0, <1>1, Zenon DEF Local, Stage, Late, NoRows
  <2>1. TxTyped(t)' BY <1>0, <1>1, <1>6, <1>7c DEF Local, TxTyped
  <2>2. OwnRows(t)' /\ Moved(t)' BY <1>6, <2>0, Zenon DEF OwnRows, Moved
  <2>3. Targets(t)' BY <1>0, <1>6, Zenon DEF Local, Targets
  <2>4. Stage(t)' BY <1>6, <1>7c, <2>0 DEF Stage
  <2>5. Counted(t)'
    <3>1. CASE op[t].kind = "create" BY <1>6, <3>1, Zenon DEF Counted
    <3>2. CASE op[t].kind = "switch"
      <4>1. tab = "switch" BY <3>2, Zenon DEF TableOf
      <4>2. \A i \in DOMAIN rows : rows[i].tab = "switch" /\ rows[i].scope = op[t].scope => got'[t] = rows[i].ver + 1
        BY <1>7b, <1>7c, <3>2, <4>1, Zenon
      <4>3. (\A i \in DOMAIN rows : ~(rows[i].tab = "switch" /\ rows[i].scope = op[t].scope)) => got'[t] = 1
        BY <1>7b, <1>7c, <3>2, <4>1
      <4>4. op[t].scope \in Scopes /\ lock[op[t].scope] = t BY <1>0, <1>1, <3>2, Zenon DEF Local, Counted
      <4> QED BY <1>6, <2>0, <4>2, <4>3, <4>4, Zenon DEF Counted
    <3> QED BY <1>1, <3>1, <3>2, Zenon
  <2> QED BY <2>1, <2>2, <2>3, <2>4, <2>5, Zenon DEF Local
<1>10. pc[t] # "idle" BY <1>1, Zenon
<1>11. UNCHANGED <<rows, audit, next, op, writes>> BY <1>6, Zenon
<1> QED BY <1>8, <1>9, <1>10, <1>11, QuietKeeps, Zenon

\* The two statements of an audit event: what it will tell is what is written.
LEMMA AuditKeeps ==
  ASSUME RowInv, NEW t \in Txs, UNCHANGED <<rows, audit, next, op, writes, found, got, lock>>, IInv',
         NEW ev, ev = [seq |-> tail[t].seq + 1, id |-> op[t].new, prev |-> tail[t].id, what |-> Change(t)],
         \/ pc[t] = "tail" /\ pc' = [pc EXCEPT ![t] = "append"] /\ pend' = pend
         \/ pc[t] = "append" /\ pc' = [pc EXCEPT ![t] = "commit"] /\ pend' = [pend EXCEPT ![t] = ev]
  PROVE  RowInv'
<1>0. RowShapes /\ Shapes /\ Local(t) BY Zenon DEF RowInv, IInv
<1>1. pc[t] \in {"tail", "append"} /\ pend[t] = None /\ op[t].kind \in Audited
  BY <1>0, Zenon DEF Local, Stage
<1>2. UNCHANGED <<rows, audit, next, op, writes, found, got, lock>> BY Zenon
<1>3. /\ \A u \in Others(t) : pc'[u] = pc[u] /\ pend'[u] = pend[u]
      /\ \/ pc'[t] = "append" /\ pend'[t] = None
         \/ pc'[t] = "commit" /\ pend'[t] # None /\ EventTyped(pend'[t], next') /\ pend'[t].what = Change(t)
  <2>1. CASE pc[t] = "tail" BY <1>0, <1>1, <2>1, Zenon DEF Shapes, Others
  <2>2. CASE pc[t] = "append"
    <3>1. pend' = [pend EXCEPT ![t] = ev] /\ pc' = [pc EXCEPT ![t] = "commit"] /\ pc[t] = "append"
      BY <2>2, Zenon
    <3>2. tail[t].seq \in Nat /\ tail[t].id \in Nat /\ tail[t].id < next
      <4>1. AtEnd(t) BY <3>1, Zenon DEF RowInv, IInv, Exclusive
      <4>2. CASE tail[t] = NoEvent
        <5>1. tail[t].seq = 0 /\ tail[t].id = 0 BY <4>2 DEF NoEvent
        <5>2. next \in Nat /\ next >= 3 BY Zenon DEF RowInv, RowsTyped
        <5> QED BY <5>1, <5>2
      <4>3. ASSUME NEW e \in audit, tail[t] = [seq |-> e.seq, id |-> e.id]
            PROVE  tail[t].seq \in Nat /\ tail[t].id \in Nat /\ tail[t].id < next
        <5>1. EventTyped(e, next) BY Zenon DEF RowInv, RowsTyped
        <5>2. tail[t].seq = e.seq /\ tail[t].id = e.id BY <4>3
        <5>3. e.seq \in Nat /\ e.id \in Nat /\ e.id < next BY <5>1, Zenon DEF EventTyped, Events
        <5> QED BY <5>2, <5>3, Zenon
      <4> QED BY <4>1, <4>2, <4>3, Zenon DEF AtEnd
    <3>3. op[t].new \in Nat /\ 0 < op[t].new /\ op[t].new < next /\ got[t] \in Nat /\ op[t].scope \in Scopes \cup {None}
      BY <1>0, <1>1, Zenon DEF Local, TxTyped, OpSet
    <3>4. Change(t) \in {"switch", "canary", "record"} \X (Scopes \cup {None}) \X Nat BY <3>3, Zenon DEF Change
    <3>5. ev \in Events /\ ev.id = op[t].new /\ ev.prev = tail[t].id /\ ev.what = Change(t)
      <4>1. tail[t].seq + 1 \in Nat BY <3>2
      <4> HIDE DEF Change
      <4> QED BY <3>2, <3>3, <3>4, <4>1, Zenon DEF Events
    <3>6. EventTyped(ev, next) /\ ev # None BY <3>2, <3>3, <3>5, NoneAssumption, Zenon DEF EventTyped
    <3> QED BY <1>0, <1>2, <3>1, <3>5, <3>6, Zenon DEF Shapes, Others
  <2> QED BY <1>1, <2>1, <2>2, Zenon
<1>4. Alone(t) BY <1>0, <1>2, <1>3, Zenon DEF Alone, RowShapes
<1>5. Local(t)'
  <2>1. TxTyped(t)' BY <1>0, <1>1, <1>2, <1>3, Zenon DEF Local, TxTyped
  <2>2. OwnRows(t)' /\ Moved(t)' BY <1>0, <1>2 DEF Local, OwnRows, Moved
  <2>3. Targets(t)' BY <1>0, <1>2, Zenon DEF Local, Targets
  <2>4. Stage(t)'
    <3>1. Change(t)' = Change(t) BY <1>2, Zenon DEF Change
    <3>2. op[t].kind \notin {"create", "activate", "signing"} BY <1>1, Zenon DEF Audited
    <3>3. op'[t] = op[t] /\ writes'[t] = writes[t] /\ pc[t] \in Late /\ pc'[t] \in Late BY <1>1, <1>2, <1>3, Zenon DEF Late
    <3>4. op[t].kind \in {"switch", "canary", "move"} => DOMAIN writes[t] # {} BY <1>0, <1>1, Zenon DEF Local, Stage
    <3> QED BY <1>1, <1>3, <3>1, <3>2, <3>3, <3>4, Zenon DEF Stage
  <2>5. Counted(t)' BY <1>0, <1>1, <1>2, <1>3 DEF Local, Counted
  <2> QED BY <2>1, <2>2, <2>3, <2>4, <2>5, Zenon DEF Local
<1>6. pc[t] # "idle" BY <1>1, Zenon
<1> QED BY <1>2, <1>4, <1>5, <1>6, QuietKeeps, Zenon

-----------------------------------------------------------------------------
(* Commit: what the transaction saw becomes what is committed.             *)

\* What a commit changes, and who is left with what.
LEMMA CommitEffect ==
  ASSUME RowInv, NEW t \in Txs, Commit(t)
  PROVE  /\ DOMAIN rows' = DOMAIN rows \cup DOMAIN writes[t]
         /\ \A i \in DOMAIN writes[t] : rows'[i] = writes[t][i]
         /\ \A i \in DOMAIN rows \ DOMAIN writes[t] : rows'[i] = rows[i]
         /\ \A i \in DOMAIN rows : rows'[i].tab = rows[i].tab /\ rows'[i].scope = rows[i].scope
         /\ Alone(t) /\ RowShapes' /\ next' = next
         /\ op'[t] = Idle /\ pc'[t] = "idle" /\ writes'[t] = NoRows /\ found'[t] = {} /\ got'[t] = 0 /\ pend'[t] = None
<1> USE DEF Commit, Ends, Goto
<1>0. RowShapes /\ Shapes /\ Local(t) BY Zenon DEF RowInv, IInv
<1>1. DOMAIN rows' = DOMAIN rows \cup DOMAIN writes[t] /\ \A i \in DOMAIN writes[t] : rows'[i] = writes[t][i] BY Seen, Zenon
<1>2. \A i \in DOMAIN rows \ DOMAIN writes[t] : rows'[i] = rows[i] BY Seen, Zenon
<1>3. \A i \in DOMAIN rows : rows'[i].tab = rows[i].tab /\ rows'[i].scope = rows[i].scope
  BY <1>0, <1>1, <1>2, Zenon DEF Local, OwnRows
<1>4. RowShapes' BY <1>0, Zenon DEF RowShapes
<1>5. Alone(t)
  <2>1. ASSUME NEW u \in Others(t)
        PROVE  /\ op'[u] = op[u] /\ pc'[u] = pc[u] /\ writes'[u] = writes[u]
               /\ found'[u] = found[u] /\ got'[u] = got[u] /\ pend'[u] = pend[u]
    BY <1>0, <2>1, Zenon DEF RowShapes, Shapes, Others
  <2>2. ASSUME NEW u \in Others(t), NEW l \in Scopes, lock[l] = u PROVE lock'[l] = u
    BY <1>0, <2>2, Zenon DEF Shapes, Others
  <2> QED BY <1>4, <2>1, <2>2, Zenon DEF Alone
<1>6. /\ op'[t] = Idle /\ pc'[t] = "idle" /\ writes'[t] = NoRows /\ found'[t] = {} /\ got'[t] = 0 /\ pend'[t] = None
  BY <1>0, Zenon DEF RowShapes, Shapes
<1>7. next' = next BY Zenon
<1> QED BY <1>1, <1>2, <1>3, <1>4, <1>5, <1>6, <1>7, Zenon

\* The switch row of a scope that another transaction counts on is not the one
\* committed: the scope's lock is held by one of them.
LEMMA CommitOthers ==
  ASSUME RowInv, NEW t \in Txs, Commit(t), NEW u \in Others(t)
  PROVE  Local(u)'
<1>0. u \in Txs /\ u # t /\ Local(u) /\ Local(t) /\ RowsTyped /\ Apart BY Zenon DEF RowInv, Others
<1>1. /\ op'[u] = op[u] /\ pc'[u] = pc[u] /\ writes'[u] = writes[u]
      /\ found'[u] = found[u] /\ got'[u] = got[u] /\ pend'[u] = pend[u]
      /\ \A l \in Scopes : lock[l] = u => lock'[l] = u
      /\ next' = next
  BY CommitEffect, Zenon DEF Alone
<1>2. /\ DOMAIN rows' = DOMAIN rows \cup DOMAIN writes[t]
      /\ \A i \in DOMAIN writes[t] : rows'[i] = writes[t][i]
      /\ \A i \in DOMAIN rows \ DOMAIN writes[t] : rows'[i] = rows[i]
      /\ \A i \in DOMAIN rows : rows'[i].tab = rows[i].tab /\ rows'[i].scope = rows[i].scope
  BY CommitEffect, Zenon
<1>3. DOMAIN writes[t] \cap DOMAIN writes[u] = {} /\ (pc[u] # "idle" => op[u].new \notin DOMAIN writes[t])
  BY <1>0, Zenon DEF Apart
<1>4. TxTyped(u)' BY <1>0, <1>1, <1>2, <1>3, Zenon DEF Local, TxTyped
<1>5. OwnRows(u)'
  <2>1. OwnRows(u) BY <1>0, Zenon DEF Local
  <2>2. ASSUME NEW i \in DOMAIN writes[u]
        PROVE  /\ i \in DOMAIN rows' => rows'[i].tab = writes[u][i].tab /\ rows'[i].scope = writes[u][i].scope
               /\ i \notin DOMAIN rows' => i = op[u].new
    <3>1. /\ i \in DOMAIN rows => rows[i].tab = writes[u][i].tab /\ rows[i].scope = writes[u][i].scope
          /\ i \notin DOMAIN rows => i = op[u].new
      BY <2>1, Zenon DEF OwnRows
    <3> QED BY <1>2, <1>3, <3>1, Zenon
  <2> QED BY <1>1, <2>1, <2>2, Zenon DEF OwnRows
<1>6. Targets(u)'
  <2>1. Targets(u) BY <1>0, Zenon DEF Local
  <2> QED BY ONLY <1>1, <1>2, <2>1, Zenon DEF Targets
<1>7. Stage(u)'
  <2>1. Change(u)' = Change(u) BY <1>1, Zenon DEF Change
  <2> QED BY <1>0, <1>1, <2>1, Zenon DEF Local, Stage
<1>8. Counted(u)'
  <2> SUFFICES ASSUME op[u].kind = "switch" PROVE Counted(u)'
    BY <1>1, Zenon DEF Counted
  <2>1. CASE pc[u] \notin {"upsert", "tenant", "tail", "append", "commit"}
    BY <1>0, <1>1, <2>1, Zenon DEF Local, Counted
  <2>2. CASE pc[u] \in {"upsert", "tenant", "tail", "append", "commit"}
    <3>1. op[u].scope \in Scopes /\ lock[op[u].scope] = u BY <1>0, <2>2, Zenon DEF Local, Counted
    <3>2. \A i \in DOMAIN writes[t] : ~(writes[t][i].tab = "switch" /\ writes[t][i].scope = op[u].scope)
      <4> SUFFICES ASSUME NEW i \in DOMAIN writes[t], writes[t][i].tab = "switch", writes[t][i].scope = op[u].scope
                   PROVE  FALSE
        BY Zenon
      <4>1. op[t].kind = "switch" /\ op[t].scope = op[u].scope
        BY <1>0, Zenon DEF Local, OwnRows, TableOf
      <4>2. pc[t] = "commit" BY Zenon DEF Commit
      <4>3. lock[op[t].scope] = t BY <1>0, <4>1, <4>2, Zenon DEF Local, Counted
      <4> QED BY <1>0, <3>1, <4>1, <4>3, Zenon
    <3>3. \A i \in DOMAIN rows' : rows'[i].tab = "switch" /\ rows'[i].scope = op[u].scope =>
              i \in DOMAIN rows /\ rows'[i] = rows[i]
      BY <1>2, <3>2, Zenon
    <3>4. \A i \in DOMAIN rows' : rows'[i].tab = "switch" /\ rows'[i].scope = op[u].scope => got[u] = rows'[i].ver + 1
      BY <1>0, <2>2, <3>3, Zenon DEF Local, Counted
    <3>5. (\A i \in DOMAIN rows' : ~(rows'[i].tab = "switch" /\ rows'[i].scope = op[u].scope)) => got[u] = 1
      BY <1>0, <1>2, <2>2, Zenon DEF Local, Counted
    <3>6. \A i \in DOMAIN writes[u] : writes[u][i].ver = got[u] BY <1>0, Zenon DEF Local, Counted
    <3> QED BY <1>1, <3>1, <3>4, <3>5, <3>6, Zenon DEF Counted
  <2> QED BY <2>1, <2>2, Zenon
<1>9. Moved(u)' BY <1>0, <1>1, Zenon DEF Local, Moved
<1> QED BY <1>4, <1>5, <1>6, <1>7, <1>8, <1>9, Zenon DEF Local

\* The event of a commit is newer than all others, and tells of the one row that
\* its scope has.
LEMMA CommitTells ==
  ASSUME RowInv, NEW t \in Txs, Commit(t)
  PROVE  TrailTellsState'
<1>0. Local(t) /\ RowsTyped /\ Unclashing /\ TrailTellsState /\ IInv BY Zenon DEF RowInv
<1>1. /\ DOMAIN rows' = DOMAIN rows \cup DOMAIN writes[t]
      /\ \A i \in DOMAIN writes[t] : rows'[i] = writes[t][i]
      /\ \A i \in DOMAIN rows \ DOMAIN writes[t] : rows'[i] = rows[i]
  BY CommitEffect, Zenon
<1>2. pc[t] = "commit" /\ audit' = (IF pend[t] = None THEN audit ELSE audit \cup {pend[t]}) BY Zenon DEF Commit
<1>3. pend[t] # None => \A e \in audit : e.seq <= pend[t].seq
  <2> SUFFICES ASSUME pend[t] # None, NEW e \in audit PROVE e.seq <= pend[t].seq
    BY Zenon
  <2>1. AtEnd(t) /\ pend[t].seq = tail[t].seq + 1 BY <1>0, Zenon DEF IInv, Exclusive
  <2>2. PICK d \in audit : (\A c \in audit : c.seq <= d.seq) /\ tail[t] = [seq |-> d.seq, id |-> d.id]
    BY <2>1, Zenon DEF AtEnd
  <2>3. tail[t].seq = d.seq BY <2>2
  <2>4. e.seq \in Nat /\ d.seq \in Nat BY <1>0, Zenon DEF RowsTyped, EventTyped, Events
  <2> QED BY <2>1, <2>2, <2>3, <2>4
<1> SUFFICES ASSUME NEW i \in DOMAIN rows', rows'[i].tab \in {"switch", "canary"}
             PROVE  LET about == {e \in audit' : e.what[1] = rows'[i].tab /\ e.what[2] = rows'[i].scope}
                    IN  \E e \in about : (\A d \in about : d.seq <= e.seq) /\ e.what[3] = rows'[i].ver
  BY Zenon DEF TrailTellsState
<1> DEFINE about == {e \in audit' : e.what[1] = rows'[i].tab /\ e.what[2] = rows'[i].scope}
<1>4. CASE i \in DOMAIN writes[t]
  <2>1. rows'[i] = writes[t][i] BY <1>1, <1>4, Zenon
  <2>2. op[t].kind \in {"switch", "canary", "move"} /\ rows'[i].tab = TableOf(op[t].kind) /\ rows'[i].scope = op[t].scope
    <3>1. /\ rows'[i].tab = TableOf(op[t].kind) /\ op[t].kind \notin {"none", "audit"}
          /\ op[t].kind # "rotate" => rows'[i].scope = op[t].scope
      BY <1>0, <1>4, <2>1, Zenon DEF Local, OwnRows
    <3>2. op[t].kind \in Kinds BY <1>0, Zenon DEF Local, TxTyped, OpSet
    <3>3. op[t].kind \in {"switch", "canary", "move"} BY <3>1, <3>2, Zenon DEF Kinds, TableOf
    <3> QED BY <3>1, <3>3, Zenon
  <2>3. pend[t] # None /\ pend[t].what = Change(t) BY <1>0, <1>2, <2>2, Zenon DEF Local, Stage, Audited
  <2>4. Change(t) = <<rows'[i].tab, rows'[i].scope, rows'[i].ver>>
    <3>1. CASE op[t].kind = "switch"
      <4>1. rows'[i].ver = got[t] BY <1>0, <1>4, <2>1, <3>1, Zenon DEF Local, Counted
      <4> QED BY <2>2, <3>1, <4>1, Zenon DEF Change, TableOf
    <3>2. CASE op[t].kind \in {"canary", "move"}
      <4>1. rows'[i].ver = op[t].new BY <1>0, <1>4, <2>1, <3>2, Zenon DEF Local, Moved
      <4> QED BY <2>2, <3>2, <4>1, Zenon DEF Change, TableOf
    <3> QED BY <2>2, <3>1, <3>2, Zenon
  <2>5. pend[t].what[1] = rows'[i].tab /\ pend[t].what[2] = rows'[i].scope /\ pend[t].what[3] = rows'[i].ver
    BY <2>3, <2>4
  <2>6. pend[t].seq \in Nat BY <1>0, <2>3, Zenon DEF Local, TxTyped, EventTyped, Events
  <2>7. pend[t] \in about /\ \A d \in about : d.seq <= pend[t].seq BY <1>2, <1>3, <2>3, <2>5, <2>6
  <2> QED BY <2>5, <2>7, Zenon
<1>5. CASE i \notin DOMAIN writes[t]
  <2>1. i \in DOMAIN rows /\ rows'[i] = rows[i] BY <1>1, <1>5, Zenon
  <2>2. pend[t] # None => ~(pend[t].what[1] = rows[i].tab /\ pend[t].what[2] = rows[i].scope)
    <3> SUFFICES ASSUME pend[t] # None, pend[t].what[1] = rows[i].tab, pend[t].what[2] = rows[i].scope PROVE FALSE
      BY Zenon
    <3>1. pend[t].what = Change(t) BY <1>0, Zenon DEF Local, Stage
    <3>2. op[t].kind \in {"switch", "canary", "move"} /\ rows[i].tab = TableOf(op[t].kind) /\ rows[i].scope = op[t].scope
      <4>1. CASE op[t].kind = "switch" BY <3>1, <4>1 DEF Change, TableOf
      <4>2. CASE op[t].kind \in {"canary", "move"} BY <3>1, <4>2 DEF Change, TableOf
      <4>3. CASE op[t].kind \notin {"switch", "canary", "move"}
        <5>1. pend[t].what[1] = "record" BY <3>1, <4>3 DEF Change
        <5> QED BY <2>1, <5>1, Zenon
      <4> QED BY <4>1, <4>2, <4>3, Zenon
    <3>3. PICK j \in DOMAIN writes[t] : TRUE BY <1>0, <1>2, <3>2, Zenon DEF Local, Stage
    <3>4. writes[t][j].tab = rows[i].tab /\ writes[t][j].scope = rows[i].scope BY <1>0, <3>2, Zenon DEF Local, OwnRows
    <3>5. Clash(writes[t][j], rows[i]) BY <2>1, <3>4, Zenon DEF Clash
    <3>6. Visible(t)[j] = writes[t][j] /\ Visible(t)[i] = rows[i] /\ j \in DOMAIN Visible(t) /\ i \in DOMAIN Visible(t)
      BY <1>5, <2>1, Seen, Zenon
    <3> QED BY <1>0, <1>5, <3>5, <3>6, Zenon DEF Unclashing
  <2>3. about = {e \in audit : e.what[1] = rows[i].tab /\ e.what[2] = rows[i].scope} BY <1>2, <2>1, <2>2, Zenon
  <2> QED BY <1>0, <2>1, <2>3, Zenon DEF TrailTellsState
<1> QED BY <1>4, <1>5, Zenon

\* A commit keeps everything.
LEMMA CommitKeeps ==
  ASSUME RowInv, NEW t \in Txs, Commit(t), IInv'
  PROVE  RowInv'
<1>0. RowShapes /\ Local(t) /\ RowsTyped /\ Unclashing /\ Apart /\ SigningKept BY Zenon DEF RowInv
<1>1. /\ DOMAIN rows' = DOMAIN rows \cup DOMAIN writes[t]
      /\ \A i \in DOMAIN writes[t] : rows'[i] = writes[t][i]
      /\ \A i \in DOMAIN rows \ DOMAIN writes[t] : rows'[i] = rows[i]
      /\ \A i \in DOMAIN rows : rows'[i].tab = rows[i].tab /\ rows'[i].scope = rows[i].scope
  BY CommitEffect, Zenon
<1>2. /\ Alone(t) /\ RowShapes' /\ next' = next
      /\ op'[t] = Idle /\ pc'[t] = "idle" /\ writes'[t] = NoRows /\ found'[t] = {} /\ got'[t] = 0 /\ pend'[t] = None
  BY CommitEffect, Zenon
<1>3. DOMAIN NoRows = {} BY Zenon DEF NoRows
<1>4. RowsTyped'
  <2>1. \A i \in DOMAIN rows' : i \in Nat /\ 0 < i /\ i < next /\ rows'[i] \in RowSet
    BY <1>0, <1>1, Zenon DEF RowsTyped, Local, TxTyped
  <2>2. \A e \in audit' : EventTyped(e, next)
    BY <1>0, Zenon DEF Commit, RowsTyped, Local, TxTyped
  <2> QED BY <1>0, <1>2, <2>1, <2>2, Zenon DEF RowsTyped, RowSet
<1>5. Local(t)'
  <2>1. Idle \in OpSet BY Zenon DEF Idle, OpSet, Kinds
  <2>2. TxTyped(t)' BY <1>0, <1>2, <1>3, <2>1 DEF TxTyped, Idle, RowsTyped
  <2>3. OwnRows(t)' /\ Moved(t)' BY <1>2, <1>3, Zenon DEF OwnRows, Moved
  <2>4. Targets(t)' BY <1>2, <1>3 DEF Targets, Idle
  <2>5. Stage(t)' BY <1>2, <1>3 DEF Stage, Idle
  <2>6. Counted(t)' BY <1>2, <1>3 DEF Counted, Idle
  <2> QED BY <2>2, <2>3, <2>4, <2>5, <2>6, Zenon DEF Local
<1>6. \A u \in Txs : Local(u)' BY <1>5, CommitOthers, Zenon DEF Others
<1>7. Apart'
  <2> SUFFICES ASSUME NEW u \in Txs, NEW v \in Txs, u # v
               PROVE  /\ DOMAIN writes'[u] \cap DOMAIN writes'[v] = {}
                      /\ pc'[u] # "idle" => op'[u].new # op'[v].new /\ op'[u].new \notin DOMAIN writes'[v]
    BY Zenon DEF Apart
  <2>1. CASE u = t BY <1>2, <1>3, <2>1, Zenon
  <2>2. CASE v = t
    <3>1. op'[u] = op[u] /\ pc'[u] = pc[u] /\ op'[v].new = 0 BY <1>2, <2>2 DEF Alone, Others, Idle
    <3>2. pc[u] # "idle" => 0 < op[u].new BY Zenon DEF RowInv, Local, TxTyped
    <3> QED BY <1>2, <1>3, <2>2, <3>1, <3>2
  <2>3. CASE u # t /\ v # t
    BY <1>0, <1>2, <2>3 DEF Alone, Others, Apart
  <2> QED BY <2>1, <2>2, <2>3, Zenon
<1>8. \A i, j \in DOMAIN rows' : i # j => ~Clash(rows'[i], rows'[j])
  BY <1>0, Zenon DEF Commit, Unclashing
<1>9. ASSUME NEW u \in Txs, NEW i \in DOMAIN Visible(u)', NEW j \in DOMAIN Visible(u)', i # j, Clash(Visible(u)'[i], Visible(u)'[j])
      PROVE  FALSE
  <2>1. CASE u = t
    <3>1. DOMAIN Visible(u)' = DOMAIN rows' /\ \A k \in DOMAIN rows' : Visible(u)'[k] = rows'[k]
      BY <1>2, <1>3, <2>1, Zenon DEF Visible, Over
    <3> QED BY <1>8, <1>9, <3>1
  <2>2. CASE u # t
    <3>1. writes'[u] = writes[u] /\ DOMAIN writes[u] \cap DOMAIN writes[t] = {} BY <1>0, <1>2, <2>2, Zenon DEF Alone, Others, Apart
    <3>2. DOMAIN Visible(u)' = DOMAIN rows' \cup DOMAIN writes[u] BY <3>1, Zenon DEF Visible, Over
    <3>3. \A k \in DOMAIN writes[u] : Visible(u)'[k] = writes[u][k] BY <3>1, Zenon DEF Visible, Over
    <3>4. \A k \in DOMAIN rows' \ DOMAIN writes[u] : Visible(u)'[k] = rows'[k] BY <3>1, Zenon DEF Visible, Over
    <3>5. ASSUME NEW k \in DOMAIN writes[u], NEW l \in DOMAIN rows' \ DOMAIN writes[u] PROVE ~Clash(writes[u][k], rows'[l])
      <4>1. CASE l \in DOMAIN writes[t]
        <5>1. rows'[l] = writes[t][l] BY <1>1, <4>1, Zenon
        <5> QED BY <1>0, <2>2, <4>1, <5>1, Zenon DEF Unclashing
      <4>2. CASE l \notin DOMAIN writes[t]
        <5>1. rows'[l] = rows[l] /\ l \in DOMAIN rows BY <1>1, <4>2, Zenon
        <5>2. Visible(u)[k] = writes[u][k] /\ Visible(u)[l] = rows[l] /\ k \in DOMAIN Visible(u) /\ l \in DOMAIN Visible(u)
          BY <5>1, Seen, Zenon
        <5> QED BY <1>0, <5>1, <5>2, Zenon DEF Unclashing
      <4> QED BY <4>1, <4>2, Zenon
    <3>6. CASE i \in DOMAIN writes[u] /\ j \in DOMAIN writes[u]
      <4>1. Visible(u)[i] = writes[u][i] /\ Visible(u)[j] = writes[u][j] /\ i \in DOMAIN Visible(u) /\ j \in DOMAIN Visible(u)
        BY <3>6, Seen, Zenon
      <4>2. ~Clash(writes[u][i], writes[u][j]) BY <1>0, <1>9, <4>1, Zenon DEF Unclashing
      <4> QED BY <1>9, <3>3, <3>6, <4>2, Zenon
    <3>7. CASE i \in DOMAIN writes[u] /\ j \notin DOMAIN writes[u] BY <1>9, <3>2, <3>3, <3>4, <3>5, <3>7, Zenon
    <3>8. CASE i \notin DOMAIN writes[u] /\ j \in DOMAIN writes[u]
      <4>1. Clash(Visible(u)'[j], Visible(u)'[i]) BY <1>9, ClashSymmetric, Zenon
      <4> QED BY <3>2, <3>3, <3>4, <3>5, <3>8, <4>1, Zenon
    <3>9. CASE i \notin DOMAIN writes[u] /\ j \notin DOMAIN writes[u] BY <1>8, <1>9, <3>2, <3>4, <3>9, Zenon
    <3> QED BY <3>6, <3>7, <3>8, <3>9, Zenon
  <2> QED BY <2>1, <2>2, Zenon
<1>10. ASSUME NEW u \in Txs, NEW v \in Txs, u # v, NEW i \in DOMAIN writes'[u], NEW j \in DOMAIN writes'[v]
       PROVE  ~Clash(writes'[u][i], writes'[v][j])
  <2>1. u # t /\ v # t BY <1>2, <1>3, <1>10, Zenon
  <2> QED BY <1>0, <1>2, <1>10, <2>1 DEF Alone, Others, Unclashing
<1>11. Unclashing' BY <1>8, <1>9, <1>10, Zenon DEF Unclashing
<1>12. SigningKept'
  <2>1. CASE op[t].kind = "signing"
    <3>1. op[t].new \in DOMAIN writes[t] /\ writes[t][op[t].new].active BY <1>0, <2>1, Zenon DEF Local, Stage, Commit
    <3>2. writes[t][op[t].new].tab = "signing" BY <1>0, <2>1, <3>1, Zenon DEF Local, OwnRows, TableOf
    <3>3. rows'[op[t].new] = writes[t][op[t].new] /\ op[t].new \in DOMAIN rows' BY <1>1, <3>1, Zenon
    <3> QED BY <3>1, <3>2, <3>3, Zenon DEF SigningKept
  <2>2. CASE op[t].kind # "signing"
    <3>1. \A i \in DOMAIN writes[t] : writes[t][i].tab # "signing" BY <1>0, <2>2, Zenon DEF Local, OwnRows, TableOf
    <3>2. \A i \in DOMAIN rows' : rows'[i].tab = "signing" => i \in DOMAIN rows /\ rows'[i] = rows[i] BY <1>1, <3>1, Zenon
    <3>3. \A i \in DOMAIN rows : rows[i].tab = "signing" => i \in DOMAIN rows' /\ rows'[i] = rows[i]
      BY <1>1, <3>1, Zenon
    <3> QED BY <1>0, <3>2, <3>3, Zenon DEF SigningKept
  <2> QED BY <2>1, <2>2, Zenon
<1>13. TrailTellsState' BY CommitTells, Zenon
<1> QED BY <1>2, <1>4, <1>6, <1>7, <1>11, <1>12, <1>13, Zenon DEF RowInv

-----------------------------------------------------------------------------
(* Every step.                                                             *)

\* What a transaction knows of its own call.
LEMMA OwnCall ==
  ASSUME RowInv, NEW t \in Txs, pc[t] # "idle"
  PROVE  /\ op[t].new \notin DOMAIN rows /\ op[t].new \in Nat /\ got[t] \in Nat /\ op[t].id \in Nat
         /\ op[t].scope \in Scopes \cup {None}
BY Zenon DEF RowInv, Local, TxTyped, OpSet

\* What it sees of a committed row has the row's table and scope.
LEMMA SeenRow ==
  ASSUME RowInv, NEW t \in Txs, NEW i \in DOMAIN rows
  PROVE  Visible(t)[i] \in RowSet /\ Visible(t)[i].tab = rows[i].tab /\ Visible(t)[i].scope = rows[i].scope
<1>1. CASE i \in DOMAIN writes[t]
  <2>1. Visible(t)[i] = writes[t][i] BY <1>1, Seen, Zenon
  <2> QED BY <1>1, <2>1 DEF RowInv, Local, TxTyped, OwnRows
<1>2. CASE i \notin DOMAIN writes[t]
  <2>1. Visible(t)[i] = rows[i] BY <1>2, Seen, Zenon
  <2> QED BY <2>1, Zenon DEF RowInv, RowsTyped
<1> QED BY <1>1, <1>2, Zenon

\* The row of an upsert is the scope's, or new.
LEMMA KeyedRow ==
  ASSUME NEW t \in Txs, NEW tab
  PROVE  \/ Keyed(t, tab) = op[t].new
         \/ Keyed(t, tab) \in DOMAIN rows /\ rows[Keyed(t, tab)].tab = tab /\ rows[Keyed(t, tab)].scope = op[t].scope
BY Zenon DEF Keyed

\* An active row of a query is a committed one while nothing is written.
LEMMA ActiveRow ==
  ASSUME RowInv, NEW t \in Txs, pc[t] \notin Late, NEW tab, NEW scope, NEW i \in Active(t, tab, scope)
  PROVE  i \in DOMAIN rows /\ rows[i].tab = tab /\ rows[i].scope = scope
<1>1. writes[t] = NoRows BY Zenon DEF RowInv, Local, Stage
<1> QED BY <1>1, SeesRows, Zenon DEF Active

\* A call begins.
LEMMA CallKeeps ==
  ASSUME RowInv, NEW t \in Txs, Call(t), IInv'
  PROVE  RowInv'
<1>0. \A i \in DOMAIN rows : i \in Nat /\ rows[i].scope \in Scopes \cup {None} BY Zenon DEF RowInv, RowsTyped, RowSet
<1>1. CASE CreatePolicy(t)
  <2>1. PICK s \in Scopes : Begin(t, "create", s, 0, "max") BY <1>1, Zenon DEF CreatePolicy
  <2> QED BY <2>1, BeginKeeps DEF Kinds
<1>2. CASE ActivatePolicy(t)
  <2>1. PICK i \in DOMAIN rows : rows[i].tab = "policy" /\ Begin(t, "activate", rows[i].scope, i, "match")
    BY <1>2, Zenon DEF ActivatePolicy
  <2> QED BY <1>0, <2>1, BeginKeeps DEF Kinds
<1>3. CASE CreateSigningKey(t) BY <1>3, BeginKeeps DEF CreateSigningKey, Kinds
<1>4. CASE RevokeAPIKey(t)
  <2>1. PICK i \in DOMAIN rows : rows[i].tab = "apikey" /\ Begin(t, "revoke", None, i, "match") BY <1>4, Zenon DEF RevokeAPIKey
  <2> QED BY <1>0, <2>1, BeginKeeps DEF Kinds
<1>5. CASE RotateAPIKey(t)
  <2>1. PICK i \in DOMAIN rows : rows[i].tab = "apikey" /\ Begin(t, "rotate", None, i, "select") BY <1>5, Zenon DEF RotateAPIKey
  <2> QED BY <1>0, <2>1, BeginKeeps DEF Kinds
<1>6. CASE IssueKillSwitch(t)
  <2>1. PICK s \in Scopes : Begin(t, "switch", s, 0, "scope") BY <1>6, Zenon DEF IssueKillSwitch
  <2> QED BY <2>1, BeginKeeps DEF Kinds
<1>7. CASE SetCanary(t)
  <2>1. PICK s \in Scopes : Begin(t, "canary", s, 0, "upsert") BY <1>7, Zenon DEF SetCanary
  <2> QED BY <2>1, BeginKeeps DEF Kinds
<1>8. CASE MoveCanary(t)
  <2>1. PICK s \in Scopes : Begin(t, "move", s, 0, "update") BY <1>8, Zenon DEF MoveCanary
  <2> QED BY <2>1, BeginKeeps DEF Kinds
<1>9. CASE AppendAudit(t) BY <1>9, BeginKeeps DEF AppendAudit, Kinds
<1> QED BY <1>1, <1>2, <1>3, <1>4, <1>5, <1>6, <1>7, <1>8, <1>9, Zenon DEF Call

\* The statements that insert or update one row by its id.
LEMMA RowStatements ==
  ASSUME RowInv, NEW t \in Txs, IInv',
         \/ CreatePolicyInsert(t) \/ ActivatePolicySet(t) \/ CreateSigningKeyInsert(t)
         \/ RotateAPIKeyRevoke(t) \/ RotateAPIKeyInsert(t)
  PROVE  RowInv'
<1>0. ASSUME NEW id, NEW row, NEW label, Write(t, id, row, label), Violates(t, id, row) PROVE RowInv'
  BY <1>0, FailsKeeps, Zenon DEF Write
<1>1. CASE CreatePolicyInsert(t)
  <2> DEFINE row == Row("policy", op[t].scope, got[t], FALSE, 0)
  <2>1. op[t].kind = "create" /\ pc[t] = "insert" /\ Write(t, op[t].new, row, "commit") BY <1>1, Zenon DEF CreatePolicyInsert, Is
  <2>2. row \in RowSet /\ row.tab = "policy" /\ row.scope = op[t].scope
    <3>1. op[t].new \in Nat /\ got[t] \in Nat /\ op[t].id \in Nat /\ op[t].scope \in Scopes \cup {None} BY <2>1, OwnCall, Zenon
    <3> QED BY <3>1, Zenon DEF Row, RowSet, Tables
  <2> HIDE DEF row
  <2>3. CASE Violates(t, op[t].new, row) BY <1>0, <2>1, <2>3, Zenon
  <2>4. CASE ~Violates(t, op[t].new, row)
    <3>1. op[t].new \notin DOMAIN rows BY <2>1, OwnCall, Zenon
    <3> QED BY <2>1, <2>2, <2>4, <3>1, WriteKeeps, Zenon DEF TableOf, Late, Audited
  <2> QED BY <2>3, <2>4, Zenon
<1>2. CASE ActivatePolicySet(t)
  <2> DEFINE row == [Visible(t)[op[t].id] EXCEPT !.active = TRUE]
  <2>1. op[t].kind = "activate" /\ pc[t] = "set" /\ Write(t, op[t].id, row, "commit") BY <1>2, Zenon DEF ActivatePolicySet, Is
  <2>2. op[t].id \in DOMAIN rows /\ rows[op[t].id].tab = "policy" /\ rows[op[t].id].scope = op[t].scope
    BY <2>1, Zenon DEF RowInv, Local, Targets
  <2>3. /\ Visible(t)[op[t].id] \in RowSet /\ Visible(t)[op[t].id].tab = "policy"
        /\ Visible(t)[op[t].id].scope = op[t].scope
    BY <2>2, SeenRow, Zenon
  <2>4. row \in RowSet /\ row.tab = "policy" /\ row.scope = op[t].scope /\ row.active BY <2>3, Zenon DEF RowSet
  <2> HIDE DEF row
  <2>5. CASE Violates(t, op[t].id, row) BY <1>0, <2>1, <2>5, Zenon
  <2>6. CASE ~Violates(t, op[t].id, row)
    BY <2>1, <2>2, <2>4, <2>6, WriteKeeps, Zenon DEF TableOf, Late, Audited
  <2> QED BY <2>5, <2>6, Zenon
<1>3. CASE CreateSigningKeyInsert(t)
  <2> DEFINE row == Row("signing", None, op[t].new, TRUE, 0)
  <2>1. op[t].kind = "signing" /\ pc[t] = "insert" /\ Write(t, op[t].new, row, "commit") BY <1>3, Zenon DEF CreateSigningKeyInsert, Is
  <2>2. row \in RowSet /\ row.tab = "signing" /\ row.scope = None /\ row.active
    <3>1. op[t].new \in Nat /\ got[t] \in Nat /\ op[t].id \in Nat /\ op[t].scope \in Scopes \cup {None} BY <2>1, OwnCall, Zenon
    <3> QED BY <3>1, Zenon DEF Row, RowSet, Tables
  <2>3. op[t].scope = None /\ op[t].new \notin DOMAIN rows BY <2>1, OwnCall, Zenon DEF RowInv, Local, Targets
  <2> HIDE DEF row
  <2>4. CASE Violates(t, op[t].new, row) BY <1>0, <2>1, <2>4, Zenon
  <2>5. CASE ~Violates(t, op[t].new, row)
    BY <2>1, <2>2, <2>3, <2>5, WriteKeeps, Zenon DEF TableOf, Late, Audited
  <2> QED BY <2>4, <2>5, Zenon
<1>4. CASE RotateAPIKeyRevoke(t)
  <2> DEFINE row == [Visible(t)[op[t].id] EXCEPT !.active = FALSE]
  <2>1. op[t].kind = "rotate" /\ pc[t] = "clear" /\ Write(t, op[t].id, row, "insert") BY <1>4, Zenon DEF RotateAPIKeyRevoke, Is
  <2>2. op[t].id \in DOMAIN rows /\ rows[op[t].id].tab = "apikey" BY <2>1, Zenon DEF RowInv, Local, Targets
  <2>3. /\ Visible(t)[op[t].id] \in RowSet /\ Visible(t)[op[t].id].tab = "apikey"
        /\ Visible(t)[op[t].id].scope = rows[op[t].id].scope
    BY <2>2, SeenRow, Zenon
  <2>4. row \in RowSet /\ row.tab = "apikey" /\ row.scope = rows[op[t].id].scope BY <2>3, Zenon DEF RowSet
  <2> HIDE DEF row
  <2>5. CASE Violates(t, op[t].id, row) BY <1>0, <2>1, <2>5, Zenon
  <2>6. CASE ~Violates(t, op[t].id, row)
    BY <2>1, <2>2, <2>4, <2>6, WriteKeeps, Zenon DEF TableOf, Late, Audited
  <2> QED BY <2>5, <2>6, Zenon
<1>5. CASE RotateAPIKeyInsert(t)
  <2> DEFINE row == Row("apikey", None, op[t].new, TRUE, op[t].id)
  <2>1. op[t].kind = "rotate" /\ pc[t] = "insert" /\ Write(t, op[t].new, row, "commit") BY <1>5, Zenon DEF RotateAPIKeyInsert, Is
  <2>2. row \in RowSet /\ row.tab = "apikey"
    <3>1. op[t].new \in Nat /\ got[t] \in Nat /\ op[t].id \in Nat /\ op[t].scope \in Scopes \cup {None} BY <2>1, OwnCall, Zenon
    <3> QED BY <3>1, Zenon DEF Row, RowSet, Tables
  <2>3. op[t].new \notin DOMAIN rows BY <2>1, OwnCall, Zenon
  <2> HIDE DEF row
  <2>4. CASE Violates(t, op[t].new, row) BY <1>0, <2>1, <2>4, Zenon
  <2>5. CASE ~Violates(t, op[t].new, row)
    BY <2>1, <2>2, <2>3, <2>5, WriteKeeps, Zenon DEF TableOf, Late, Audited
  <2> QED BY <2>4, <2>5, Zenon
<1> QED BY <1>1, <1>2, <1>3, <1>4, <1>5, Zenon

\* The statements that insert or update the row of a scope.
LEMMA ScopeStatements ==
  ASSUME RowInv, NEW t \in Txs, IInv', IssueKillSwitchUpsert(t) \/ SetCanaryUpsert(t) \/ MoveCanaryUpdate(t)
  PROVE  RowInv'
<1>0. ASSUME NEW id, NEW row, NEW label, Write(t, id, row, label), Violates(t, id, row) PROVE RowInv'
  BY <1>0, FailsKeeps, Zenon DEF Write
<1>1. CASE IssueKillSwitchUpsert(t)
  <2> DEFINE row == Row("switch", op[t].scope, got[t], TRUE, op[t].new)
             id == Keyed(t, "switch")
  <2>1. op[t].kind = "switch" /\ pc[t] = "upsert" /\ Write(t, id, row, "tenant") BY <1>1, Zenon DEF IssueKillSwitchUpsert, Is
  <2>2. row \in RowSet /\ row.tab = "switch" /\ row.scope = op[t].scope /\ row.ver = got[t]
    <3>1. op[t].new \in Nat /\ got[t] \in Nat /\ op[t].scope \in Scopes \cup {None} BY <2>1, OwnCall, Zenon
    <3> QED BY <3>1, Zenon DEF Row, RowSet, Tables
  <2>3. op[t].new \notin DOMAIN rows BY <2>1, OwnCall, Zenon
  <2>4. id = op[t].new \/ (id \in DOMAIN rows /\ rows[id].tab = "switch" /\ rows[id].scope = op[t].scope) BY KeyedRow, Zenon
  <2> HIDE DEF row, id
  <2>5. CASE Violates(t, id, row) BY <1>0, <2>1, <2>5, Zenon
  <2>6. CASE ~Violates(t, id, row)
    BY <2>1, <2>2, <2>3, <2>4, <2>6, WriteKeeps, Zenon DEF TableOf, Late, Audited
  <2> QED BY <2>5, <2>6, Zenon
<1>2. CASE SetCanaryUpsert(t) \/ MoveCanaryUpdate(t)
  <2> DEFINE row(a) == Row("canary", op[t].scope, op[t].new, a, 0)
             id == Keyed(t, "canary")
  <2>1. op[t].kind \in {"canary", "move"} /\ pc[t] \in {"upsert", "update"} BY <1>2, Zenon DEF SetCanaryUpsert, MoveCanaryUpdate, Is
  <2>2. Fails(t, "not_found") \/ \E a \in BOOLEAN : Write(t, id, row(a), "tenant")
    BY <1>2, Zenon DEF SetCanaryUpsert, MoveCanaryUpdate, Is
  <2>3. CASE Fails(t, "not_found") BY <2>3, FailsKeeps, Zenon
  <2>4. ASSUME NEW a \in BOOLEAN, Write(t, id, row(a), "tenant") PROVE RowInv'
    <3>1. row(a) \in RowSet /\ row(a).tab = "canary" /\ row(a).scope = op[t].scope /\ row(a).ver = op[t].new
      <4>1. op[t].new \in Nat /\ op[t].scope \in Scopes \cup {None} BY <2>1, OwnCall, Zenon
      <4> QED BY <4>1, Zenon DEF Row, RowSet, Tables
    <3>2. op[t].new \notin DOMAIN rows BY <2>1, OwnCall, Zenon
    <3>3. id = op[t].new \/ (id \in DOMAIN rows /\ rows[id].tab = "canary" /\ rows[id].scope = op[t].scope) BY KeyedRow, Zenon
    <3> HIDE DEF row, id
    <3>4. CASE Violates(t, id, row(a)) BY <1>0, <2>4, <3>4, Zenon
    <3>5. CASE ~Violates(t, id, row(a))
      <4>1. TableOf(op[t].kind) = "canary" BY <2>1, Zenon DEF TableOf
      <4> DEFINE r == row(a)
      <4>2. r \in RowSet /\ r.tab = "canary" /\ r.scope = op[t].scope /\ r.ver = op[t].new /\ ~Violates(t, id, r)
            /\ Write(t, id, r, "tenant")
        BY <2>4, <3>1, <3>5, Zenon
      <4> HIDE DEF r
      <4> QED BY <2>1, <3>2, <3>3, <4>1, <4>2, WriteKeeps, Zenon DEF Late, Audited
    <3> QED BY <3>4, <3>5, Zenon
  <2> QED BY <2>2, <2>3, <2>4, Zenon
<1> QED BY <1>1, <1>2, Zenon

\* The queries, and the updates of what they matched.
LEMMA QueryStatements ==
  ASSUME RowInv, NEW t \in Txs, IInv',
         \/ ActivatePolicyMatch(t) \/ CreateSigningKeyMatch(t) \/ RevokeAPIKeyMatch(t) \/ RotateAPIKeySelect(t)
         \/ ActivatePolicyClear(t) \/ CreateSigningKeyClear(t) \/ RevokeAPIKeyClear(t)
  PROVE  RowInv'
<1>0. op[t].kind \in {"signing", "rotate", "revoke"} => op[t].scope = None BY Zenon DEF RowInv, Local, Targets
<1>1. CASE ActivatePolicyMatch(t)
  <2>1. op[t].kind = "activate" /\ pc[t] = "match" /\ Matched(t, Active(t, "policy", op[t].scope), "clear")
    BY <1>1, Zenon DEF ActivatePolicyMatch, Is
  <2>2. \A i \in Active(t, "policy", op[t].scope) : i \in DOMAIN rows /\ rows[i].tab = "policy" /\ rows[i].scope = op[t].scope
    BY <2>1, ActiveRow DEF Late
  <2> QED BY <2>1, <2>2, MatchedKeeps, Zenon DEF TableOf
<1>2. CASE CreateSigningKeyMatch(t)
  <2>1. op[t].kind = "signing" /\ pc[t] = "match" /\ Matched(t, Active(t, "signing", None), "clear")
    BY <1>2, Zenon DEF CreateSigningKeyMatch, Is
  <2>2. \A i \in Active(t, "signing", None) : i \in DOMAIN rows /\ rows[i].tab = "signing" /\ rows[i].scope = op[t].scope
    BY <1>0, <2>1, ActiveRow DEF Late
  <2> QED BY <2>1, <2>2, MatchedKeeps, Zenon DEF TableOf
<1>3. CASE RevokeAPIKeyMatch(t)
  <2> DEFINE S == {op[t].id} \cap Active(t, "apikey", None)
  <2>1. op[t].kind = "revoke" /\ pc[t] = "match" /\ Matched(t, S, "clear") BY <1>3, Zenon DEF RevokeAPIKeyMatch, Is
  <2>2. \A i \in S : i \in DOMAIN rows /\ rows[i].tab = "apikey" /\ rows[i].scope = op[t].scope
    BY <1>0, <2>1, ActiveRow DEF Late
  <2> HIDE DEF S
  <2> QED BY <2>1, <2>2, MatchedKeeps, Zenon DEF TableOf
<1>4. CASE RotateAPIKeySelect(t)
  <2>1. op[t].kind = "rotate" /\ pc[t] = "select" BY <1>4, Zenon DEF RotateAPIKeySelect, Is
  <2>2. CASE op[t].id \in Active(t, "apikey", None)
    <3> DEFINE S == {op[t].id}
    <3>1. Matched(t, S, "clear") BY <1>4, <2>2, Zenon DEF RotateAPIKeySelect
    <3>2. \A i \in S : i \in DOMAIN rows /\ rows[i].tab = "apikey" /\ rows[i].scope = op[t].scope
      BY <1>0, <2>1, <2>2, ActiveRow DEF Late
    <3> HIDE DEF S
    <3> QED BY <2>1, <3>1, <3>2, MatchedKeeps, Zenon DEF TableOf
  <2>3. CASE op[t].id \notin Active(t, "apikey", None) BY <1>4, <2>3, FailsKeeps, Zenon DEF RotateAPIKeySelect
  <2> QED BY <2>2, <2>3, Zenon
<1>5. ASSUME NEW label \in {"set", "insert", "commit"}, NEW orElse, Deactivate(t, label, orElse),
             pc[t] = "clear", op[t].kind \in {"activate", "signing", "revoke"}, label = "commit" => op[t].kind = "revoke"
      PROVE  RowInv'
  <2>1. CASE Fails(t, orElse) BY <2>1, FailsKeeps, Zenon
  <2>2. CASE ~Fails(t, orElse) BY <1>5, <2>2, DeactivateKeeps, Zenon
  <2> QED BY <2>1, <2>2, Zenon
<1>6. CASE ActivatePolicyClear(t) BY <1>5, <1>6, Zenon DEF ActivatePolicyClear, Is
<1>7. CASE CreateSigningKeyClear(t) BY <1>5, <1>7, Zenon DEF CreateSigningKeyClear, Is
<1>8. CASE RevokeAPIKeyClear(t) BY <1>5, <1>8, Zenon DEF RevokeAPIKeyClear, Is
<1> QED BY <1>1, <1>2, <1>3, <1>4, <1>6, <1>7, <1>8, Zenon

\* The locks and the audit event.
LEMMA AuditStatements ==
  ASSUME RowInv, NEW t \in Txs, IInv',
         IssueKillSwitchLock(t) \/ appendAuditLock(t) \/ appendAuditTail(t) \/ appendAuditInsert(t)
  PROVE  RowInv'
<1>1. CASE IssueKillSwitchLock(t)
  <2>1. op[t].kind = "switch" /\ pc[t] = "scope" /\ TakeLock(t, op[t].scope, "max") BY <1>1, Zenon DEF IssueKillSwitchLock, Is
  <2>2. op[t].scope \in Scopes BY <2>1, Zenon DEF RowInv, Local, Counted
  <2> QED BY <2>1, <2>2, LockKeeps, Zenon
<1>2. CASE appendAuditLock(t) BY <1>2, LockKeeps, Zenon DEF appendAuditLock
<1> DEFINE ev == [seq |-> tail[t].seq + 1, id |-> op[t].new, prev |-> tail[t].id, what |-> Change(t)]
<1>3. CASE appendAuditTail(t)
  <2>1. /\ UNCHANGED <<rows, audit, next, op, writes, found, got, lock>> /\ pend' = pend
        /\ pc[t] = "tail" /\ pc' = [pc EXCEPT ![t] = "append"]
    BY <1>3, Zenon DEF appendAuditTail, Goto
  <2>2. ev = [seq |-> tail[t].seq + 1, id |-> op[t].new, prev |-> tail[t].id, what |-> Change(t)] BY Zenon
  <2> HIDE DEF ev
  <2> QED BY <2>1, <2>2, AuditKeeps, Zenon
<1>4. CASE appendAuditInsert(t)
  <2>1. pc[t] = "append" BY <1>4, Zenon DEF appendAuditInsert
  <2>2. CASE Fails(t, "audit conflict") BY <2>2, FailsKeeps, Zenon
  <2>3. CASE ~Fails(t, "audit conflict")
    <3>1. pend' = [pend EXCEPT ![t] = ev] /\ pc' = [pc EXCEPT ![t] = "commit"]
          /\ UNCHANGED <<rows, audit, next, op, writes, found, got, lock>>
      BY <1>4, <2>3, Zenon DEF appendAuditInsert, Goto
    <3>2. ev = [seq |-> tail[t].seq + 1, id |-> op[t].new, prev |-> tail[t].id, what |-> Change(t)] BY Zenon
    <3>3. RowInv /\ t \in Txs /\ IInv' BY Zenon
    <3> HIDE DEF ev
    <3> QED BY ONLY <2>1, <3>1, <3>2, <3>3, AuditKeeps, Zenon
  <2> QED BY <2>2, <2>3, Zenon
<1> QED BY <1>1, <1>2, <1>3, <1>4, Zenon

\* Every statement keeps the invariant.
LEMMA StatementKeeps ==
  ASSUME RowInv, NEW t \in Txs, Statement(t), IInv'
  PROVE  RowInv'
<1>1. CASE CreatePolicyMax(t) \/ IssueKillSwitchMax(t) BY <1>1, MaxKeeps, Zenon
<1>2. CASE \/ CreatePolicyInsert(t) \/ ActivatePolicySet(t) \/ CreateSigningKeyInsert(t)
           \/ RotateAPIKeyRevoke(t) \/ RotateAPIKeyInsert(t)
  BY <1>2, RowStatements, Zenon
<1>3. CASE IssueKillSwitchUpsert(t) \/ SetCanaryUpsert(t) \/ MoveCanaryUpdate(t) BY <1>3, ScopeStatements, Zenon
<1>4. CASE \/ ActivatePolicyMatch(t) \/ CreateSigningKeyMatch(t) \/ RevokeAPIKeyMatch(t) \/ RotateAPIKeySelect(t)
           \/ ActivatePolicyClear(t) \/ CreateSigningKeyClear(t) \/ RevokeAPIKeyClear(t)
  BY <1>4, QueryStatements, Zenon
<1>5. CASE IssueKillSwitchLock(t) \/ appendAuditLock(t) \/ appendAuditTail(t) \/ appendAuditInsert(t)
  BY <1>5, AuditStatements, Zenon
<1>6. CASE Commit(t) BY <1>6, CommitKeeps, Zenon
<1> QED BY <1>1, <1>2, <1>3, <1>4, <1>5, <1>6, Zenon DEF Statement

\* Initially a policy is in force, an API key exists and nobody runs anything.
LEMMA RowInit == Init => RowInv
<1> SUFFICES ASSUME Init PROVE RowInv
  BY Zenon
<1>1. IInv BY InitInv, Zenon
<1>2. RowShapes BY Zenon DEF Init, RowShapes
<1>3. /\ DOMAIN rows = {1, 2} /\ rows[1] = Row("policy", CHOOSE s \in Scopes : TRUE, 1, TRUE, 0)
      /\ rows[2] = Row("apikey", None, 2, TRUE, 0) /\ audit = {} /\ next = 3
  BY DEF Init
<1>4. (CHOOSE s \in Scopes : TRUE) \in Scopes BY ScopesAssumption, Zenon
<1>5. rows[1] \in RowSet /\ rows[2] \in RowSet /\ rows[1].tab = "policy" /\ rows[2].tab = "apikey"
  BY <1>3, <1>4 DEF Row, RowSet, Tables
<1>6. RowsTyped
  <2>1. \A i \in DOMAIN rows : i = 1 \/ i = 2 BY <1>3, Zenon
  <2>2. \A i \in DOMAIN rows : i \in Nat /\ 0 < i /\ i < 3 /\ rows[i] \in RowSet BY <1>5, <2>1
  <2> QED BY <1>3, <2>2 DEF RowsTyped
<1>7. DOMAIN NoRows = {} BY Zenon DEF NoRows
<1>8. ASSUME NEW t \in Txs
      PROVE  op[t] = Idle /\ pc[t] = "idle" /\ writes[t] = NoRows /\ found[t] = {} /\ got[t] = 0 /\ pend[t] = None
  BY <1>8, Zenon DEF Init
<1>9. ASSUME NEW t \in Txs PROVE Local(t)
  <2>1. Idle \in OpSet BY Zenon DEF Idle, OpSet, Kinds
  <2>2. TxTyped(t) BY <1>3, <1>7, <1>8, <2>1 DEF TxTyped, Idle
  <2>3. OwnRows(t) /\ Moved(t) BY <1>7, <1>8, Zenon DEF OwnRows, Moved
  <2>4. Targets(t) /\ Stage(t) /\ Counted(t) BY <1>7, <1>8 DEF Targets, Stage, Counted, Idle
  <2> QED BY <2>2, <2>3, <2>4, Zenon DEF Local
<1>10. Apart BY <1>7, <1>8, Zenon DEF Apart
<1>11. \A i, j \in DOMAIN rows : i # j => ~Clash(rows[i], rows[j])
  <2>1. ~Clash(rows[1], rows[2]) /\ ~Clash(rows[2], rows[1]) BY <1>5, Zenon DEF Clash
  <2> QED BY <1>3, <2>1, Zenon
<1>12. Unclashing BY <1>7, <1>8, <1>11, SeesRows, Zenon DEF Unclashing
<1>13. SigningKept /\ TrailTellsState BY <1>3, <1>5, Zenon DEF SigningKept, TrailTellsState
<1> QED BY <1>1, <1>2, <1>6, <1>9, <1>10, <1>12, <1>13, Zenon DEF RowInv

\* Nothing happens.
LEMMA RowStutter ==
  ASSUME RowInv, UNCHANGED vars
  PROVE  RowInv'
<1> USE DEF vars, txVars
<1>1. IInv'
  BY Zenon DEF RowInv, IInv, Shapes, Numbered, ChainUnbroken, Exclusive, AtEnd, AppendsNeverCollide
<1>2. RowShapes' /\ Apart' BY Zenon DEF RowInv, RowShapes, Apart
<1>3. Unclashing' BY Zenon DEF RowInv, Unclashing, Visible
<1>4. ASSUME NEW t \in Txs PROVE Local(t)'
  <2>1. Local(t) BY Zenon DEF RowInv
  <2>2. TxTyped(t)' BY <2>1, Zenon DEF Local, TxTyped
  <2>3. OwnRows(t)' /\ Moved(t)' BY <2>1, Zenon DEF Local, OwnRows, Moved
  <2>4. Targets(t)' BY <2>1, Zenon DEF Local, Targets
  <2>5. Stage(t)' BY <2>1, Zenon DEF Local, Stage, Change
  <2>6. Counted(t)' BY <2>1, Zenon DEF Local, Counted
  <2> QED BY <2>2, <2>3, <2>4, <2>5, <2>6, Zenon DEF Local
<1>5. next' \in Nat /\ next' >= next BY DEF RowInv, RowsTyped
<1> QED BY <1>1, <1>2, <1>3, <1>4, <1>5, RowsStay, Zenon DEF RowInv

\* Every step keeps the rows and the transactions as described.
LEMMA RowNext == RowInv /\ [Next]_vars => RowInv'
<1> SUFFICES ASSUME RowInv, [Next]_vars PROVE RowInv'
  BY Zenon
<1>0. IInv BY Zenon DEF RowInv
<1>1. CASE UNCHANGED vars BY <1>1, RowStutter, Zenon
<1>2. ASSUME NEW t \in Txs, Call(t) PROVE RowInv' BY <1>0, <1>2, CallStep, CallKeeps, Zenon
<1>3. ASSUME NEW t \in Txs, Statement(t) PROVE RowInv' BY <1>0, <1>3, StatementStep, StatementKeeps, Zenon
<1>4. ASSUME NEW t \in Txs, Rollback(t) PROVE RowInv' BY <1>0, <1>4, FailedStep, FailsKeeps, Zenon DEF Rollback
<1> QED BY <1>1, <1>2, <1>3, <1>4, Zenon DEF Next

-----------------------------------------------------------------------------
(* What follows.                                                           *)

\* The inductive invariant: rows and transactions are as described above, between
\* any two statements of the registry's and the compliance store's transactions.
THEOREM RowInvariant == Spec => []RowInv
BY RowInit, RowNext, PTL DEF Spec

\* Committed rows are typed, an id is given out once, and an idle connection
\* holds nothing (runTx).
THEOREM RowsAreTyped == Spec => []TypeOK
<1>1. RowInv => TypeOK
  <2> SUFFICES ASSUME RowInv PROVE TypeOK
    BY Zenon
  <2>1. next \in Nat /\ next >= 3 BY Zenon DEF RowInv, RowsTyped
  <2>2. \A i \in DOMAIN rows : i \in 1..(next - 1) /\ rows[i] \in RowSet BY <2>1 DEF RowInv, RowsTyped
  <2>3. ASSUME NEW e \in audit PROVE e \in Events /\ e.id \in 1..(next - 1) /\ e.prev \in 0..(next - 1)
    <3>1. EventTyped(e, next) BY Zenon DEF RowInv, RowsTyped
    <3>2. e \in Events /\ e.id \in Nat /\ e.prev \in Nat BY <3>1, Zenon DEF EventTyped, Events
    <3> QED BY <2>1, <3>1, <3>2 DEF EventTyped
  <2>4. \A t \in Txs : pc[t] = "idle" => writes[t] = NoRows /\ pend[t] = None /\ op[t] = Idle
    BY Zenon DEF RowInv, Local, Stage, TxTyped, Late
  <2> QED BY <2>1, <2>2, <2>3, <2>4, Zenon DEF TypeOK, RowSet, Tables
<1> QED BY <1>1, RowInvariant, PTL

\* The newest audit event about a switch or a rollout tells what its row holds
\* (IssueKillSwitch, SetCanary, PromoteCanary, RollbackCanary).
THEOREM TrailAndState == Spec => []TrailTellsState
<1>1. RowInv => TrailTellsState BY Zenon DEF RowInv
<1> QED BY <1>1, RowInvariant, PTL

\* One policy of a scope is in force, and one signing key of a tenant that has any
\* (ActivatePolicy, CreateSigningKey).
THEOREM InForceSafety == Spec => []OneInForce
<1>1. RowInv => OneInForce
  <2> SUFFICES ASSUME RowInv PROVE OneInForce
    BY Zenon
  <2>0. \A i, j \in DOMAIN rows : i # j => ~Clash(rows[i], rows[j]) BY Zenon DEF RowInv, Unclashing
  <2>1. ASSUME NEW k \in DOMAIN rows, rows[k].tab = "policy", rows[k].active
        PROVE  {i \in DOMAIN rows : rows[i].tab = "policy" /\ rows[i].scope = rows[k].scope /\ rows[i].active} = {k}
    BY <2>0, <2>1, Zenon DEF Clash
  <2>2. ASSUME \E i \in DOMAIN rows : rows[i].tab = "signing"
        PROVE  \E k \in DOMAIN rows : {i \in DOMAIN rows : rows[i].tab = "signing" /\ rows[i].active} = {k}
    <3>1. PICK k \in DOMAIN rows : rows[k].tab = "signing" /\ rows[k].active BY <2>2, Zenon DEF RowInv, SigningKept
    <3>2. {i \in DOMAIN rows : rows[i].tab = "signing" /\ rows[i].active} = {k} BY <2>0, <3>1, Zenon DEF Clash
    <3> QED BY <3>2, Zenon
  <2> QED BY <2>1, <2>2, Zenon DEF OneInForce
<1> QED BY <1>1, RowInvariant, PTL

\* Only a commit changes the rows.
LEMMA OnlyCommits ==
  ASSUME RowInv, [Next]_vars
  PROVE  rows' = rows \/ \E t \in Txs : Commit(t)
<1>1. CASE UNCHANGED vars BY <1>1, Zenon DEF vars
<1>2. ASSUME NEW t \in Txs, Call(t) PROVE rows' = rows
  BY <1>2, Zenon DEF Call, CreatePolicy, ActivatePolicy, CreateSigningKey, RevokeAPIKey, RotateAPIKey, IssueKillSwitch,
              SetCanary, MoveCanary, AppendAudit, Begin
<1>3. ASSUME NEW t \in Txs, Statement(t), ~Commit(t) PROVE rows' = rows
  <2>1. ASSUME NEW o, Fails(t, o) PROVE rows' = rows BY <2>1, Zenon DEF Fails
  <2>2. ASSUME NEW id, NEW row, NEW label, Write(t, id, row, label) PROVE rows' = rows BY <2>1, <2>2, Zenon DEF Write
  <2>3. ASSUME NEW label, NEW o, Deactivate(t, label, o) PROVE rows' = rows BY <2>1, <2>3, Zenon DEF Deactivate
  <2>4. ASSUME NEW S, NEW label, Matched(t, S, label) PROVE rows' = rows BY <2>4, Zenon DEF Matched
  <2>5. ASSUME NEW l, NEW label, TakeLock(t, l, label) PROVE rows' = rows BY <2>5, Zenon DEF TakeLock
  <2>6. CASE CreatePolicyMax(t) \/ IssueKillSwitchMax(t) BY <2>6, Zenon DEF CreatePolicyMax, IssueKillSwitchMax, ReadNext
  <2>7. CASE \/ CreatePolicyInsert(t) \/ ActivatePolicySet(t) \/ CreateSigningKeyInsert(t) \/ RotateAPIKeyRevoke(t)
             \/ RotateAPIKeyInsert(t) \/ IssueKillSwitchUpsert(t) \/ SetCanaryUpsert(t)
    BY <2>2, <2>7, Zenon DEF CreatePolicyInsert, ActivatePolicySet, CreateSigningKeyInsert, RotateAPIKeyRevoke,
                      RotateAPIKeyInsert, IssueKillSwitchUpsert, SetCanaryUpsert
  <2>8. CASE MoveCanaryUpdate(t) BY <2>1, <2>2, <2>8, Zenon DEF MoveCanaryUpdate
  <2>9. CASE ActivatePolicyMatch(t) \/ CreateSigningKeyMatch(t) \/ RevokeAPIKeyMatch(t)
    BY <2>4, <2>9, Zenon DEF ActivatePolicyMatch, CreateSigningKeyMatch, RevokeAPIKeyMatch
  <2>10. CASE RotateAPIKeySelect(t) BY <2>1, <2>4, <2>10, Zenon DEF RotateAPIKeySelect
  <2>11. CASE ActivatePolicyClear(t) \/ CreateSigningKeyClear(t) \/ RevokeAPIKeyClear(t)
    BY <2>3, <2>11, Zenon DEF ActivatePolicyClear, CreateSigningKeyClear, RevokeAPIKeyClear
  <2>12. CASE IssueKillSwitchLock(t) \/ appendAuditLock(t) BY <2>5, <2>12, Zenon DEF IssueKillSwitchLock, appendAuditLock
  <2>13. CASE appendAuditTail(t) BY <2>13, Zenon DEF appendAuditTail
  <2>14. CASE appendAuditInsert(t) BY <2>1, <2>14, Zenon DEF appendAuditInsert
  <2> QED BY <1>3, <2>6, <2>7, <2>8, <2>9, <2>10, <2>11, <2>12, <2>13, <2>14, Zenon DEF Statement
<1>4. ASSUME NEW t \in Txs, Rollback(t) PROVE rows' = rows BY <1>4, Zenon DEF Rollback, Fails
<1> QED BY <1>1, <1>2, <1>3, <1>4, Zenon DEF Next

\* A committed switch carries the number after its scope's last one: the lock
\* of the scope is held from the reading to the commit (IssueKillSwitch).
THEOREM SwitchVersions == Spec => VersionsStep
<1> DEFINE Steps == \A i \in DOMAIN rows' : rows'[i].tab = "switch" =>
                      rows'[i].ver = IF i \in DOMAIN rows THEN rows[i].ver + (IF rows'[i] = rows[i] THEN 0 ELSE 1)
                                     ELSE 1
<1>1. RowInv /\ [Next]_vars => [Steps]_vars
  <2> SUFFICES ASSUME RowInv, [Next]_vars, NEW i \in DOMAIN rows', rows'[i].tab = "switch"
               PROVE  rows'[i].ver = IF i \in DOMAIN rows THEN rows[i].ver + (IF rows'[i] = rows[i] THEN 0 ELSE 1) ELSE 1
    BY Zenon
  <2>0. \A k \in DOMAIN rows : rows[k].ver \in Nat BY Zenon DEF RowInv, RowsTyped, RowSet
  <2>1. CASE rows' = rows BY <2>0, <2>1
  <2>2. ASSUME NEW t \in Txs, Commit(t)
        PROVE  rows'[i].ver = IF i \in DOMAIN rows THEN rows[i].ver + (IF rows'[i] = rows[i] THEN 0 ELSE 1) ELSE 1
    <3>0. Local(t) /\ Unclashing /\ pc[t] = "commit" BY <2>2, Zenon DEF RowInv, Commit
    <3>1. /\ DOMAIN rows' = DOMAIN rows \cup DOMAIN writes[t]
          /\ \A k \in DOMAIN writes[t] : rows'[k] = writes[t][k]
          /\ \A k \in DOMAIN rows \ DOMAIN writes[t] : rows'[k] = rows[k]
          /\ \A k \in DOMAIN rows : rows'[k].tab = rows[k].tab /\ rows'[k].scope = rows[k].scope
      BY <2>2, CommitEffect, Zenon
    <3>2. CASE i \notin DOMAIN writes[t]
      <4>1. i \in DOMAIN rows /\ rows'[i] = rows[i] BY <3>1, <3>2, Zenon
      <4> QED BY <2>0, <4>1
    <3>3. CASE i \in DOMAIN writes[t]
      <4>1. rows'[i] = writes[t][i] BY <3>1, <3>3, Zenon
      <4>2. op[t].kind = "switch" /\ rows'[i].scope = op[t].scope BY <3>0, <3>3, <4>1, Zenon DEF Local, OwnRows, TableOf
      <4>3. rows'[i].ver = got[t] BY <3>0, <3>3, <4>1, <4>2, Zenon DEF Local, Counted
      <4>4. CASE i \in DOMAIN rows
        <5>1. rows[i].tab = "switch" /\ rows[i].scope = op[t].scope BY <3>1, <4>2, <4>4, Zenon
        <5>2. got[t] = rows[i].ver + 1 BY <3>0, <4>2, <4>4, <5>1, Zenon DEF Local, Counted
        <5>3. rows'[i] # rows[i] BY <2>0, <4>3, <4>4, <5>2
        <5> QED BY <4>3, <4>4, <5>2, <5>3, Zenon
      <4>5. CASE i \notin DOMAIN rows
        <5>1. \A j \in DOMAIN rows : ~(rows[j].tab = "switch" /\ rows[j].scope = op[t].scope)
          <6> SUFFICES ASSUME NEW j \in DOMAIN rows, rows[j].tab = "switch", rows[j].scope = op[t].scope PROVE FALSE
            BY Zenon
          <6>1. Clash(rows'[i], rows'[j]) BY <3>1, <4>2, Zenon DEF Clash
          <6>2. rows' = Visible(t) BY <2>2, Zenon DEF Commit
          <6> QED BY <3>0, <3>1, <4>5, <6>1, <6>2, Zenon DEF Unclashing
        <5>2. got[t] = 1 BY <3>0, <4>2, <5>1, Zenon DEF Local, Counted
        <5> QED BY <4>3, <4>5, <5>2, Zenon
      <4> QED BY <4>4, <4>5, Zenon
    <3> QED BY <3>2, <3>3, Zenon
  <2> QED BY <2>1, <2>2, OnlyCommits, Zenon
<1> QED BY <1>1, RowInvariant, PTL DEF Spec, VersionsStep

\* A commit that takes a policy out of force puts another of its scope in force
\* (ActivatePolicy).
THEOREM PolicyStaysInForce == Spec => InForceKept
<1> DEFINE Kept == \A i \in DOMAIN rows : rows[i].tab = "policy" /\ rows[i].active =>
                     \E j \in DOMAIN rows' : rows'[j].tab = "policy" /\ rows'[j].scope = rows[i].scope /\ rows'[j].active
<1>1. RowInv /\ [Next]_vars => [Kept]_vars
  <2> SUFFICES ASSUME RowInv, [Next]_vars, NEW i \in DOMAIN rows, rows[i].tab = "policy", rows[i].active
               PROVE  \E j \in DOMAIN rows' : rows'[j].tab = "policy" /\ rows'[j].scope = rows[i].scope /\ rows'[j].active
    BY Zenon
  <2>1. CASE rows' = rows BY <2>1, Zenon
  <2>2. ASSUME NEW t \in Txs, Commit(t)
        PROVE  \E j \in DOMAIN rows' : rows'[j].tab = "policy" /\ rows'[j].scope = rows[i].scope /\ rows'[j].active
    <3>0. Local(t) /\ pc[t] = "commit" BY <2>2, Zenon DEF RowInv, Commit
    <3>1. /\ DOMAIN rows' = DOMAIN rows \cup DOMAIN writes[t]
          /\ \A k \in DOMAIN writes[t] : rows'[k] = writes[t][k]
          /\ \A k \in DOMAIN rows \ DOMAIN writes[t] : rows'[k] = rows[k]
      BY <2>2, CommitEffect, Zenon
    <3>2. CASE i \notin DOMAIN writes[t] BY <3>1, <3>2, Zenon
    <3>3. CASE i \in DOMAIN writes[t]
      <4>1. op[t].kind \in {"create", "activate"} /\ rows[i].scope = op[t].scope
        BY <3>0, <3>3, Zenon DEF Local, OwnRows, TableOf
      <4>2. op[t].kind # "create" BY <3>0, <3>3, Zenon DEF Local, Stage, TxTyped
      <4>3. op[t].id \in DOMAIN writes[t] /\ writes[t][op[t].id].active BY <3>0, <4>1, <4>2, Zenon DEF Local, Stage
      <4>4. writes[t][op[t].id].tab = "policy" /\ writes[t][op[t].id].scope = op[t].scope
        BY <3>0, <4>1, <4>2, <4>3, Zenon DEF Local, OwnRows, TableOf
      <4> QED BY <3>1, <4>1, <4>3, <4>4, Zenon
    <3> QED BY <3>2, <3>3, Zenon
  <2> QED BY <2>1, <2>2, OnlyCommits, Zenon
<1> QED BY <1>1, RowInvariant, PTL DEF Spec, InForceKept

\* What is in force is never doubled and never lost, and versions count what was
\* committed, whatever runs at the same time (CreatePolicy, ActivatePolicy, IssueKillSwitch).
THEOREM InForceHistoryHolds == Spec => InForceHistory
BY InForceSafety, SwitchVersions, PolicyStaysInForce, PTL DEF InForceHistory
=============================================================================
