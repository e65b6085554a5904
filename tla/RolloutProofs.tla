---------------------------- MODULE RolloutProofs ----------------------------
(***************************************************************************)
(* How a policy and a kill switch reach the devices, for every number of   *)
(* apps, policies, devices, administrators, sweeps and fetches: what the   *)
(* controller of staged rollouts rolls back and what a device is served    *)
(* (module CanaryRollout), and what the core of a device does with the     *)
(* switches it gets (module ConfigDelivery).                               *)
(***************************************************************************)
EXTENDS CanaryRollout, ConfigDelivery, TLAPS

Events == [app : Apps, action : {"set", "promote", "rollback"}, actor : {"admin", "system"},
           candidate : Policies, percent : 0 .. 100, observed : Policies \cup {None}, since : Nat]

\* Event n sets candidate c of app a at percentage pct, and it is the app's last.
Sets(n, a, c, pct) ==
    audit[n].app = a /\ audit[n].action = "set" /\ audit[n].candidate = c /\ audit[n].percent = pct
SetOnce(a, c, pct) == \E n \in DOMAIN audit : Sets(n, a, c, pct)
LastSet(a, c, pct) ==
    \E n \in DOMAIN audit : Sets(n, a, c, pct) /\ \A m \in DOMAIN audit : audit[m].app = a => m <= n
ChangedSince(a, k) == \E n \in DOMAIN audit : audit[n].app = a /\ n > k

\* Rows and trail: the last event of an active rollout set it as it stands.
RowsTell == \A a \in Apps :
    /\ state[a] = "active" => LastSet(a, candidate[a], percent[a])
    /\ state[a] # "none" => candidate[a] \in Policies

\* A call that promotes found a rollout.
CallsKnow == \A c \in Calls : call[c].at \in {"activate", "mark"} => state[call[c].app] # "none"

\* What a sweep listed was so, and still is unless the rollout changed since.
Listed == \A a \in Apps : listing[a] # None =>
    LET r == listing[a] IN
    /\ state[a] # "none" /\ SetOnce(a, r.candidate, r.percent)
    /\ ChangedSince(a, listedAt) \/ LastSet(a, r.candidate, r.percent)

\* The sweep assesses and rolls back what it listed.
Sweeps ==
    /\ sweepPc = "assessing" => \A a \in todo : listing[a] # None
    /\ firing # None => sweepPc = "assessing" /\ listing[firing] # None

\* What the hot paths see was set once.
SnapshotTells == \A a \in Apps : snapshot[a] # None => SetOnce(a, snapshot[a].candidate, snapshot[a].percent)

\* What is active or being fetched was activated.
Activated ==
    /\ \A s \in Scopes : active[s] # None => active[s] \in activated
    /\ \A i \in Instances : fetching[i] # None => fetching[i] \in activated

\* The parts of the type invariant, by who writes them.
TRows ==
    /\ state \in [Apps -> {"none", "active", "promoted", "rolled_back"}]
    /\ candidate \in [Apps -> Policies \cup {None}] /\ stable \in [Apps -> Policies \cup {None}]
    /\ percent \in [Apps -> 0 .. 100]
    /\ audit \in Seq(Events)
TActive ==
    /\ active \in [Scopes -> Policies \cup {None}] /\ activated \subseteq Policies
    /\ fetching \in [Instances -> Policies \cup {None}] /\ served \in [Instances -> SUBSET Policies]
TCalls == call \in [Calls -> CallStates]
TSweep ==
    /\ sweepPc \in {"idle", "listed", "assessing"} /\ todo \subseteq Apps /\ firing \in Apps \cup {None}
    /\ listing \in [Apps -> Rollouts \cup {None}] /\ snapshot \in [Apps -> Rollouts \cup {None}]
    /\ listedAt \in Nat /\ listedAt <= Len(audit)
THealth ==
    /\ total \in [Apps \X Policies -> 0 .. MaxSamples] /\ blocked \in [Apps \X Policies -> 0 .. MaxSamples]
    /\ \A s \in Apps \X Policies : blocked[s] <= total[s]
TRestarts == restarts \in 0 .. MaxRestarts

Typed == TRows /\ TActive /\ TCalls /\ TSweep /\ THealth /\ TRestarts

IInv ==
    /\ Typed /\ RowsTell /\ CallsKnow /\ Listed /\ Sweeps /\ SnapshotTells /\ Activated
    /\ AutoRollbackSound /\ ServedExplained

-----------------------------------------------------------------------------
(* The audit trail only grows.                                             *)

\* An event appended is the last; the others stay where they are.
LEMMA AuditGrows ==
  ASSUME audit \in Seq(Events), NEW e \in Events, audit' = Append(audit, e)
  PROVE  /\ audit' \in Seq(Events) /\ Len(audit) \in Nat /\ Len(audit') = Len(audit) + 1
         /\ DOMAIN audit = 1 .. Len(audit) /\ DOMAIN audit' = 1 .. (Len(audit) + 1)
         /\ \A n \in DOMAIN audit : audit'[n] = audit[n]
         /\ audit'[Len(audit) + 1] = e
OBVIOUS

\* What was set once stays so, and what an app changed last stays last while only
\* others change.
LEMMA TrailKeeps ==
  ASSUME audit \in Seq(Events), NEW e \in Events, audit' = Append(audit, e), NEW a, NEW c, NEW pct
  PROVE  /\ SetOnce(a, c, pct) => SetOnce(a, c, pct)'
         /\ LastSet(a, c, pct) /\ e.app # a => LastSet(a, c, pct)'
         /\ \A k : ChangedSince(a, k) => \E n \in DOMAIN audit' : audit'[n].app = a /\ n > k
<1>1. /\ Len(audit) \in Nat /\ DOMAIN audit = 1 .. Len(audit) /\ DOMAIN audit' = 1 .. (Len(audit) + 1)
      /\ \A n \in DOMAIN audit : audit'[n] = audit[n]
      /\ audit'[Len(audit) + 1] = e
  BY AuditGrows, Zenon
<1>2. DOMAIN audit \subseteq DOMAIN audit' BY <1>1
<1>3. SetOnce(a, c, pct) => SetOnce(a, c, pct)' BY <1>1, <1>2, Zenon DEF SetOnce, Sets
<1>4. ASSUME LastSet(a, c, pct), e.app # a PROVE LastSet(a, c, pct)'
  <2>1. PICK n \in DOMAIN audit : Sets(n, a, c, pct) /\ \A m \in DOMAIN audit : audit[m].app = a => m <= n
    BY <1>4, Zenon DEF LastSet
  <2>2. n \in DOMAIN audit' /\ Sets(n, a, c, pct)' BY <1>1, <1>2, <2>1, Zenon DEF Sets
  <2>3. ASSUME NEW m \in DOMAIN audit', audit'[m].app = a PROVE m <= n
    <3>1. m \in DOMAIN audit BY <1>1, <1>4, <2>3
    <3> QED BY <1>1, <2>1, <2>3, <3>1, Zenon
  <2> QED BY <2>2, <2>3, Zenon DEF LastSet
<1>5. \A k : ChangedSince(a, k) => \E n \in DOMAIN audit' : audit'[n].app = a /\ n > k
  BY <1>1, <1>2, Zenon DEF ChangedSince
<1> QED BY <1>3, <1>4, <1>5, Zenon

\* The event that was just written is the last one of its app.
LEMMA JustWritten ==
  ASSUME audit \in Seq(Events), NEW e \in Events, audit' = Append(audit, e)
  PROVE  /\ e.action = "set" => LastSet(e.app, e.candidate, e.percent)'
         /\ \A k \in Nat : k <= Len(audit) => ChangedSince(e.app, k)'
<1>1. /\ Len(audit) \in Nat /\ DOMAIN audit' = 1 .. (Len(audit) + 1)
      /\ audit'[Len(audit) + 1] = e
  BY AuditGrows, Zenon
<1>2. PICK k \in Nat : k = Len(audit) + 1 BY <1>1
<1>3. k \in DOMAIN audit' /\ audit'[k] = e /\ (\A m \in DOMAIN audit' : m <= k) /\ \A j \in Nat : j <= Len(audit) => k > j
  BY <1>1, <1>2
<1>4. e.action = "set" => Sets(k, e.app, e.candidate, e.percent)' BY <1>3, Zenon DEF Sets
<1>5. e.action = "set" => LastSet(e.app, e.candidate, e.percent)' BY <1>3, <1>4, Zenon DEF LastSet
<1>6. \A j \in Nat : j <= Len(audit) => ChangedSince(e.app, j)' BY <1>3, Zenon DEF ChangedSince
<1> QED BY <1>5, <1>6, Zenon

\* A rollback that was sound stays so, and the new one is if the sweep's view of
\* the rollout was right or the rollout changed.
LEMMA RollbacksKeep ==
  ASSUME audit \in Seq(Events), NEW e \in Events, audit' = Append(audit, e), AutoRollbackSound,
         e.actor = "system" => ChangedSince(e.app, e.since) \/ \E pct : LastSet(e.app, e.observed, pct)
  PROVE  AutoRollbackSound'
<1>1. /\ Len(audit) \in Nat /\ DOMAIN audit = 1 .. Len(audit) /\ DOMAIN audit' = 1 .. (Len(audit) + 1)
      /\ \A n \in DOMAIN audit : audit'[n] = audit[n]
      /\ audit'[Len(audit) + 1] = e
  BY AuditGrows, Zenon
<1> SUFFICES ASSUME NEW k \in DOMAIN audit', audit'[k].actor = "system"
             PROVE  \/ \E n \in ChangedBefore(k)' : n > audit'[k].since
                    \/ \E n \in ChangedBefore(k)' : IsSetOf(n, k)' /\ \A m \in ChangedBefore(k)' : m <= n
  BY Zenon DEF AutoRollbackSound, AutoRollbacks
<1>2. CASE k \in DOMAIN audit
  <2>1. ChangedBefore(k)' = ChangedBefore(k) /\ audit'[k] = audit[k] BY <1>1, <1>2 DEF ChangedBefore
  <2>2. \A n \in ChangedBefore(k) : IsSetOf(n, k)' = IsSetOf(n, k) BY <1>1, <1>2 DEF ChangedBefore, IsSetOf
  <2>3. \/ \E n \in ChangedBefore(k) : n > audit[k].since
        \/ \E n \in ChangedBefore(k) : IsSetOf(n, k) /\ \A m \in ChangedBefore(k) : m <= n
    BY <1>2, <2>1, Zenon DEF AutoRollbackSound, AutoRollbacks
  <2> QED BY <2>1, <2>2, <2>3, Zenon
<1>3. CASE k \notin DOMAIN audit
  <2>1. k = Len(audit) + 1 /\ audit'[k] = e BY <1>1, <1>3
  <2>2. \A n : n \in ChangedBefore(k)' <=> n \in DOMAIN audit /\ audit[n].app = e.app
    BY <1>1, <2>1 DEF ChangedBefore
  <2>3. \A n \in DOMAIN audit : IsSetOf(n, k)' = (audit[n].action = "set" /\ audit[n].candidate = e.observed)
    BY <1>1, <2>1, Zenon DEF IsSetOf
  <2>4. CASE ChangedSince(e.app, e.since) BY <2>1, <2>2, <2>4, Zenon DEF ChangedSince
  <2>5. ASSUME NEW pct, LastSet(e.app, e.observed, pct)
        PROVE  \E n \in ChangedBefore(k)' : IsSetOf(n, k)' /\ \A m \in ChangedBefore(k)' : m <= n
    <3>1. PICK n \in DOMAIN audit : Sets(n, e.app, e.observed, pct) /\ \A m \in DOMAIN audit : audit[m].app = e.app => m <= n
      BY <2>5, Zenon DEF LastSet
    <3>2. n \in ChangedBefore(k)' /\ IsSetOf(n, k)' BY <2>2, <2>3, <3>1, Zenon DEF Sets
    <3> QED BY <2>2, <3>1, <3>2, Zenon
  <2> QED BY <2>1, <2>4, <2>5, Zenon
<1> QED BY <1>2, <1>3, Zenon

\* What explains a policy served goes on explaining it.
LEMMA ServedKeeps ==
  ASSUME audit \in Seq(Events), NEW e \in Events, audit' = Append(audit, e), UNCHANGED <<served, activated>>, ServedExplained
  PROVE  ServedExplained'
<1>1. \A n \in DOMAIN audit : n \in DOMAIN audit' /\ audit'[n] = audit[n]
  BY AuditGrows
<1> QED BY <1>1 DEF ServedExplained

-----------------------------------------------------------------------------
(* Steps that write a rollout row.                                         *)

\* A write to the rollout of one app that appends its event keeps what rows,
\* listing, snapshot and history say.
LEMMA RowWrite ==
  ASSUME CanaryConstantsOK, IInv, TRows', NEW a \in Apps, NEW e \in Events,
         audit' = Append(audit, e), e.app = a,
         \A b \in Apps \ {a} : state'[b] = state[b] /\ candidate'[b] = candidate[b] /\ percent'[b] = percent[b],
         state'[a] # "none", candidate'[a] \in Policies,
         state'[a] = "active" => e.action = "set" /\ e.candidate = candidate'[a] /\ e.percent = percent'[a],
         e.actor = "system" => ChangedSince(a, e.since) \/ \E pct : LastSet(a, e.observed, pct),
         UNCHANGED <<active, activated, listing, listedAt, snapshot, deviceVars>>
  PROVE  /\ RowsTell' /\ Listed' /\ SnapshotTells' /\ Activated' /\ AutoRollbackSound' /\ ServedExplained'
         /\ listedAt' <= Len(audit')
         /\ \A b \in Apps : state[b] # "none" => state'[b] # "none"
<1> USE DEF deviceVars
<1>1. audit \in Seq(Events) /\ listedAt \in Nat /\ listedAt <= Len(audit) BY Zenon DEF IInv, Typed, TRows, TSweep
<1>2. \A b, c, pct : /\ SetOnce(b, c, pct) => SetOnce(b, c, pct)'
                     /\ LastSet(b, c, pct) /\ b # a => LastSet(b, c, pct)'
  BY <1>1, TrailKeeps, Zenon
<1>3. /\ e.action = "set" => LastSet(a, e.candidate, e.percent)'
      /\ \A k \in Nat : k <= Len(audit) => ChangedSince(a, k)'
  BY <1>1, JustWritten, Zenon
<1>4. \A b \in Apps : state[b] # "none" => state'[b] # "none" BY Zenon
<1>5. RowsTell'
  <2> SUFFICES ASSUME NEW b \in Apps
               PROVE  /\ state'[b] = "active" => LastSet(b, candidate[b], percent[b])'
                      /\ state'[b] # "none" => candidate'[b] \in Policies
    BY Zenon DEF RowsTell
  <2>1. CASE b = a
    <3>1. ASSUME state'[b] = "active" PROVE LastSet(b, candidate[b], percent[b])'
      <4>1. PICK c, pct : c = candidate'[b] /\ pct = percent'[b] BY Zenon
      <4>2. LastSet(b, c, pct)' BY <1>3, <2>1, <3>1, <4>1, Zenon
      <4> QED BY <4>1, <4>2, Zenon DEF LastSet, Sets
    <3> QED BY <2>1, <3>1, Zenon
  <2>2. CASE b # a
    <3>1. PICK c, pct : c = candidate[b] /\ pct = percent[b] BY Zenon
    <3>2. c = candidate'[b] /\ pct = percent'[b] /\ state'[b] = state[b] BY <2>2, <3>1, Zenon
    <3>3. /\ state[b] = "active" => LastSet(b, c, pct)
          /\ state[b] # "none" => c \in Policies
      BY <3>1, Zenon DEF IInv, RowsTell
    <3>4. LastSet(b, c, pct) => LastSet(b, c, pct)' BY <1>2, <2>2, Zenon
    <3> QED BY <3>2, <3>3, <3>4, Zenon DEF LastSet, Sets
  <2> QED BY <2>1, <2>2, Zenon
<1>6. Listed'
  <2> SUFFICES ASSUME NEW b \in Apps, listing[b] # None
               PROVE  /\ state'[b] # "none" /\ SetOnce(b, listing[b].candidate, listing[b].percent)'
                      /\ ChangedSince(b, listedAt)' \/ LastSet(b, listing[b].candidate, listing[b].percent)'
    BY Zenon DEF Listed
  <2>1. PICK c, pct, k : c = listing[b].candidate /\ pct = listing[b].percent /\ k = listedAt BY Zenon
  <2>2. state[b] # "none" /\ SetOnce(b, c, pct) /\ (ChangedSince(b, k) \/ LastSet(b, c, pct))
    BY <2>1, Zenon DEF IInv, Listed
  <2>3. SetOnce(b, c, pct)' BY <1>2, <2>2, Zenon
  <2>4. ChangedSince(b, k)' \/ LastSet(b, c, pct)'
    <3>1. CASE b = a BY <1>1, <1>3, <2>1, <3>1, Zenon
    <3>2. CASE b # a
      <4>1. LastSet(b, c, pct) => LastSet(b, c, pct)' BY <1>2, <3>2, Zenon
      <4>2. ChangedSince(b, k) => ChangedSince(b, k)' BY <1>1, TrailKeeps, Zenon DEF ChangedSince
      <4> QED BY <2>2, <4>1, <4>2, Zenon
    <3> QED BY <3>1, <3>2, Zenon
  <2> QED BY <1>4, <2>1, <2>2, <2>3, <2>4, Zenon DEF SetOnce, LastSet, Sets, ChangedSince
<1>7. SnapshotTells'
  <2> SUFFICES ASSUME NEW b \in Apps, snapshot[b] # None
               PROVE  SetOnce(b, snapshot[b].candidate, snapshot[b].percent)'
    BY Zenon DEF SnapshotTells
  <2>1. PICK c, pct : c = snapshot[b].candidate /\ pct = snapshot[b].percent BY Zenon
  <2>2. SetOnce(b, c, pct) BY <2>1, Zenon DEF IInv, SnapshotTells
  <2>3. SetOnce(b, c, pct)' BY <1>2, <2>2, Zenon
  <2> QED BY <2>1, <2>3, Zenon DEF SetOnce, Sets
<1>8. Activated' BY Zenon DEF IInv, Activated
<1>9. AutoRollbackSound' BY <1>1, RollbacksKeep, Zenon DEF IInv
<1>10. ServedExplained' BY <1>1, ServedKeeps, Zenon DEF IInv
<1>11. listedAt' <= Len(audit') BY <1>1, AuditGrows
<1> QED BY <1>4, <1>5, <1>6, <1>7, <1>8, <1>9, <1>10, <1>11, Zenon

\* Steps that leave rows and trail alone leave what they tell alone.
LEMMA QuietRows ==
  ASSUME IInv, UNCHANGED rowVars
  PROVE  /\ TRows' /\ RowsTell' /\ AutoRollbackSound'
         /\ \A a, c, pct : SetOnce(a, c, pct)' = SetOnce(a, c, pct) /\ LastSet(a, c, pct)' = LastSet(a, c, pct)
         /\ \A a, k : ChangedSince(a, k)' = ChangedSince(a, k)
<1> USE DEF rowVars
<1>1. TRows' BY Zenon DEF IInv, Typed, TRows
<1>2. RowsTell' BY Zenon DEF IInv, RowsTell, LastSet, Sets
<1>3. AutoRollbackSound' BY Zenon DEF IInv, AutoRollbackSound, AutoRollbacks, ChangedBefore, IsSetOf
<1>4. \A a, c, pct : SetOnce(a, c, pct)' = SetOnce(a, c, pct) /\ LastSet(a, c, pct)' = LastSet(a, c, pct)
  BY DEF SetOnce, LastSet, Sets
<1>5. \A a, k : ChangedSince(a, k)' = ChangedSince(a, k) BY Zenon DEF ChangedSince
<1> QED BY <1>1, <1>2, <1>3, <1>4, <1>5, Zenon

\* The parts of the state a step leaves alone stay sound.
LEMMA QuietParts ==
  ASSUME IInv
  PROVE  /\ UNCHANGED <<active, activated, deviceVars>> => TActive' /\ Activated'
         /\ UNCHANGED <<call, rowVars>> => TCalls' /\ CallsKnow'
         /\ UNCHANGED <<sweepVars, snapshot, rowVars>> => TSweep' /\ Listed' /\ Sweeps' /\ SnapshotTells'
         /\ UNCHANGED healthVars => THealth'
         /\ UNCHANGED restarts => TRestarts'
         /\ UNCHANGED <<served, rowVars>> /\ activated \subseteq activated' => ServedExplained'
<1>1. UNCHANGED <<active, activated, deviceVars>> => TActive' /\ Activated'
  BY Zenon DEF IInv, Typed, TActive, Activated, deviceVars
<1>2. UNCHANGED <<call, rowVars>> => TCalls' /\ CallsKnow'
  BY Zenon DEF IInv, Typed, TCalls, CallsKnow, rowVars
<1>3. UNCHANGED <<sweepVars, snapshot, rowVars>> => TSweep' /\ Listed' /\ Sweeps' /\ SnapshotTells'
  BY DEF IInv, Typed, TSweep, Listed, Sweeps, SnapshotTells, SetOnce, LastSet, Sets, ChangedSince, rowVars, sweepVars
<1>4. UNCHANGED healthVars => THealth' BY Zenon DEF IInv, Typed, THealth, healthVars
<1>5. UNCHANGED restarts => TRestarts' BY Zenon DEF IInv, Typed, TRestarts
<1>6. UNCHANGED <<served, rowVars>> /\ activated \subseteq activated' => ServedExplained'
  BY DEF IInv, ServedExplained, rowVars
<1> QED BY <1>1, <1>2, <1>3, <1>4, <1>5, <1>6, Zenon

\* The active policy of an app is one, or none, that was activated.
LEMMA ActiveTyped ==
  ASSUME IInv, NEW a \in Apps
  PROVE  /\ GetActivePolicy(a) \in Policies \cup {None}
         /\ GetActivePolicy(a) # None => GetActivePolicy(a) \in activated
BY Zenon DEF IInv, Typed, TActive, Activated, GetActivePolicy, Scopes

\* An event an administrator's write appends is an event; so is the controller's.
LEMMA EventTyped ==
  ASSUME IInv, NEW a \in Apps, NEW action \in {"set", "promote", "rollback"}, NEW actor \in {"admin", "system"},
         NEW cnd \in Policies, percent'[a] \in 0 .. 100, actor = "system" => listing[a] # None
  PROVE  /\ Event(a, action, actor, cnd) \in Events
         /\ Event(a, action, actor, cnd).app = a /\ Event(a, action, actor, cnd).action = action
         /\ Event(a, action, actor, cnd).actor = actor /\ Event(a, action, actor, cnd).candidate = cnd
         /\ Event(a, action, actor, cnd).percent = percent'[a] /\ Event(a, action, actor, cnd).since = listedAt
         /\ actor = "system" => Event(a, action, actor, cnd).observed = listing[a].candidate
<1>2. listing[a] # None => listing[a] \in Rollouts BY Zenon DEF IInv, Typed, TSweep
<1>3. listing[a] # None => listing[a].candidate \in Policies BY <1>2, Zenon DEF Rollouts
<1>4. listedAt \in Nat BY Zenon DEF IInv, Typed, TSweep
<1>5. PICK o : o = IF actor = "system" THEN listing[a].candidate ELSE None BY Zenon
<1>6. o \in Policies \cup {None} BY <1>3, <1>5, Zenon
<1>7. Event(a, action, actor, cnd) =
        [app |-> a, action |-> action, actor |-> actor, candidate |-> cnd, percent |-> percent'[a],
         observed |-> o, since |-> listedAt]
  BY <1>5, Zenon DEF Event
<1>8. Event(a, action, actor, cnd) \in Events BY <1>4, <1>6, <1>7 DEF Events
<1>9. /\ Event(a, action, actor, cnd).app = a /\ Event(a, action, actor, cnd).action = action
      /\ Event(a, action, actor, cnd).actor = actor /\ Event(a, action, actor, cnd).candidate = cnd
      /\ Event(a, action, actor, cnd).percent = percent'[a] /\ Event(a, action, actor, cnd).since = listedAt
      /\ Event(a, action, actor, cnd).observed = o
  BY <1>7
<1> QED BY <1>5, <1>8, <1>9, Zenon

\* StoreSetCanary.
LEMMA StoreSet ==
  ASSUME CanaryConstantsOK, IInv, NEW a \in Apps, NEW cnd \in Policies, NEW stab \in Policies \cup {None}, NEW pct \in 0 .. 100,
         StoreSetCanary(a, cnd, stab, pct),
         UNCHANGED <<active, activated, listing, listedAt, snapshot, deviceVars>>
  PROVE  /\ TRows' /\ RowsTell' /\ Listed' /\ SnapshotTells' /\ Activated' /\ AutoRollbackSound' /\ ServedExplained'
         /\ listedAt' <= Len(audit') /\ \A b \in Apps : state[b] # "none" => state'[b] # "none"
<1> DEFINE ev == Event(a, "set", "admin", cnd)
<1>1. TRows BY Zenon DEF IInv, Typed
<1>2. /\ state' \in [Apps -> {"none", "active", "promoted", "rolled_back"}]
      /\ candidate' \in [Apps -> Policies \cup {None}] /\ stable' \in [Apps -> Policies \cup {None}]
      /\ percent' \in [Apps -> 0 .. 100]
  BY <1>1, Zenon DEF TRows, StoreSetCanary
<1>3. state'[a] = "active" /\ candidate'[a] = cnd /\ percent'[a] = pct BY <1>1, Zenon DEF TRows, StoreSetCanary
<1>4. \A b \in Apps \ {a} : state'[b] = state[b] /\ candidate'[b] = candidate[b] /\ percent'[b] = percent[b]
  BY <1>1, Zenon DEF TRows, StoreSetCanary
<1>5. /\ ev \in Events /\ ev.app = a /\ ev.action = "set" /\ ev.actor = "admin" /\ ev.candidate = cnd
      /\ ev.percent = percent'[a]
  BY <1>3, EventTyped
<1>6. audit' = Append(audit, ev) BY Zenon DEF StoreSetCanary
<1> HIDE DEF ev
<1>7. PICK e \in Events : e = ev BY <1>5, Zenon
<1>8. TRows' BY <1>1, <1>2, <1>5, <1>6, AuditGrows, Zenon DEF TRows
<1> QED BY <1>3, <1>4, <1>5, <1>6, <1>7, <1>8, RowWrite, Zenon

\* StorePromoteCanary, of an app that has a row.
LEMMA StorePromote ==
  ASSUME CanaryConstantsOK, IInv, NEW a \in Apps, state[a] # "none", StorePromoteCanary(a),
         UNCHANGED <<active, activated, listing, listedAt, snapshot, deviceVars>>
  PROVE  /\ TRows' /\ RowsTell' /\ Listed' /\ SnapshotTells' /\ Activated' /\ AutoRollbackSound' /\ ServedExplained'
         /\ listedAt' <= Len(audit') /\ \A b \in Apps : state[b] # "none" => state'[b] # "none"
<1>1. TRows /\ candidate[a] \in Policies BY Zenon DEF IInv, Typed, RowsTell
<1>2. PICK cnd \in Policies : cnd = candidate[a] BY <1>1, Zenon
<1> DEFINE ev == Event(a, "promote", "admin", cnd)
<1>3. /\ state' \in [Apps -> {"none", "active", "promoted", "rolled_back"}]
      /\ candidate' \in [Apps -> Policies \cup {None}] /\ stable' \in [Apps -> Policies \cup {None}]
      /\ percent' \in [Apps -> 0 .. 100]
  BY <1>1 DEF TRows, StorePromoteCanary
<1>4. state'[a] = "promoted" /\ candidate'[a] = cnd /\ percent'[a] \in 0 .. 100
  BY <1>1, <1>2, <1>3, Zenon DEF TRows, StorePromoteCanary
<1>5. \A b \in Apps \ {a} : state'[b] = state[b] /\ candidate'[b] = candidate[b] /\ percent'[b] = percent[b]
  BY <1>1, Zenon DEF TRows, StorePromoteCanary
<1>6. ev \in Events /\ ev.app = a /\ ev.actor = "admin" BY <1>4, EventTyped
<1>7. audit' = Append(audit, ev) BY <1>2, Zenon DEF StorePromoteCanary
<1> HIDE DEF ev
<1>8. PICK e \in Events : e = ev BY <1>6, Zenon
<1>9. TRows' BY <1>1, <1>3, <1>6, <1>7, AuditGrows, Zenon DEF TRows
<1> QED BY <1>4, <1>5, <1>6, <1>7, <1>8, <1>9, RowWrite, Zenon

\* StoreRollbackCanary, of an app that has a row; by the controller, of one it listed.
LEMMA StoreRollback ==
  ASSUME CanaryConstantsOK, IInv, NEW a \in Apps, NEW actor \in {"admin", "system"}, state[a] # "none",
         actor = "system" => listing[a] # None, StoreRollbackCanary(a, actor),
         UNCHANGED <<active, activated, listing, listedAt, snapshot, deviceVars>>
  PROVE  /\ TRows' /\ RowsTell' /\ Listed' /\ SnapshotTells' /\ Activated' /\ AutoRollbackSound' /\ ServedExplained'
         /\ listedAt' <= Len(audit') /\ \A b \in Apps : state[b] # "none" => state'[b] # "none"
<1>1. TRows /\ candidate[a] \in Policies BY Zenon DEF IInv, Typed, RowsTell
<1>2. PICK cnd \in Policies : cnd = candidate[a] BY <1>1, Zenon
<1> DEFINE ev == Event(a, "rollback", actor, cnd)
<1>3. /\ state' \in [Apps -> {"none", "active", "promoted", "rolled_back"}]
      /\ candidate' \in [Apps -> Policies \cup {None}] /\ stable' \in [Apps -> Policies \cup {None}]
      /\ percent' \in [Apps -> 0 .. 100]
  BY <1>1 DEF TRows, StoreRollbackCanary
<1>4. state'[a] = "rolled_back" /\ candidate'[a] = cnd /\ percent'[a] \in 0 .. 100
  BY <1>1, <1>2, <1>3, Zenon DEF TRows, StoreRollbackCanary
<1>5. \A b \in Apps \ {a} : state'[b] = state[b] /\ candidate'[b] = candidate[b] /\ percent'[b] = percent[b]
  BY <1>1, Zenon DEF TRows, StoreRollbackCanary
<1>6. /\ ev \in Events /\ ev.app = a /\ ev.actor = actor /\ ev.since = listedAt
      /\ actor = "system" => ev.observed = listing[a].candidate
  BY <1>4, EventTyped
<1>7. audit' = Append(audit, ev) BY <1>2, Zenon DEF StoreRollbackCanary
<1>8. actor = "system" => ChangedSince(a, listedAt) \/ LastSet(a, listing[a].candidate, listing[a].percent)
  BY Zenon DEF IInv, Listed
<1> HIDE DEF ev
<1>9. PICK e \in Events : e = ev BY <1>6, Zenon
<1>10. TRows' BY <1>1, <1>3, <1>6, <1>7, AuditGrows, Zenon DEF TRows
<1>11. e.actor = "system" => ChangedSince(a, e.since) \/ \E pct : LastSet(a, e.observed, pct)
  BY <1>6, <1>8, <1>9, Zenon
<1> QED BY <1>4, <1>5, <1>6, <1>7, <1>9, <1>10, <1>11, RowWrite, Zenon

\* What a call carries, by where it is.
LEMMA CallTyped ==
  ASSUME TCalls, NEW c \in Calls
  PROVE  /\ call[c].at = "set" => /\ call[c].app \in Apps /\ call[c].candidate \in Policies
                                  /\ call[c].stable \in Policies \cup {None} /\ call[c].percent \in 0 .. 100
         /\ call[c].at = "activate" => call[c].app \in Apps /\ call[c].candidate \in Policies
         /\ call[c].at = "mark" => call[c].app \in Apps
<1>1. call[c] \in CallStates BY Zenon DEF TCalls
<1>2. CASE call[c] = Idle BY <1>2 DEF Idle
<1>3. CASE call[c] \in [at : {"set"}, app : Apps, candidate : Policies, stable : Policies \cup {None}, percent : 0 .. 100]
  BY <1>3, Zenon
<1>4. CASE call[c] \in [at : {"activate"}, app : Apps, candidate : Policies] BY <1>4, Zenon
<1>5. CASE call[c] \in [at : {"mark"}, app : Apps] BY <1>5, Zenon
<1> QED BY <1>1, <1>2, <1>3, <1>4, <1>5, Zenon DEF CallStates

\* A call that ends leaves the others as they are, while no row disappears.
LEMMA CallEnds ==
  ASSUME IInv, NEW c \in Calls, call' = [call EXCEPT ![c] = Idle],
         \A b \in Apps : state[b] # "none" => state'[b] # "none"
  PROVE  TCalls' /\ CallsKnow'
<1>1. TCalls BY Zenon DEF IInv, Typed
<1>2. TCalls' BY <1>1, Zenon DEF TCalls, CallStates
<1>3. ASSUME NEW d \in Calls, call'[d].at \in {"activate", "mark"} PROVE state'[call'[d].app] # "none"
  <2>1. call'[d] = call[d] BY <1>1, <1>3, Zenon DEF TCalls, Idle
  <2>2. call[d].app \in Apps BY <1>1, <1>3, <2>1, CallTyped, Zenon
  <2>3. state[call[d].app] # "none" BY <1>3, <2>1, Zenon DEF IInv, CallsKnow
  <2> QED BY <2>1, <2>2, <2>3, Zenon
<1> QED BY <1>2, <1>3, Zenon DEF CallsKnow

\* A write to the rows that leaves the controller's steps alone.
LEMMA SweepKept ==
  ASSUME IInv, UNCHANGED <<sweepVars, snapshot>>, listedAt' <= Len(audit')
  PROVE  TSweep' /\ Sweeps'
BY Zenon DEF IInv, Typed, TSweep, Sweeps, sweepVars

-----------------------------------------------------------------------------
(* Every action keeps the invariant: the administrators' calls.            *)

\* ActivatePolicy.
LEMMA ActivateStep ==
  ASSUME CanaryConstantsOK, IInv, NEW p \in Policies, ActivatePolicy(p), UNCHANGED deviceVars
  PROVE  TActive' /\ Activated' /\ activated \subseteq activated'
<1>1. TActive BY Zenon DEF IInv, Typed
<1>2. TActive' BY <1>1, Zenon DEF TActive, ActivatePolicy, CanaryConstantsOK, deviceVars
<1>3. Activated' BY <1>1, Zenon DEF TActive, IInv, Activated, ActivatePolicy, deviceVars
<1> QED BY <1>2, <1>3, Zenon DEF ActivatePolicy

\* ActivatePolicy puts a policy in force, and in the history of those activated.
LEMMA ActivateInv == ASSUME CanaryConstantsOK, IInv, NEW p \in Policies, Activate(p) PROVE IInv'
<1>1. /\ ActivatePolicy(p) /\ UNCHANGED rowVars /\ UNCHANGED deviceVars /\ UNCHANGED served
      /\ UNCHANGED <<call, sweepVars, snapshot, healthVars, restarts>>
  BY Zenon DEF Activate, deviceVars
<1>2. TActive' /\ Activated' /\ activated \subseteq activated' BY <1>1, ActivateStep, Zenon
<1>3. TRows' /\ RowsTell' /\ AutoRollbackSound' BY <1>1, QuietRows, Zenon
<1>4. TCalls' /\ CallsKnow' /\ TSweep' /\ Listed' /\ Sweeps' /\ SnapshotTells' /\ THealth' /\ TRestarts' /\ ServedExplained'
  BY <1>1, <1>2, QuietParts, Zenon
<1> QED BY <1>2, <1>3, <1>4, Zenon DEF IInv, Typed

\* SetCanaryRollout has read the active policy it will fall back to.
LEMMA SetRolloutInv ==
  ASSUME CanaryConstantsOK, IInv, NEW c \in Calls, NEW a \in Apps, NEW p \in Policies, NEW n \in Percents,
         SetCanaryRollout(c, a, p, n)
  PROVE  IInv'
<1>1. /\ UNCHANGED rowVars /\ UNCHANGED served /\ activated \subseteq activated'
      /\ UNCHANGED <<active, activated, deviceVars>> /\ UNCHANGED <<sweepVars, snapshot, healthVars, restarts>>
  BY Zenon DEF SetCanaryRollout, deviceVars
<1>2. TRows' /\ RowsTell' /\ AutoRollbackSound' BY <1>1, QuietRows, Zenon
<1>3. /\ TActive' /\ Activated' /\ TSweep' /\ Listed' /\ Sweeps' /\ SnapshotTells' /\ THealth' /\ TRestarts'
      /\ ServedExplained'
  BY <1>1, QuietParts, Zenon
<1> DEFINE new == [at |-> "set", app |-> a, candidate |-> p, percent |-> n, stable |-> GetActivePolicy(a)]
<1>4. new \in CallStates /\ new.at = "set" BY ActiveTyped, Zenon DEF CallStates, CanaryConstantsOK
<1>5. call' = [call EXCEPT ![c] = new] BY Zenon DEF SetCanaryRollout
<1> HIDE DEF new
<1>6. TCalls' BY <1>4, <1>5, Zenon DEF IInv, Typed, TCalls
<1>7. CallsKnow' BY <1>1, <1>4, <1>5, Zenon DEF IInv, Typed, TCalls, CallsKnow, rowVars
<1> QED BY <1>2, <1>3, <1>6, <1>7, Zenon DEF IInv, Typed

\* PromoteCanary has read the row it promotes.
LEMMA PromoteInv ==
  ASSUME CanaryConstantsOK, IInv, NEW c \in Calls, NEW a \in Apps, PromoteCanary(c, a)
  PROVE  IInv'
<1>1. /\ UNCHANGED rowVars /\ UNCHANGED served /\ activated \subseteq activated'
      /\ UNCHANGED <<active, activated, deviceVars>> /\ UNCHANGED <<sweepVars, snapshot, healthVars, restarts>>
  BY Zenon DEF PromoteCanary, deviceVars
<1>2. TRows' /\ RowsTell' /\ AutoRollbackSound' BY <1>1, QuietRows, Zenon
<1>3. /\ TActive' /\ Activated' /\ TSweep' /\ Listed' /\ Sweeps' /\ SnapshotTells' /\ THealth' /\ TRestarts'
      /\ ServedExplained'
  BY <1>1, QuietParts, Zenon
<1> DEFINE new == [at |-> "activate", app |-> a, candidate |-> candidate[a]]
<1>4. candidate[a] \in Policies /\ state[a] # "none" BY Zenon DEF PromoteCanary, IInv, RowsTell
<1>5. new \in CallStates /\ new.app = a BY <1>4, Zenon DEF CallStates
<1>6. call' = [call EXCEPT ![c] = new] BY Zenon DEF PromoteCanary
<1> HIDE DEF new
<1>7. TCalls' BY <1>5, <1>6, Zenon DEF IInv, Typed, TCalls
<1>8. CallsKnow' BY <1>1, <1>4, <1>5, <1>6, Zenon DEF IInv, Typed, TCalls, CallsKnow, rowVars
<1> QED BY <1>2, <1>3, <1>7, <1>8, Zenon DEF IInv, Typed

\* PromoteCanary activates the candidate it read.
LEMMA PromoteActivateInv ==
  ASSUME CanaryConstantsOK, IInv, NEW c \in Calls, PromoteActivate(c)
  PROVE  IInv'
<1>1. /\ call[c].at = "activate" /\ ActivatePolicy(call[c].candidate)
      /\ UNCHANGED rowVars /\ UNCHANGED deviceVars /\ UNCHANGED served
      /\ UNCHANGED <<sweepVars, snapshot, healthVars, restarts>>
  BY Zenon DEF PromoteActivate, deviceVars
<1>2. TCalls BY Zenon DEF IInv, Typed
<1>3. call[c].app \in Apps /\ call[c].candidate \in Policies BY <1>1, <1>2, CallTyped, Zenon
<1>4. PICK p \in Policies : p = call[c].candidate BY <1>3, Zenon
<1>5. TActive' /\ Activated' /\ activated \subseteq activated' BY <1>1, <1>4, ActivateStep, Zenon
<1>6. TRows' /\ RowsTell' /\ AutoRollbackSound' BY <1>1, QuietRows, Zenon
<1>7. TSweep' /\ Listed' /\ Sweeps' /\ SnapshotTells' /\ THealth' /\ TRestarts' /\ ServedExplained'
  BY <1>1, <1>5, QuietParts, Zenon
<1> DEFINE new == [at |-> "mark", app |-> call[c].app]
<1>8. new \in CallStates /\ new.app = call[c].app BY <1>3, Zenon DEF CallStates
<1>9. call' = [call EXCEPT ![c] = new] BY Zenon DEF PromoteActivate
<1> HIDE DEF new
<1>10. TCalls' BY <1>2, <1>8, <1>9, Zenon DEF TCalls
<1>11. CallsKnow' BY <1>1, <1>2, <1>8, <1>9, Zenon DEF IInv, TCalls, CallsKnow, rowVars
<1> QED BY <1>5, <1>6, <1>7, <1>10, <1>11, Zenon DEF IInv, Typed

\* A write to the rows in no call leaves the calls as they are.
LEMMA CallsStay ==
  ASSUME IInv, UNCHANGED call, \A b \in Apps : state[b] # "none" => state'[b] # "none"
  PROVE  TCalls' /\ CallsKnow'
<1>1. TCalls BY Zenon DEF IInv, Typed
<1>2. ASSUME NEW d \in Calls, call[d].at \in {"activate", "mark"} PROVE state'[call[d].app] # "none"
  <2>1. call[d].app \in Apps BY <1>1, <1>2, CallTyped, Zenon
  <2>2. state[call[d].app] # "none" BY <1>2, Zenon DEF IInv, CallsKnow
  <2> QED BY <2>1, <2>2, Zenon
<1> QED BY <1>1, <1>2, Zenon DEF TCalls, CallsKnow

\* A call of an administrator fails between two transactions.
LEMMA CallFailsInv ==
  ASSUME CanaryConstantsOK, IInv, NEW c \in Calls, CallFails(c)
  PROVE  IInv'
<1>1. /\ UNCHANGED rowVars /\ UNCHANGED served /\ activated \subseteq activated'
      /\ UNCHANGED <<active, activated, deviceVars>> /\ UNCHANGED <<sweepVars, snapshot, healthVars, restarts>>
      /\ call' = [call EXCEPT ![c] = Idle]
  BY Zenon DEF CallFails, deviceVars
<1>2. TRows' /\ RowsTell' /\ AutoRollbackSound' BY <1>1, QuietRows, Zenon
<1>3. /\ TActive' /\ Activated' /\ TSweep' /\ Listed' /\ Sweeps' /\ SnapshotTells' /\ THealth' /\ TRestarts'
      /\ ServedExplained'
  BY <1>1, QuietParts, Zenon
<1>4. TCalls' /\ CallsKnow' BY <1>1, CallEnds, Zenon DEF rowVars
<1> QED BY <1>2, <1>3, <1>4, Zenon DEF IInv, Typed

\* SetCanary writes the row and its audit event together.
LEMMA SetCanaryInv ==
  ASSUME CanaryConstantsOK, IInv, NEW c \in Calls, SetCanary(c)
  PROVE  IInv'
<1>1. /\ call[c].at = "set" /\ StoreSetCanary(call[c].app, call[c].candidate, call[c].stable, call[c].percent)
      /\ call' = [call EXCEPT ![c] = Idle]
      /\ UNCHANGED <<active, activated, deviceVars>> /\ UNCHANGED <<sweepVars, snapshot, healthVars, restarts>>
  BY Zenon DEF SetCanary
<1>2. TCalls BY Zenon DEF IInv, Typed
<1>3. /\ call[c].app \in Apps /\ call[c].candidate \in Policies
      /\ call[c].stable \in Policies \cup {None} /\ call[c].percent \in 0 .. 100
  BY <1>1, <1>2, CallTyped, Zenon
<1>4. PICK a \in Apps, cnd \in Policies, stab \in Policies \cup {None}, pct \in 0 .. 100 :
        a = call[c].app /\ cnd = call[c].candidate /\ stab = call[c].stable /\ pct = call[c].percent
  BY <1>3, Zenon
<1>5. StoreSetCanary(a, cnd, stab, pct) BY <1>1, <1>4, Zenon
<1>6. UNCHANGED <<active, activated, listing, listedAt, snapshot, deviceVars>> BY <1>1, Zenon DEF sweepVars
<1>7. /\ TRows' /\ RowsTell' /\ Listed' /\ SnapshotTells' /\ Activated' /\ AutoRollbackSound' /\ ServedExplained'
      /\ listedAt' <= Len(audit') /\ \A b \in Apps : state[b] # "none" => state'[b] # "none"
  BY <1>5, <1>6, StoreSet, Zenon
<1>8. TCalls' /\ CallsKnow' BY <1>1, <1>7, CallEnds, Zenon
<1>9. TSweep' /\ Sweeps' BY <1>1, <1>7, SweepKept, Zenon
<1>10. TActive' /\ THealth' /\ TRestarts' BY <1>1, QuietParts, Zenon
<1> QED BY <1>7, <1>8, <1>9, <1>10, Zenon DEF IInv, Typed

\* PromoteCanary marks whatever row is there by then.
LEMMA PromoteMarkInv ==
  ASSUME CanaryConstantsOK, IInv, NEW c \in Calls, PromoteMark(c)
  PROVE  IInv'
<1>1. /\ call[c].at = "mark" /\ StorePromoteCanary(call[c].app)
      /\ call' = [call EXCEPT ![c] = Idle]
      /\ UNCHANGED <<active, activated, deviceVars>> /\ UNCHANGED <<sweepVars, snapshot, healthVars, restarts>>
  BY Zenon DEF PromoteMark
<1>2. TCalls BY Zenon DEF IInv, Typed
<1>3. call[c].app \in Apps /\ state[call[c].app] # "none" BY <1>1, <1>2, CallTyped, Zenon DEF IInv, CallsKnow
<1>4. PICK a \in Apps : a = call[c].app BY <1>3, Zenon
<1>5. UNCHANGED <<active, activated, listing, listedAt, snapshot, deviceVars>> BY <1>1, Zenon DEF sweepVars
<1>6. StorePromoteCanary(a) /\ state[a] # "none" BY <1>1, <1>3, <1>4, Zenon
<1>7. /\ TRows' /\ RowsTell' /\ Listed' /\ SnapshotTells' /\ Activated' /\ AutoRollbackSound' /\ ServedExplained'
      /\ listedAt' <= Len(audit') /\ \A b \in Apps : state[b] # "none" => state'[b] # "none"
  BY <1>5, <1>6, StorePromote, Zenon
<1>8. TCalls' /\ CallsKnow' BY <1>1, <1>7, CallEnds, Zenon
<1>9. TSweep' /\ Sweeps' BY <1>1, <1>7, SweepKept, Zenon
<1>10. TActive' /\ THealth' /\ TRestarts' BY <1>1, QuietParts, Zenon
<1> QED BY <1>7, <1>8, <1>9, <1>10, Zenon DEF IInv, Typed

\* RollbackCanary, asked for by an administrator.
LEMMA RollbackInv ==
  ASSUME CanaryConstantsOK, IInv, NEW a \in Apps, RollbackCanary(a)
  PROVE  IInv'
<1>1. /\ state[a] # "none" /\ StoreRollbackCanary(a, "admin") /\ UNCHANGED call
      /\ UNCHANGED <<active, activated, deviceVars>> /\ UNCHANGED <<sweepVars, snapshot, healthVars, restarts>>
  BY Zenon DEF RollbackCanary
<1>2. UNCHANGED <<active, activated, listing, listedAt, snapshot, deviceVars>> BY <1>1, Zenon DEF sweepVars
<1>3. /\ TRows' /\ RowsTell' /\ Listed' /\ SnapshotTells' /\ Activated' /\ AutoRollbackSound' /\ ServedExplained'
      /\ listedAt' <= Len(audit') /\ \A b \in Apps : state[b] # "none" => state'[b] # "none"
  BY <1>1, <1>2, StoreRollback, Zenon
<1>4. TCalls' /\ CallsKnow' BY <1>1, <1>3, CallsStay, Zenon
<1>5. TSweep' /\ Sweeps' BY <1>1, <1>3, SweepKept, Zenon
<1>6. TActive' /\ THealth' /\ TRestarts' BY <1>1, QuietParts, Zenon
<1> QED BY <1>3, <1>4, <1>5, <1>6, Zenon DEF IInv, Typed

-----------------------------------------------------------------------------
(* The controller's sweep.                                                 *)

\* The sweep lists the active rollouts and notes how long the trail is.
LEMMA ListActiveInv == ASSUME CanaryConstantsOK, IInv, ListActive PROVE IInv'
<1>1. /\ UNCHANGED rowVars /\ UNCHANGED <<call, rowVars>> /\ UNCHANGED <<served, rowVars>> /\ activated \subseteq activated'
      /\ UNCHANGED <<active, activated, deviceVars>> /\ UNCHANGED healthVars /\ UNCHANGED restarts
      /\ UNCHANGED <<todo, firing, snapshot>> /\ sweepPc = "idle" /\ sweepPc' = "listed" /\ listedAt' = Len(audit)
      /\ listing' = Listing({a \in Apps : state[a] = "active"})
  BY Zenon DEF ListActive, deviceVars
<1>2. /\ TRows' /\ RowsTell' /\ AutoRollbackSound'
      /\ \A a, c, pct : SetOnce(a, c, pct)' = SetOnce(a, c, pct) /\ LastSet(a, c, pct)' = LastSet(a, c, pct)
  BY <1>1, QuietRows, Zenon
<1>3. TActive' /\ Activated' /\ TCalls' /\ CallsKnow' /\ THealth' /\ TRestarts' /\ ServedExplained'
  BY <1>1, QuietParts, Zenon
<1>4. \A a \in Apps : listing'[a] =
        IF state[a] = "active" THEN [candidate |-> candidate[a], stable |-> stable[a], percent |-> percent[a]] ELSE None
  BY <1>1, Zenon DEF Listing
<1>5. ASSUME NEW a \in Apps, state[a] = "active" PROVE listing'[a] \in Rollouts
  <2>1. listing'[a] = [candidate |-> candidate[a], stable |-> stable[a], percent |-> percent[a]] BY <1>4, <1>5, Zenon
  <2>2. candidate[a] \in Policies BY <1>5, Zenon DEF IInv, RowsTell
  <2>3. stable[a] \in Policies \cup {None} /\ percent[a] \in 0 .. 100 BY Zenon DEF IInv, Typed, TRows
  <2> QED BY <2>1, <2>2, <2>3 DEF Rollouts
<1>6. TSweep'
  <2>1. listing' \in [Apps -> Rollouts \cup {None}] BY <1>1, <1>4, <1>5, Zenon DEF Listing
  <2>2. listedAt' \in Nat /\ listedAt' <= Len(audit') BY <1>1 DEF IInv, Typed, TRows, rowVars
  <2> QED BY <1>1, <2>1, <2>2, Zenon DEF IInv, Typed, TSweep
<1>7. ASSUME NEW a \in Apps, listing'[a] # None
      PROVE  /\ state'[a] # "none" /\ SetOnce(a, listing[a].candidate, listing[a].percent)'
             /\ LastSet(a, listing[a].candidate, listing[a].percent)'
  <2>1. PICK c, pct : c = listing'[a].candidate /\ pct = listing'[a].percent BY Zenon
  <2>2. state[a] = "active" /\ c = candidate[a] /\ pct = percent[a]
    <3>1. state[a] = "active" BY <1>4, <1>7, Zenon
    <3>2. listing'[a] = [candidate |-> candidate[a], stable |-> stable[a], percent |-> percent[a]] BY <1>4, <3>1, Zenon
    <3> QED BY <2>1, <3>1, <3>2
  <2>3. LastSet(a, c, pct) BY <2>2, Zenon DEF IInv, RowsTell
  <2>4. SetOnce(a, c, pct) BY <2>3, Zenon DEF LastSet, SetOnce
  <2>5. SetOnce(a, c, pct)' /\ LastSet(a, c, pct)' BY <1>2, <2>3, <2>4, Zenon
  <2>6. state'[a] = "active" BY <1>1, <2>2, Zenon DEF rowVars
  <2> QED BY <2>1, <2>5, <2>6, Zenon DEF SetOnce, LastSet, Sets
<1>8. Listed' BY <1>7, Zenon DEF Listed
<1>9. Sweeps' BY <1>1, Zenon DEF IInv, Sweeps
<1>10. SnapshotTells' BY <1>1, <1>2 DEF IInv, SnapshotTells, SetOnce, Sets, rowVars
<1> QED BY <1>2, <1>3, <1>6, <1>8, <1>9, <1>10, Zenon DEF IInv, Typed

\* The listing becomes the snapshot that the hot paths read.
LEMMA ReplaceInv == ASSUME CanaryConstantsOK, IInv, Replace PROVE IInv'
<1>1. /\ UNCHANGED rowVars /\ UNCHANGED <<call, rowVars>> /\ UNCHANGED <<served, rowVars>> /\ activated \subseteq activated'
      /\ UNCHANGED <<active, activated, deviceVars>> /\ UNCHANGED healthVars /\ UNCHANGED restarts
      /\ UNCHANGED <<listing, listedAt, firing>> /\ sweepPc = "listed" /\ sweepPc' = "assessing"
      /\ snapshot' = listing /\ todo' = {a \in Apps : listing[a] # None}
  BY Zenon DEF Replace, deviceVars
<1>2. TRows' /\ RowsTell' /\ AutoRollbackSound' BY <1>1, QuietRows, Zenon
<1>3. TActive' /\ Activated' /\ TCalls' /\ CallsKnow' /\ THealth' /\ TRestarts' /\ ServedExplained'
  BY <1>1, QuietParts, Zenon
<1>4. TSweep' BY <1>1, Zenon DEF IInv, Typed, TSweep, rowVars
<1>5. Listed' BY <1>1 DEF IInv, Listed, SetOnce, LastSet, Sets, ChangedSince, rowVars
<1>6. Sweeps' BY <1>1, Zenon DEF IInv, Sweeps
<1>7. SnapshotTells' BY <1>1 DEF IInv, Listed, SnapshotTells, SetOnce, Sets, rowVars
<1> QED BY <1>2, <1>3, <1>4, <1>5, <1>6, <1>7, Zenon DEF IInv, Typed

\* Assess, AutoRollbackFails and SweepEnds write nothing but the controller's own state.
LEMMA SweepInv ==
  ASSUME CanaryConstantsOK, IInv, (\E a \in Apps : Assess(a) \/ AutoRollbackFails(a)) \/ SweepEnds
  PROVE  IInv'
<1>1. /\ UNCHANGED rowVars /\ UNCHANGED <<call, rowVars>> /\ UNCHANGED <<served, rowVars>> /\ activated \subseteq activated'
      /\ UNCHANGED <<active, activated, deviceVars>> /\ UNCHANGED healthVars /\ UNCHANGED restarts /\ UNCHANGED snapshot
  BY Zenon DEF Assess, AutoRollbackFails, SweepEnds, deviceVars
<1>2. TRows' /\ RowsTell' /\ AutoRollbackSound' BY <1>1, QuietRows, Zenon
<1>3. TActive' /\ Activated' /\ TCalls' /\ CallsKnow' /\ THealth' /\ TRestarts' /\ ServedExplained'
  BY <1>1, QuietParts, Zenon
<1>4. SnapshotTells' BY <1>1 DEF IInv, SnapshotTells, SetOnce, Sets, rowVars
<1>5. ASSUME NEW a \in Apps, Assess(a) PROVE TSweep' /\ Listed' /\ Sweeps'
  <2>1. /\ sweepPc = "assessing" /\ a \in todo /\ todo' = todo \ {a} /\ firing' \in {a, None}
        /\ UNCHANGED <<sweepPc, listing, listedAt>>
    BY <1>5, Zenon DEF Assess
  <2>2. TSweep' BY <1>1, <2>1, Zenon DEF IInv, Typed, TSweep, rowVars
  <2>3. Listed' BY <1>1, <2>1 DEF IInv, Listed, SetOnce, LastSet, Sets, ChangedSince, rowVars
  <2>4. Sweeps' BY <2>1, Zenon DEF IInv, Sweeps
  <2> QED BY <2>2, <2>3, <2>4, Zenon
<1>6. ASSUME NEW a \in Apps, AutoRollbackFails(a) PROVE TSweep' /\ Listed' /\ Sweeps'
  <2>1. firing' = None /\ UNCHANGED <<sweepPc, listing, listedAt, todo>> BY <1>6, Zenon DEF AutoRollbackFails
  <2>2. TSweep' BY <1>1, <2>1, Zenon DEF IInv, Typed, TSweep, rowVars
  <2>3. Listed' BY <1>1, <2>1 DEF IInv, Listed, SetOnce, LastSet, Sets, ChangedSince, rowVars
  <2>4. Sweeps' BY <2>1, Zenon DEF IInv, Sweeps
  <2> QED BY <2>2, <2>3, <2>4, Zenon
<1>7. ASSUME SweepEnds PROVE TSweep' /\ Listed' /\ Sweeps'
  <2>1. /\ sweepPc' = "idle" /\ listing' = [a \in Apps |-> None] /\ listedAt' = 0 /\ firing = None
        /\ UNCHANGED <<todo, firing>>
    BY <1>7, Zenon DEF SweepEnds
  <2>2. TSweep' BY <1>1, <2>1 DEF IInv, Typed, TRows, TSweep, rowVars
  <2>3. Listed' BY <2>1, Zenon DEF Listed
  <2>4. Sweeps' BY <2>1, Zenon DEF IInv, Sweeps
  <2> QED BY <2>2, <2>3, <2>4, Zenon
<1> QED BY <1>2, <1>3, <1>4, <1>5, <1>6, <1>7, Zenon DEF IInv, Typed

\* The controller rolls back a row of its app, by then perhaps another one.
LEMMA AutoRollbackInv ==
  ASSUME CanaryConstantsOK, IInv, NEW a \in Apps, AutoRollback(a)
  PROVE  IInv'
<1>1. /\ firing = a /\ StoreRollbackCanary(a, "system") /\ UNCHANGED call /\ firing' = None
      /\ UNCHANGED <<active, activated, deviceVars>> /\ UNCHANGED healthVars /\ UNCHANGED restarts
      /\ UNCHANGED <<sweepPc, listing, listedAt, todo, snapshot>>
  BY Zenon DEF AutoRollback
<1>2. listing[a] # None /\ state[a] # "none" BY <1>1, Zenon DEF CanaryConstantsOK, IInv, Sweeps, Listed
<1>3. /\ TRows' /\ RowsTell' /\ Listed' /\ SnapshotTells' /\ Activated' /\ AutoRollbackSound' /\ ServedExplained'
      /\ listedAt' <= Len(audit') /\ \A b \in Apps : state[b] # "none" => state'[b] # "none"
  BY <1>1, <1>2, StoreRollback, Zenon
<1>4. TCalls' /\ CallsKnow' BY <1>1, <1>3, CallsStay, Zenon
<1>5. TSweep' BY <1>1, <1>3, Zenon DEF IInv, Typed, TSweep
<1>6. Sweeps' BY <1>1, Zenon DEF IInv, Sweeps
<1>7. TActive' /\ THealth' /\ TRestarts' BY <1>1, QuietParts, Zenon
<1> QED BY <1>3, <1>4, <1>5, <1>6, <1>7, Zenon DEF IInv, Typed

-----------------------------------------------------------------------------
(* The hot paths and the restart.                                          *)

\* A config request has read the active policy.
LEMMA GetConfigInv == ASSUME CanaryConstantsOK, IInv, NEW i \in Instances, ReadActivePolicy(i) PROVE IInv'
<1>1. /\ UNCHANGED rowVars /\ UNCHANGED <<call, rowVars>> /\ UNCHANGED <<served, rowVars>> /\ activated \subseteq activated'
      /\ UNCHANGED <<sweepVars, snapshot, rowVars>> /\ UNCHANGED healthVars /\ UNCHANGED restarts
      /\ UNCHANGED <<active, activated, served>>
      /\ GetActivePolicy(HomeApp[i]) # None
      /\ fetching' = [fetching EXCEPT ![i] = GetActivePolicy(HomeApp[i])]
  BY Zenon DEF ReadActivePolicy
<1>2. TRows' /\ RowsTell' /\ AutoRollbackSound' BY <1>1, QuietRows, Zenon
<1>3. /\ TCalls' /\ CallsKnow' /\ TSweep' /\ Listed' /\ Sweeps' /\ SnapshotTells' /\ THealth' /\ TRestarts'
      /\ ServedExplained'
  BY <1>1, QuietParts, Zenon
<1>4. PICK p : p = GetActivePolicy(HomeApp[i]) BY Zenon
<1>5. p \in Policies /\ p \in activated BY <1>1, <1>4, ActiveTyped, Zenon DEF CanaryConstantsOK
<1>6. TActive' BY <1>1, <1>4, <1>5, Zenon DEF IInv, Typed, TActive
<1>7. Activated' BY <1>1, <1>4, <1>5, Zenon DEF IInv, Typed, TActive, Activated
<1> QED BY <1>2, <1>3, <1>6, <1>7, Zenon DEF IInv, Typed

\* It is served that policy, or the candidate if the snapshot has it in the cohort.
LEMMA ResolveInv == ASSUME CanaryConstantsOK, IInv, NEW i \in Instances, ResolvePolicy(i) PROVE IInv'
<1> DEFINE r == snapshot[HomeApp[i]]
<1>1. /\ UNCHANGED rowVars /\ UNCHANGED <<call, rowVars>>
      /\ UNCHANGED <<sweepVars, snapshot, rowVars>> /\ UNCHANGED healthVars /\ UNCHANGED restarts
      /\ UNCHANGED <<active, activated>> /\ fetching[i] # None
      /\ fetching' = [fetching EXCEPT ![i] = None]
      /\ \E p \in {fetching[i]} \cup (IF r # None /\ InCanary(i, r.percent) THEN {r.candidate} ELSE {}) :
            served' = [served EXCEPT ![i] = @ \cup {p}]
  BY Zenon DEF ResolvePolicy
<1>2. TRows' /\ RowsTell' /\ AutoRollbackSound' BY <1>1, QuietRows, Zenon
<1>3. TCalls' /\ CallsKnow' /\ TSweep' /\ Listed' /\ Sweeps' /\ SnapshotTells' /\ THealth' /\ TRestarts'
  BY <1>1, QuietParts, Zenon
<1>4. PICK p : /\ p = fetching[i] \/ (r # None /\ InCanary(i, r.percent) /\ p = r.candidate)
               /\ served' = [served EXCEPT ![i] = @ \cup {p}]
  BY <1>1, Zenon
<1>5. HomeApp[i] \in Apps /\ BucketOf[i] \in 0 .. 99 BY Zenon DEF CanaryConstantsOK
<1>6. r # None => r.candidate \in Policies /\ r.percent \in 0 .. 100
  BY <1>5, Zenon DEF IInv, Typed, TSweep, Rollouts
<1>7. p \in Policies BY <1>1, <1>4, <1>6, Zenon DEF IInv, Typed, TActive
<1>8. \/ p \in activated
      \/ \E k \in DOMAIN audit :
            /\ audit[k].app = HomeApp[i] /\ audit[k].action = "set" /\ audit[k].candidate = p
            /\ BucketOf[i] < audit[k].percent
  <2>1. CASE p = fetching[i] BY <1>1, <2>1, Zenon DEF IInv, Activated
  <2>2. CASE r # None /\ InCanary(i, r.percent) /\ p = r.candidate
    <3>1. BucketOf[i] < r.percent BY <1>5, <1>6, <2>2 DEF InCanary
    <3>2. PICK k \in DOMAIN audit : Sets(k, HomeApp[i], r.candidate, r.percent)
      BY <1>5, <2>2, Zenon DEF IInv, SnapshotTells, SetOnce
    <3> QED BY <2>2, <3>1, <3>2, Zenon DEF Sets
  <2> QED BY <1>4, <2>1, <2>2, Zenon
<1>9. TActive' BY <1>1, <1>4, <1>7, Zenon DEF IInv, Typed, TActive
<1>10. Activated' BY <1>1, Zenon DEF IInv, Typed, TActive, Activated
<1>11. ServedExplained'
  <2> SUFFICES ASSUME NEW j \in Instances, NEW q \in served'[j]
               PROVE  \/ q \in activated
                      \/ \E k \in DOMAIN audit :
                            /\ audit[k].app = HomeApp[j] /\ audit[k].action = "set" /\ audit[k].candidate = q
                            /\ BucketOf[j] < audit[k].percent
    BY <1>1 DEF ServedExplained, rowVars
  <2>1. q \in served[j] \/ (j = i /\ q = p) BY <1>4, Zenon DEF IInv, Typed, TActive
  <2>2. CASE q \in served[j] BY <2>2 DEF IInv, ServedExplained
  <2>3. CASE j = i /\ q = p BY <1>8, <2>3, Zenon
  <2> QED BY <2>1, <2>2, <2>3, Zenon
<1> QED BY <1>2, <1>3, <1>9, <1>10, <1>11, Zenon DEF IInv, Typed

\* Decisions counted and forgotten: nothing but the detector's window changes.
LEMMA HealthInv ==
  ASSUME CanaryConstantsOK, IInv,
         \/ \E i \in Instances, deny \in BOOLEAN : RecordCanaryHealth(i, deny)
         \/ \E s \in Apps \X Policies : WindowSlides(s)
  PROVE  IInv'
<1>1. /\ UNCHANGED rowVars /\ UNCHANGED <<call, rowVars>> /\ UNCHANGED <<served, rowVars>> /\ activated \subseteq activated'
      /\ UNCHANGED <<sweepVars, snapshot, rowVars>> /\ UNCHANGED restarts /\ UNCHANGED <<active, activated, deviceVars>>
  BY Zenon DEF RecordCanaryHealth, WindowSlides, deviceVars
<1>2. TRows' /\ RowsTell' /\ AutoRollbackSound' BY <1>1, QuietRows, Zenon
<1>3. /\ TCalls' /\ CallsKnow' /\ TSweep' /\ Listed' /\ Sweeps' /\ SnapshotTells' /\ TRestarts'
      /\ ServedExplained' /\ TActive' /\ Activated'
  BY <1>1, QuietParts, Zenon
<1>4. THealth /\ MaxSamples \in Nat BY Zenon DEF IInv, Typed, CanaryConstantsOK
<1>5. ASSUME NEW i \in Instances, NEW deny \in BOOLEAN, RecordCanaryHealth(i, deny) PROVE THealth'
  <2>1. HomeApp[i] \in Apps BY Zenon DEF CanaryConstantsOK
  <2>2. snapshot[HomeApp[i]] \in Rollouts BY <1>5, <2>1, Zenon DEF RecordCanaryHealth, IInv, Typed, TSweep
  <2>3. Cohort(i) \in Policies BY <1>5, <2>2, Zenon DEF RecordCanaryHealth, Cohort, Rollouts
  <2>4. PICK s \in Apps \X Policies : s = <<HomeApp[i], Cohort(i)>> BY <2>1, <2>3, Zenon
  <2>5. /\ total[s] < MaxSamples /\ total' = [total EXCEPT ![s] = @ + 1]
        /\ blocked' = [blocked EXCEPT ![s] = IF deny THEN @ + 1 ELSE @]
    BY <1>5, <2>4, Zenon DEF RecordCanaryHealth, RecordDecision
  <2>6. /\ total[s] \in 0 .. MaxSamples /\ blocked[s] \in 0 .. MaxSamples /\ blocked[s] <= total[s] BY <1>4, Zenon DEF THealth
  <2>7. PICK b \in 0 .. MaxSamples : b \in {blocked[s], blocked[s] + 1} /\ blocked' = [blocked EXCEPT ![s] = b]
    <3>1. ASSUME deny PROVE \E b \in 0 .. MaxSamples : b \in {blocked[s], blocked[s] + 1} /\ blocked' = [blocked EXCEPT ![s] = b]
      <4>1. blocked' = [blocked EXCEPT ![s] = @ + 1] BY <2>5, <3>1, Zenon
      <4>2. blocked[s] + 1 \in 0 .. MaxSamples BY <1>4, <2>5, <2>6
      <4> QED BY <4>1, <4>2, Zenon
    <3>2. CASE ~deny BY <1>4, <2>5, <2>6, <3>2, Zenon
    <3> QED BY <3>1, <3>2, Zenon
  <2> QED BY <1>4, <2>5, <2>6, <2>7 DEF THealth
<1>6. ASSUME NEW s \in Apps \X Policies, WindowSlides(s) PROVE THealth'
  <2>1. PICK t \in 0 .. total[s] - 1, b \in 0 .. blocked[s] :
          b <= t /\ total' = [total EXCEPT ![s] = t] /\ blocked' = [blocked EXCEPT ![s] = b]
    BY <1>6, Zenon DEF WindowSlides
  <2> QED BY <1>4, <2>1 DEF THealth
<1> QED BY <1>2, <1>3, <1>5, <1>6, Zenon DEF IInv, Typed

\* A restart forgets the snapshot, the sweep and the requests in flight.
LEMMA RestartInv == ASSUME CanaryConstantsOK, IInv, ServerRestarts PROVE IInv'
<1>1. UNCHANGED rowVars /\ UNCHANGED <<served, rowVars>> /\ activated \subseteq activated' BY Zenon DEF ServerRestarts
<1>2. TRows' /\ RowsTell' /\ AutoRollbackSound' BY <1>1, QuietRows, Zenon
<1>3. ServedExplained' BY <1>1, QuietParts, Zenon
<1>4. TActive' /\ Activated' BY Zenon DEF ServerRestarts, IInv, Typed, TActive, Activated
<1>5. TCalls' /\ CallsKnow' BY Zenon DEF ServerRestarts, TCalls, CallsKnow, CallStates, Idle
<1>6. TSweep' BY <1>2 DEF ServerRestarts, TRows, TSweep
<1>7. Listed' /\ Sweeps' /\ SnapshotTells' BY Zenon DEF ServerRestarts, Listed, Sweeps, SnapshotTells
<1>8. THealth' /\ TRestarts' BY DEF ServerRestarts, THealth, TRestarts, CanaryConstantsOK, IInv, Typed
<1> QED BY <1>2, <1>3, <1>4, <1>5, <1>6, <1>7, <1>8, Zenon DEF IInv, Typed

-----------------------------------------------------------------------------
(* The invariant and what follows from it.                                 *)

\* Before the first call.
LEMMA InitInv == ASSUME CanaryConstantsOK, CanaryInit PROVE IInv
<1>1. Typed
  BY DEF CanaryInit, CanaryConstantsOK, Typed, TRows, TActive, TCalls, TSweep, THealth, TRestarts, CallStates
<1>2. RowsTell /\ Listed /\ Sweeps /\ SnapshotTells /\ Activated BY Zenon DEF CanaryInit, RowsTell, Listed, Sweeps, SnapshotTells, Activated
<1>3. CallsKnow BY Zenon DEF CanaryInit, CallsKnow, Idle
<1>4. AutoRollbackSound /\ ServedExplained BY DEF CanaryInit, AutoRollbackSound, AutoRollbacks, ServedExplained
<1> QED BY <1>1, <1>2, <1>3, <1>4, Zenon DEF IInv

\* Every step, by the lemma for its action.
LEMMA NextInv == ASSUME CanaryConstantsOK, IInv, [CanaryNext]_canaryVars PROVE IInv'
<1>1. CASE UNCHANGED canaryVars
  <2>1. /\ UNCHANGED rowVars /\ UNCHANGED <<call, rowVars>> /\ UNCHANGED <<served, rowVars>> /\ activated \subseteq activated'
        /\ UNCHANGED <<sweepVars, snapshot, rowVars>> /\ UNCHANGED restarts /\ UNCHANGED <<active, activated, deviceVars>>
        /\ UNCHANGED healthVars
    BY <1>1, Zenon DEF canaryVars, deviceVars
  <2>2. TRows' /\ RowsTell' /\ AutoRollbackSound' BY <2>1, QuietRows, Zenon
  <2>3. /\ TCalls' /\ CallsKnow' /\ TSweep' /\ Listed' /\ Sweeps' /\ SnapshotTells' /\ TRestarts'
        /\ ServedExplained' /\ TActive' /\ Activated' /\ THealth'
    BY <2>1, QuietParts, Zenon
  <2> QED BY <2>2, <2>3, Zenon DEF IInv, Typed
<1>2. CASE \E p \in Policies : Activate(p) BY <1>2, ActivateInv, Zenon
<1>3. ASSUME NEW c \in Calls,
             \/ \E a \in Apps, p \in Policies, n \in Percents : SetCanaryRollout(c, a, p, n)
             \/ \E a \in Apps : PromoteCanary(c, a)
             \/ SetCanary(c) \/ PromoteActivate(c) \/ PromoteMark(c) \/ CallFails(c)
      PROVE  IInv'
  BY <1>3, SetRolloutInv, PromoteInv, SetCanaryInv, PromoteActivateInv, PromoteMarkInv, CallFailsInv, Zenon
<1>4. CASE ListActive \/ Replace \/ SweepEnds \/ ServerRestarts BY <1>4, ListActiveInv, ReplaceInv, SweepInv, RestartInv, Zenon
<1>5. ASSUME NEW a \in Apps, RollbackCanary(a) \/ Assess(a) \/ AutoRollback(a) \/ AutoRollbackFails(a) PROVE IInv'
  BY <1>5, RollbackInv, SweepInv, AutoRollbackInv, Zenon
<1>6. ASSUME NEW i \in Instances, ReadActivePolicy(i) \/ ResolvePolicy(i) \/ \E deny \in BOOLEAN : RecordCanaryHealth(i, deny)
      PROVE  IInv'
  BY <1>6, GetConfigInv, ResolveInv, HealthInv, Zenon
<1>7. CASE \E s \in Apps \X Policies : WindowSlides(s) BY <1>7, HealthInv, Zenon
<1> QED BY <1>1, <1>2, <1>3, <1>4, <1>5, <1>6, <1>7, Zenon DEF CanaryNext

\* Rows, audit trail, sweep and hot paths stay consistent whatever the calls, the
\* sweeps, their failures and the restarts between them.
THEOREM RolloutInvariant == ASSUME CanaryConstantsOK PROVE CanarySpec => []IInv
<1>1. CanaryInit => IInv BY InitInv, Zenon
<1>2. IInv /\ [CanaryNext]_canaryVars => IInv' BY NextInv, Zenon
<1> QED BY <1>1, <1>2, PTL DEF CanarySpec

\* Every rollout row, call, listing and snapshot is well formed.
THEOREM RolloutTyped == ASSUME CanaryConstantsOK PROVE CanarySpec => []CanaryTypeOK
<1>1. IInv => CanaryTypeOK
  <2> SUFFICES ASSUME IInv PROVE CanaryTypeOK BY Zenon
  <2>1. audit \in Seq(Events) /\ listedAt \in Nat /\ listedAt <= Len(audit) BY Zenon DEF IInv, Typed, TRows, TSweep
  <2>2. \A k \in DOMAIN audit : audit[k] \in Events BY <2>1
  <2>3. \A k \in DOMAIN audit : audit[k].app \in Apps /\ audit[k].candidate \in Policies BY <2>2, Zenon DEF Events
  <2>4. listedAt \in 0 .. Len(audit) BY <2>1
  <2> QED BY <2>3, <2>4, Zenon DEF IInv, Typed, TRows, TActive, TCalls, TSweep, THealth, TRestarts, CanaryTypeOK
<1> QED BY <1>1, RolloutInvariant, PTL

\* However many sweeps, administrators and restarts interleave, an automatic rollback
\* that no change preceded since its listing ends the rollout whose candidate was
\* assessed (evaluateOnce, RollbackCanary).
THEOREM RollbackSafety == ASSUME CanaryConstantsOK PROVE CanarySpec => []AutoRollbackSound
<1>1. IInv => AutoRollbackSound BY Zenon DEF IInv
<1> QED BY <1>1, RolloutInvariant, PTL

\* Whatever a device was ever served was active once or set as its app's candidate at a
\* percentage that includes the device, however stale the snapshot (GetConfig, InCanary).
THEOREM ServedSafety == ASSUME CanaryConstantsOK PROVE CanarySpec => []ServedExplained
<1>1. IInv => ServedExplained BY Zenon DEF IInv
<1> QED BY <1>1, RolloutInvariant, PTL

-----------------------------------------------------------------------------
(* ConfigDelivery.                                                         *)

\* A switch with a version.
Versioned(ks) == ks.version \in Nat

\* The fields of a fetch, and what its answer holds once it is sent.
FetchShape(r) ==
    /\ r \in [pc : {r.pc}, inm : {r.inm}, holds : {r.holds}, policy : {r.policy}, candidate : {r.candidate},
              ks : {r.ks}, answer : {r.answer}]
    /\ r.pc = "sent" => r.answer.ks = Nothing \/ Versioned(r.answer.ks)

DeviceShape(d) ==
    d \in [etag : {d.etag}, body : {d.body}, version : {d.version}, killed : {d.killed}, seen : [SwitchScopes -> Nat]]

\* Every switch stored, on its way or accepted has a version.
ConfigInv ==
    /\ \A ks \in switches : Versioned(ks)
    /\ fetch = [f \in Fetches |-> fetch[f]] /\ \A f \in Fetches : FetchShape(fetch[f])
    /\ DeviceShape(device)
    /\ events \in Nat

\* A switch in effect is one of the tenant's (resolveEffective).
LEMMA EffectiveIsStored ==
    LET ks == Kill!GetKillSwitchState(switches, App, Build).active IN ks = Nothing \/ ks \in switches
<1> DEFINE found == {ks \in switches : Kill!matches(ks, App, Build)}
           Best(ks) == \A other \in found : Kill!specificity(other) <= Kill!specificity(ks)
<1>1. \A ks : Kill!specificity(ks) \in {0, 1, 2, 3}
  BY DEF Kill!specificity
<1>2. found # {} => \E ks \in found : Best(ks)
  BY <1>1
<1>3. Kill!resolveEffective(switches, App, Build) = IF found = {} THEN Nothing ELSE CHOOSE ks \in found : Best(ks)
  BY Zenon DEF Kill!resolveEffective
<1>4. Kill!resolveEffective(switches, App, Build) = Nothing \/ Kill!resolveEffective(switches, App, Build) \in found
  <2> HIDE DEF Best
  <2>1. found # {} => (CHOOSE ks \in found : Best(ks)) \in found
    BY <1>2, Zenon
  <2>2. QED
    BY <1>3, <2>1, Zenon
<1>5. Kill!GetKillSwitchState(switches, App, Build).active = Kill!resolveEffective(switches, App, Build)
  BY DEF Kill!GetKillSwitchState
<1>6. QED
  BY <1>4, <1>5, Zenon

\* What the core does with a switch keeps its record and only raises versions
\* (apply_kill_switch); a config does not touch them (load_config).
LEMMA ApplyRaises ==
    ASSUME NEW d, DeviceShape(d), NEW ks, Versioned(ks)
    PROVE  /\ DeviceShape(apply_kill_switch(d, ks))
           /\ \A s \in SwitchScopes : apply_kill_switch(d, ks).seen[s] >= d.seen[s]
<1> DEFINE s0 == <<ks.app, ks.build>>
           k == ks.command = "disable"
           n == [d EXCEPT !.seen = [d.seen EXCEPT ![s0] = ks.version], !.killed = k]
<1>1. d.seen \in [SwitchScopes -> Nat] /\ ks.version \in Nat
  BY DEF DeviceShape, Versioned
<1>2. apply_kill_switch(d, ks) = d \/ (apply_kill_switch(d, ks) = n /\ ~(ks.version < d.seen[s0]))
  BY Zenon DEF apply_kill_switch
<1> HIDE DEF k, s0
<1>3. DeviceShape(n) /\ n.seen = [d.seen EXCEPT ![s0] = ks.version]
  <2> DEFINE sn == [d.seen EXCEPT ![s0] = ks.version]
  <2>1. sn \in [SwitchScopes -> Nat]
    BY <1>1
  <2> HIDE DEF sn
  <2>2. [d EXCEPT !.seen = sn, !.killed = k] \in
            [etag : {d.etag}, body : {d.body}, version : {d.version}, killed : {k}, seen : [SwitchScopes -> Nat]]
    BY <2>1 DEF DeviceShape
  <2>3. n.seen = sn /\ n \in [etag : {d.etag}, body : {d.body}, version : {d.version}, killed : {k},
                              seen : [SwitchScopes -> Nat]]
    BY <2>2 DEF sn, DeviceShape
  <2> HIDE DEF n
  <2>4. DeviceShape(n)
    BY <2>3 DEF DeviceShape
  <2>5. QED
    BY <2>3, <2>4 DEF sn
<1> HIDE DEF n
<1>4. \A s \in SwitchScopes : d.seen[s] >= d.seen[s]
  BY <1>1
<1>5. ~(ks.version < d.seen[s0]) => \A s \in SwitchScopes : n.seen[s] >= d.seen[s]
  BY <1>1, <1>3
<1>6. QED
  BY <1>2, <1>3, <1>4, <1>5, Zenon
\* A config, loaded or refused, leaves the versions of switches alone (load_config).
LEMMA LoadKeeps ==
    ASSUME NEW d, DeviceShape(d), NEW c, NEW e, NEW b
    PROVE  LET n == [load_config(d, c) EXCEPT !.etag = e, !.body = b] IN DeviceShape(n) /\ n.seen = d.seen
<1> DEFINE m == load_config(d, c)
           n == [m EXCEPT !.etag = e, !.body = b]
<1>1. m = d \/ m = [d EXCEPT !.version = c.version]
  BY Zenon DEF load_config
<1> HIDE DEF m
<1>2. DeviceShape(m) /\ m.seen = d.seen
  BY <1>1 DEF DeviceShape
<1>3. /\ n \in [etag : {e}, body : {b}, version : {m.version}, killed : {m.killed}, seen : [SwitchScopes -> Nat]]
      /\ n.seen = m.seen
  BY <1>2 DEF DeviceShape
<1> HIDE DEF n
<1>4. DeviceShape(n) /\ n.seen = d.seen
  BY <1>2, <1>3 DEF DeviceShape
<1>5. QED
  BY <1>4, Zenon DEF n, m

\* A fetch that moves leaves the others as they are.
LEMMA OneFetches ==
    ASSUME ConfigInv, NEW f \in Fetches, NEW n, FetchShape(n), fetch' = [fetch EXCEPT ![f] = n]
    PROVE  (fetch = [g \in Fetches |-> fetch[g]])' /\ \A g \in Fetches : FetchShape(fetch[g])'
<1>1. fetch = [g \in Fetches |-> fetch[g]] /\ \A g \in Fetches : FetchShape(fetch[g])
  BY DEF ConfigInv
<1>2. fetch' = [g \in Fetches |-> IF g = f THEN n ELSE fetch[g]]
  BY <1>1
<1>3. \A g \in Fetches : fetch'[g] = n \/ fetch'[g] = fetch[g]
  BY <1>2
<1>4. fetch' = [g \in Fetches |-> fetch'[g]]
  BY <1>2
<1>5. \A g \in Fetches : FetchShape(fetch'[g])
  BY <1>1, <1>3, Zenon
<1>6. QED
  BY <1>4, <1>5, Zenon

\* An idle fetch has the fields of a fetch.
LEMMA NotFetchingShape == FetchShape(NotFetching)
BY DEF FetchShape, NotFetching

\* A switch is issued with the next version of its scope (IssueKillSwitch).
LEMMA IssueKeeps ==
    ASSUME ConfigInv, NEW s \in SwitchScopes, NEW command \in {"enable", "disable"}, IssueKillSwitch(s, command)
    PROVE  \A ks \in switches' : Versioned(ks)
<1> DEFINE old == {ks \in switches : <<ks.app, ks.build>> = s}
           version == IF old = {} THEN 1 ELSE (CHOOSE ks \in old : TRUE).version + 1
           new == Kill!NewKillSwitch(Tenant, s[1], s[2], command, version, events, FirstKey)
<1>1. \A ks \in switches : ks.version \in Nat
  BY DEF ConfigInv, Versioned
<1>2. version \in Nat
  <2>1. CASE old = {}
    BY <2>1
  <2>2. CASE old # {}
    <3>1. (CHOOSE ks \in old : TRUE) \in old
      BY <2>2
    <3>2. (CHOOSE ks \in old : TRUE).version \in Nat
      BY <1>1, <3>1
    <3>3. QED
      BY <2>2, <3>2
  <2>3. QED
    BY <2>1, <2>2
<1>3. switches' = (switches \ old) \cup {new}
  BY Zenon DEF IssueKillSwitch
<1> HIDE DEF version
<1>4. new.version = version
  BY DEF Kill!NewKillSwitch, Kill!signKillSwitch
<1> HIDE DEF new
<1>5. QED
  BY <1>1, <1>2, <1>3, <1>4 DEF Versioned

\* What a device receives raises the versions it has seen or leaves them
\* (ReceiveConfig: load_config, then apply_kill_switch).
LEMMA ReceiveRaises ==
    ASSUME ConfigInv, NEW f \in Fetches, ReceiveConfig(f)
    PROVE  DeviceShape(device') /\ \A s \in SwitchScopes : device'.seen[s] >= device.seen[s]
<1> DEFINE r == fetch[f].answer
           loaded == IF r.config = Nothing THEN device
                     ELSE [load_config(device, r.config) EXCEPT !.etag = r.etag, !.body = Body(r.config.version, r.ks)]
<1>1. device' = IF r.ks = Nothing THEN loaded ELSE apply_kill_switch(loaded, r.ks)
  BY Zenon DEF ReceiveConfig
<1>2. DeviceShape(device) /\ (r.ks = Nothing \/ Versioned(r.ks))
  BY Zenon DEF ConfigInv, FetchShape, ReceiveConfig
<1> HIDE DEF r
<1>3. DeviceShape(loaded) /\ loaded.seen = device.seen
  <2>1. CASE r.config = Nothing
    BY <1>2, <2>1, Zenon
  <2>2. CASE r.config # Nothing
    <3>1. \A c, e, b : LET n == [load_config(device, c) EXCEPT !.etag = e, !.body = b]
                       IN  DeviceShape(n) /\ n.seen = device.seen
      BY <1>2, LoadKeeps
    <3>2. QED
      BY <2>2, <3>1, Zenon
  <2>3. QED
    BY <2>1, <2>2, Zenon
<1> HIDE DEF loaded
<1>4. CASE r.ks = Nothing
  <2>1. device' = loaded
    BY <1>1, <1>4, Zenon
  <2>2. \A s \in SwitchScopes : device.seen[s] >= device.seen[s]
    BY <1>2 DEF DeviceShape
  <2>3. QED
    BY <1>3, <2>1, <2>2, Zenon
<1>5. CASE r.ks # Nothing
  BY <1>1, <1>2, <1>3, <1>5, ApplyRaises, Zenon
<1>6. QED
  BY <1>4, <1>5, Zenon
\* What a switch is resolved to has a version.
LEMMA ResolvedVersioned ==
    ASSUME ConfigInv, NEW failed \in BOOLEAN
    PROVE  resolveKillSwitch(failed) = Nothing \/ Versioned(resolveKillSwitch(failed))
BY EffectiveIsStored, Zenon DEF ConfigInv, resolveKillSwitch

\* An answer holds a switch with a version, or none (GetConfig).
LEMMA GetConfigKeeps ==
    ASSUME ConfigInv, NEW f \in Fetches, NEW failed \in BOOLEAN, GetConfig(f, failed)
    PROVE  (fetch = [g \in Fetches |-> fetch[g]])' /\ \A g \in Fetches : FetchShape(fetch[g])'
<1> DEFINE r == fetch[f]
           ks == resolveKillSwitch(failed)
           etag == Etag(r.policy, ks)
           full == [etag |-> etag, config |-> Config(r.policy), ks |-> ks, shared |-> ~r.candidate /\ ks = Nothing]
           short == [etag |-> etag, config |-> Nothing, ks |-> Nothing, shared |-> FALSE]
           answer == IF r.inm = etag THEN short ELSE full
           n == [r EXCEPT !.pc = "sent", !.ks = ks, !.answer = answer]
<1>1. FetchShape(r) /\ (ks = Nothing \/ Versioned(ks)) /\ fetch = [g \in Fetches |-> fetch[g]]
  BY ResolvedVersioned, Zenon DEF ConfigInv
<1>2. fetch' = [fetch EXCEPT ![f].pc = "sent", ![f].ks = ks, ![f].answer = answer]
  BY Zenon DEF GetConfig
<1> HIDE DEF ks, etag
<1>3. full.ks = ks /\ short.ks = Nothing
  OBVIOUS
<1> HIDE DEF full, short
<1>4. answer.ks = ks \/ answer.ks = Nothing
  BY <1>3, Zenon
<1> HIDE DEF answer
<1>5. fetch' = [fetch EXCEPT ![f] = n]
  BY <1>1, <1>2
<1> HIDE DEF r
<1>6. n \in [pc : {"sent"}, inm : {r.inm}, holds : {r.holds}, policy : {r.policy}, candidate : {r.candidate},
             ks : {ks}, answer : {answer}]
  BY <1>1 DEF FetchShape
<1> HIDE DEF n
<1>7. FetchShape(n)
  <2>1. n.answer = answer
    BY <1>6
  <2>2. n \in [pc : {n.pc}, inm : {n.inm}, holds : {n.holds}, policy : {n.policy}, candidate : {n.candidate},
               ks : {n.ks}, answer : {n.answer}]
    BY <1>6
  <2>3. QED
    BY <1>1, <1>4, <2>1, <2>2, Zenon DEF FetchShape
<1>8. QED
  BY <1>5, <1>7, OneFetches, Zenon

\* The policy is resolved before the switch (resolvePolicy).
LEMMA ResolvePolicyKeeps ==
    ASSUME ConfigInv, NEW f \in Fetches, resolvePolicy(f)
    PROVE  (fetch = [g \in Fetches |-> fetch[g]])' /\ \A g \in Fetches : FetchShape(fetch[g])'
<1> DEFINE r == fetch[f]
<1>1. FetchShape(r) /\ fetch = [g \in Fetches |-> fetch[g]]
  BY Zenon DEF ConfigInv
<1>2. PICK canary : fetch' = [fetch EXCEPT ![f].pc = "answer", ![f].policy = IF canary THEN cand ELSE inForce,
                                           ![f].candidate = canary]
  BY Zenon DEF resolvePolicy
<1> DEFINE p == IF canary THEN cand ELSE inForce
<1>3. fetch' = [fetch EXCEPT ![f] = [r EXCEPT !.pc = "answer", !.policy = p, !.candidate = canary]]
  BY <1>1, <1>2
<1> DEFINE m == [r EXCEPT !.pc = "answer", !.policy = p, !.candidate = canary]
<1> HIDE DEF p, r
<1>4. m \in [pc : {"answer"}, inm : {r.inm}, holds : {r.holds}, policy : {p}, candidate : {canary},
             ks : {r.ks}, answer : {r.answer}]
  BY <1>1 DEF FetchShape
<1> HIDE DEF m
<1>5. FetchShape(m)
  BY <1>4 DEF FetchShape
<1>6. QED
  BY <1>3, <1>5, OneFetches, Zenon DEF m

\* A fetch starts with the tag and the body that the host holds.
LEMMA RequestKeeps ==
    ASSUME ConfigInv, NEW f \in Fetches, Request(f)
    PROVE  (fetch = [g \in Fetches |-> fetch[g]])' /\ \A g \in Fetches : FetchShape(fetch[g])'
<1> DEFINE e == device.etag
           b == device.body
           m == [NotFetching EXCEPT !.pc = "policy", !.inm = e, !.holds = b]
<1>1. fetch' = [fetch EXCEPT ![f] = m]
  BY Zenon DEF Request
<1> HIDE DEF e, b
<1>2. m \in [pc : {"policy"}, inm : {e}, holds : {b}, policy : {0}, candidate : {FALSE}, ks : {Nothing}, answer : {Nothing}]
  BY DEF NotFetching
<1> HIDE DEF m
<1>3. FetchShape(m)
  BY <1>2 DEF FetchShape
<1>4. QED
  BY <1>1, <1>3, OneFetches, Zenon

\* Nothing has been issued, fetched or accepted at the start.
LEMMA ConfigStart == ConfigInit => ConfigInv
<1> SUFFICES ASSUME ConfigInit PROVE ConfigInv
  OBVIOUS
<1>1. DeviceShape(Fresh)
  BY DEF DeviceShape, Fresh
<1>2. fetch = [f \in Fetches |-> fetch[f]] /\ \A f \in Fetches : FetchShape(fetch[f])
  BY NotFetchingShape, Zenon DEF ConfigInit
<1>3. QED
  BY <1>1, <1>2 DEF ConfigInit, ConfigInv

\* Every step keeps the invariant, and none but a restart lowers a version.
LEMMA ConfigStep ==
    ASSUME ConfigInv, [ConfigNext]_configVars
    PROVE  ConfigInv' /\ SeenGrows
<1> DEFINE Fetching == fetch = [g \in Fetches |-> fetch[g]] /\ \A g \in Fetches : FetchShape(fetch[g])
           Grows == \A s \in SwitchScopes : device'.seen[s] >= device.seen[s]
<1>1. Fetching /\ DeviceShape(device) /\ events \in Nat /\ \A ks \in switches : Versioned(ks)
  BY DEF ConfigInv
<1>2. device' = device => Grows
  BY <1>1 DEF DeviceShape
<1>3. events' = events \/ events' = events + 1 => events' \in Nat
  BY <1>1
<1>4. fetch' = fetch => Fetching'
  BY <1>1, Zenon
<1>5. SUFFICES /\ \A ks \in switches' : Versioned(ks)
               /\ Fetching'
               /\ DeviceShape(device')
               /\ events' = events \/ events' = events + 1
               /\ device' # Fresh => Grows
  BY <1>3, Zenon DEF ConfigInv, SeenGrows
<1> HIDE DEF Grows, Fetching
<1>6. ASSUME NEW p, ActivateVersion(p) \/ RolloutChanges(p)
      PROVE  switches' = switches /\ fetch' = fetch /\ device' = device /\ events' = events + 1
  BY <1>6 DEF ActivateVersion, RolloutChanges, Counted
<1>7. ASSUME NEW s \in SwitchScopes, NEW command \in {"enable", "disable"}, IssueKillSwitch(s, command)
      PROVE  /\ \A ks \in switches' : Versioned(ks)
             /\ fetch' = fetch /\ device' = device /\ events' = events + 1
  BY <1>7, IssueKeeps, Zenon DEF IssueKillSwitch, Counted
<1>8. ASSUME NEW f \in Fetches, Request(f) \/ resolvePolicy(f) \/ (\E failed \in BOOLEAN : GetConfig(f, failed))
      PROVE  switches' = switches /\ Fetching' /\ device' = device /\ (events' = events \/ events' = events + 1)
  <2>1. Fetching'
    BY <1>8, RequestKeeps, ResolvePolicyKeeps, GetConfigKeeps, Zenon DEF Fetching
  <2>2. switches' = switches /\ device' = device /\ (events' = events \/ events' = events + 1)
    BY <1>8, Zenon DEF Request, resolvePolicy, GetConfig, Counted
  <2>3. QED
    BY <2>1, <2>2, Zenon
<1>9. ASSUME NEW f \in Fetches, ReceiveConfig(f) PROVE switches' = switches /\ Fetching' /\ DeviceShape(device') /\ Grows /\ events' = events
  <2>1. Fetching'
    <3>1. fetch' = [fetch EXCEPT ![f] = NotFetching]
      BY <1>9, Zenon DEF ReceiveConfig
    <3>2. QED
      BY <3>1, NotFetchingShape, OneFetches, Zenon DEF Fetching
  <2>2. switches' = switches /\ events' = events
    BY <1>9 DEF ReceiveConfig
  <2>3. QED
    BY <1>9, <2>1, <2>2, ReceiveRaises, Zenon DEF Grows
<1>10. ASSUME NEW f \in Fetches, Lose(f) PROVE switches' = switches /\ Fetching' /\ device' = device /\ events' = events + 1
  <2>1. fetch' = [fetch EXCEPT ![f] = NotFetching] /\ switches' = switches /\ device' = device /\ events' = events + 1
    BY <1>10 DEF Lose, Counted
  <2>2. QED
    BY <2>1, NotFetchingShape, OneFetches, Zenon DEF Fetching
<1>11. CASE DeviceRestarts
  <2>1. device' = Fresh /\ fetch' = [f \in Fetches |-> NotFetching] /\ switches' = switches /\ events' = events + 1
    BY <1>11 DEF DeviceRestarts, Counted
  <2>2. DeviceShape(Fresh)
    BY DEF DeviceShape, Fresh
  <2>3. Fetching'
    BY <2>1, NotFetchingShape, Zenon DEF Fetching
  <2>4. QED
    BY <1>1, <2>1, <2>2, <2>3, Zenon
<1>12. CASE UNCHANGED configVars
  <2>1. switches' = switches /\ fetch' = fetch /\ device' = device /\ events' = events
    BY <1>12 DEF configVars
  <2>2. QED
    BY <1>1, <1>2, <1>4, <2>1, Zenon
<1>13. CASE ConfigNext
  BY <1>1, <1>2, <1>4, <1>6, <1>7, <1>8, <1>9, <1>10, <1>11, <1>13, Zenon DEF ConfigNext, Step
<1>14. QED
  BY <1>12, <1>13, Zenon

\* Every switch stored, sent and accepted has a version, whatever is lost,
\* fails or restarts (IssueKillSwitch, GetConfig, apply_kill_switch).
THEOREM ConfigInvariant == ConfigSpec => []ConfigInv
<1>1. ConfigInv /\ [ConfigNext]_configVars => ConfigInv'
  BY ConfigStep, Zenon
<1>2. QED
  BY <1>1, ConfigStart, PTL DEF ConfigSpec

\* For any scopes, policies and fetches under way: in whatever order answers
\* arrive, the core never goes back to an older switch of a scope; only a
\* restart forgets what it has seen (apply_kill_switch).
THEOREM SwitchesOnlySucceed == ConfigSpec => SupersededStaysSuperseded
<1>1. ConfigInv /\ [ConfigNext]_configVars => [SeenGrows]_configVars
  BY ConfigStep, Zenon
<1>2. QED
  BY <1>1, ConfigInvariant, PTL DEF ConfigSpec, SupersededStaysSuperseded
=============================================================================
