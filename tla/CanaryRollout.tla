---------------------------- MODULE CanaryRollout ----------------------------
(***************************************************************************)
(* Staged policy rollout for the apps of one tenant: the administrators'   *)
(* calls, the rollout rows and their audit trail in the database, the      *)
(* auto-rollback controller with the in-memory snapshot it publishes, and  *)
(* the hot paths that read the snapshot, serving a policy to an instance   *)
(* and counting its decisions.  Each database transaction is one step.     *)
(***************************************************************************)
EXTENDS Integers, Sequences, FiniteSets

CONSTANTS
    Apps, Policies, Instances,
    TenantWide,    \* the scope of a policy without an app
    AppOf,         \* AppOf[p]: an app, or TenantWide
    HomeApp,       \* HomeApp[i]: the app of an instance
    BucketOf,      \* BucketOf[i]: the hash bucket of an instance, 0 .. 99
    Percents,      \* percentages an administrator sets
    Calls,         \* administrators' calls in progress at once
    MinSamples, Threshold,  \* of the controller; Threshold in percent
    None,
    MaxSamples, MaxChanges, MaxRestarts  \* bounds on the behaviours explored

Scopes == Apps \cup {TenantWide}

\* What the constants stand for; a hypothesis of the theorems.
CanaryConstantsOK ==
    /\ None \notin Apps
    /\ \A p \in Policies : AppOf[p] \in Scopes
    /\ \A i \in Instances : HomeApp[i] \in Apps /\ BucketOf[i] \in 0 .. 99
    /\ Percents \subseteq 0 .. 100
    /\ MaxSamples \in Nat /\ MaxRestarts \in Nat

VARIABLES
    active,     \* registry: the active policy of each scope
    state, candidate, stable, percent,  \* the rollout row of each app
    audit,      \* the tenant's audit events about rollouts
    call,       \* an administrator's call, between two transactions
    sweepPc,    \* controller: "idle", "listed" or "assessing"
    listing,    \* controller: the active rollouts it listed, as copies
    listedAt,   \* history: the length of the audit trail at the listing
    todo,       \* controller: listed apps not assessed yet
    firing,     \* controller: the app whose rollback it is about to write
    snapshot,   \* canary.Registry: the rollouts the hot paths see
    total, blocked,  \* guardrails detector: decisions in the window
    fetching,   \* the active policy a GetConfig has read
    served,     \* history: the policies an instance was ever served
    activated,  \* history: the policies that were ever active
    restarts

rowVars == <<state, candidate, stable, percent, audit>>
sweepVars == <<sweepPc, listing, listedAt, todo, firing>>
healthVars == <<total, blocked>>
deviceVars == <<fetching, served>>
canaryVars == <<active, activated, rowVars, call, sweepVars, snapshot, healthVars, deviceVars, restarts>>

Idle == [at |-> "idle"]

CanaryInit ==
    /\ active = [s \in Scopes |-> None] /\ activated = {}
    /\ state = [a \in Apps |-> "none"] /\ candidate = [a \in Apps |-> None]
    /\ stable = [a \in Apps |-> None] /\ percent = [a \in Apps |-> 0]
    /\ audit = <<>>
    /\ call = [c \in Calls |-> Idle]
    /\ sweepPc = "idle" /\ listing = [a \in Apps |-> None] /\ listedAt = 0
    /\ todo = {} /\ firing = None
    /\ snapshot = [a \in Apps |-> None]
    /\ total = [s \in Apps \X Policies |-> 0] /\ blocked = [s \in Apps \X Policies |-> 0]
    /\ fetching = [i \in Instances |-> None] /\ served = [i \in Instances |-> {}]
    /\ restarts = 0

-----------------------------------------------------------------------------
(* The registry's policies.                                                *)

\* An app's own active policy hides the tenant-wide one.
GetActivePolicy(a) == IF active[a] # None THEN active[a] ELSE active[TenantWide]

ActivatePolicy(p) ==
    /\ active' = [active EXCEPT ![AppOf[p]] = p]
    /\ activated' = activated \cup {p}

\* The registry service's own ActivatePolicy call.
Activate(p) ==
    /\ ActivatePolicy(p)
    /\ UNCHANGED <<rowVars, call, sweepVars, snapshot, healthVars, deviceVars, restarts>>

-----------------------------------------------------------------------------
(* Rollout rows.  Every write appends its audit event in the same          *)
(* transaction.  The fields observed and since of an event are history: of *)
(* the controller's rollbacks, the candidate assessed and when it listed.  *)

Event(a, action, actor, cand) ==
    [app |-> a, action |-> action, actor |-> actor, candidate |-> cand, percent |-> percent'[a],
     observed |-> IF actor = "system" THEN listing[a].candidate ELSE None,
     since |-> listedAt]

MayChange == Cardinality({k \in DOMAIN audit : audit[k].actor = "admin"}) < MaxChanges

\* A stable policy the caller could not resolve keeps the recorded one.
StoreSetCanary(a, cand, stab, pct) ==
    /\ state' = [state EXCEPT ![a] = "active"]
    /\ candidate' = [candidate EXCEPT ![a] = cand]
    /\ stable' = [stable EXCEPT ![a] = IF stab # None THEN stab ELSE @]
    /\ percent' = [percent EXCEPT ![a] = pct]
    /\ audit' = Append(audit, Event(a, "set", "admin", cand))

\* Neither the row's state nor its candidate is compared with what the caller read.
StorePromoteCanary(a) ==
    /\ state' = [state EXCEPT ![a] = "promoted"]
    /\ percent' = [percent EXCEPT ![a] = 100]
    /\ stable' = [stable EXCEPT ![a] = candidate[a]]
    /\ audit' = Append(audit, Event(a, "promote", "admin", candidate[a]))
    /\ UNCHANGED candidate

StoreRollbackCanary(a, actor) ==
    /\ state' = [state EXCEPT ![a] = "rolled_back"]
    /\ percent' = [percent EXCEPT ![a] = 0]
    /\ audit' = Append(audit, Event(a, "rollback", actor, candidate[a]))
    /\ UNCHANGED <<candidate, stable>>

-----------------------------------------------------------------------------
(* Administrators' calls.  A call may fail before any of its transactions; *)
(* what it wrote before stays written.                                     *)

SetCanaryRollout(c, a, cand, pct) ==
    /\ call[c] = Idle /\ MayChange
    /\ AppOf[cand] \in {TenantWide, a}
    /\ call' = [call EXCEPT ![c] = [at |-> "set", app |-> a, candidate |-> cand, percent |-> pct,
                                    stable |-> GetActivePolicy(a)]]
    /\ UNCHANGED <<active, activated, rowVars, sweepVars, snapshot, healthVars, deviceVars, restarts>>

SetCanary(c) ==
    /\ call[c].at = "set" /\ MayChange
    /\ StoreSetCanary(call[c].app, call[c].candidate, call[c].stable, call[c].percent)
    /\ call' = [call EXCEPT ![c] = Idle]
    /\ UNCHANGED <<active, activated, sweepVars, snapshot, healthVars, deviceVars, restarts>>

PromoteCanary(c, a) ==
    /\ call[c] = Idle /\ MayChange
    /\ state[a] # "none"
    /\ call' = [call EXCEPT ![c] = [at |-> "activate", app |-> a, candidate |-> candidate[a]]]
    /\ UNCHANGED <<active, activated, rowVars, sweepVars, snapshot, healthVars, deviceVars, restarts>>

PromoteActivate(c) ==
    /\ call[c].at = "activate"
    /\ ActivatePolicy(call[c].candidate)
    /\ call' = [call EXCEPT ![c] = [at |-> "mark", app |-> call[c].app]]
    /\ UNCHANGED <<rowVars, sweepVars, snapshot, healthVars, deviceVars, restarts>>

PromoteMark(c) ==
    /\ call[c].at = "mark" /\ MayChange
    /\ StorePromoteCanary(call[c].app)
    /\ call' = [call EXCEPT ![c] = Idle]
    /\ UNCHANGED <<active, activated, sweepVars, snapshot, healthVars, deviceVars, restarts>>

RollbackCanary(a) ==
    /\ MayChange /\ state[a] # "none"
    /\ StoreRollbackCanary(a, "admin")
    /\ UNCHANGED <<active, activated, call, sweepVars, snapshot, healthVars, deviceVars, restarts>>

CallFails(c) ==
    /\ call[c] # Idle
    /\ call' = [call EXCEPT ![c] = Idle]
    /\ UNCHANGED <<active, activated, rowVars, sweepVars, snapshot, healthVars, deviceVars, restarts>>

-----------------------------------------------------------------------------
(* The controller's sweep: list, publish, then assess the listed rollouts  *)
(* one by one.                                                             *)

\* The copies the store returns; None where the app has no active rollout.
Listing(listed) ==
    [a \in Apps |-> IF a \in listed
                    THEN [candidate |-> candidate[a], stable |-> stable[a], percent |-> percent[a]]
                    ELSE None]

\* Mutant: every rollout is listed, whatever its state.
ListActiveAll ==
    /\ sweepPc = "idle"
    /\ listing' = Listing({a \in Apps : state[a] # "none"})
    /\ listedAt' = Len(audit) /\ sweepPc' = "listed"
    /\ UNCHANGED <<active, activated, rowVars, call, todo, firing, snapshot, healthVars, deviceVars, restarts>>

\* A listing that fails ends the sweep and leaves everything as it was.
ListActive ==
    /\ sweepPc = "idle"
    /\ listing' = Listing({a \in Apps : state[a] = "active"})
    /\ listedAt' = Len(audit) /\ sweepPc' = "listed"
    /\ UNCHANGED <<active, activated, rowVars, call, todo, firing, snapshot, healthVars, deviceVars, restarts>>

Replace ==
    /\ sweepPc = "listed"
    /\ snapshot' = listing
    /\ todo' = {a \in Apps : listing[a] # None} /\ sweepPc' = "assessing"
    /\ UNCHANGED <<active, activated, rowVars, call, listing, listedAt, firing, healthVars, deviceVars, restarts>>

\* The health of the listed candidate breaches the threshold.
Breached(a, cand) ==
    /\ total[<<a, cand>>] >= MinSamples
    /\ blocked[<<a, cand>>] * 100 > Threshold * total[<<a, cand>>]

Assess(a) ==
    /\ sweepPc = "assessing" /\ firing = None /\ a \in todo
    /\ todo' = todo \ {a}
    /\ firing' = IF Breached(a, listing[a].candidate) THEN a ELSE None
    /\ UNCHANGED <<active, activated, rowVars, call, sweepPc, listing, listedAt, snapshot, healthVars, deviceVars, restarts>>

AutoRollback(a) ==
    /\ firing = a
    /\ StoreRollbackCanary(a, "system")
    /\ firing' = None
    /\ UNCHANGED <<active, activated, call, sweepPc, listing, listedAt, todo, snapshot, healthVars, deviceVars, restarts>>

\* Mutant: an error ends the sweep.
AutoRollbackFailsReturning(a) ==
    /\ firing = a
    /\ firing' = None /\ todo' = {}
    /\ UNCHANGED <<active, activated, rowVars, call, sweepPc, listing, listedAt, snapshot, healthVars, deviceVars, restarts>>

\* The error is logged and the sweep goes on.
AutoRollbackFails(a) ==
    /\ firing = a
    /\ firing' = None
    /\ UNCHANGED <<active, activated, rowVars, call, sweepPc, listing, listedAt, todo, snapshot, healthVars, deviceVars, restarts>>

SweepEnds ==
    /\ sweepPc = "assessing" /\ todo = {} /\ firing = None
    /\ sweepPc' = "idle" /\ listing' = [a \in Apps |-> None] /\ listedAt' = 0
    /\ UNCHANGED <<active, activated, rowVars, call, todo, firing, snapshot, healthVars, deviceVars, restarts>>

-----------------------------------------------------------------------------
(* The hot paths.                                                          *)

\* Mutant: the percentage is inclusive.
InCanaryInclusive(i, pct) == BucketOf[i] <= pct

InCanary(i, pct) == pct # 0 /\ (pct >= 100 \/ BucketOf[i] < pct)

\* The policy an instance runs while a rollout of its app is in the snapshot.
Cohort(i) ==
    LET r == snapshot[HomeApp[i]] IN IF InCanary(i, r.percent) THEN r.candidate ELSE r.stable

\* GetConfig reads the active policy, without which there is no config.
ReadActivePolicy(i) ==
    /\ fetching[i] = None /\ GetActivePolicy(HomeApp[i]) # None
    /\ fetching' = [fetching EXCEPT ![i] = GetActivePolicy(HomeApp[i])]
    /\ UNCHANGED <<active, activated, rowVars, call, sweepVars, snapshot, healthVars, served, restarts>>

\* It then serves the candidate to the candidate's cohort, or, when the
\* candidate cannot be read, the active policy as to everyone else.
ResolvePolicy(i) ==
    /\ fetching[i] # None
    /\ LET r == snapshot[HomeApp[i]] IN
       \E p \in {fetching[i]} \cup (IF r # None /\ InCanary(i, r.percent) THEN {r.candidate} ELSE {}) :
          served' = [served EXCEPT ![i] = @ \cup {p}]
    /\ fetching' = [fetching EXCEPT ![i] = None]
    /\ UNCHANGED <<active, activated, rowVars, call, sweepVars, snapshot, healthVars, restarts>>

RecordDecision(s, deny) ==
    /\ total' = [total EXCEPT ![s] = @ + 1]
    /\ blocked' = [blocked EXCEPT ![s] = IF deny THEN @ + 1 ELSE @]

\* A request proof of the instance was decided.
RecordCanaryHealth(i, deny) ==
    /\ snapshot[HomeApp[i]] # None /\ Cohort(i) # None
    /\ LET s == <<HomeApp[i], Cohort(i)>> IN total[s] < MaxSamples /\ RecordDecision(s, deny)
    /\ UNCHANGED <<active, activated, rowVars, call, sweepVars, snapshot, deviceVars, restarts>>

\* The detector's window moves on and some decisions leave it.
WindowSlides(s) ==
    /\ \E t \in 0 .. total[s] - 1, b \in 0 .. blocked[s] :
          /\ b <= t /\ blocked[s] - b <= total[s] - t
          /\ total' = [total EXCEPT ![s] = t] /\ blocked' = [blocked EXCEPT ![s] = b]
    /\ UNCHANGED <<active, activated, rowVars, call, sweepVars, snapshot, deviceVars, restarts>>

\* The server stops and starts: only the database and the devices remember.
ServerRestarts ==
    /\ restarts < MaxRestarts /\ restarts' = restarts + 1
    /\ call' = [c \in Calls |-> Idle]
    /\ sweepPc' = "idle" /\ listing' = [a \in Apps |-> None] /\ listedAt' = 0
    /\ todo' = {} /\ firing' = None
    /\ snapshot' = [a \in Apps |-> None]
    /\ total' = [s \in Apps \X Policies |-> 0] /\ blocked' = [s \in Apps \X Policies |-> 0]
    /\ fetching' = [i \in Instances |-> None]
    /\ UNCHANGED <<active, activated, rowVars, served>>

-----------------------------------------------------------------------------

CanaryNext ==
    \/ \E p \in Policies : Activate(p)
    \/ \E c \in Calls : \/ \E a \in Apps, p \in Policies, n \in Percents : SetCanaryRollout(c, a, p, n)
                        \/ \E a \in Apps : PromoteCanary(c, a)
                        \/ SetCanary(c) \/ PromoteActivate(c) \/ PromoteMark(c) \/ CallFails(c)
    \/ ListActive \/ Replace \/ SweepEnds \/ ServerRestarts
    \/ \E a \in Apps : RollbackCanary(a) \/ Assess(a) \/ AutoRollback(a) \/ AutoRollbackFails(a)
    \/ \E i \in Instances : \/ ReadActivePolicy(i) \/ ResolvePolicy(i)
                            \/ \E deny \in BOOLEAN : RecordCanaryHealth(i, deny)
    \/ \E s \in Apps \X Policies : WindowSlides(s)

CanarySpec == CanaryInit /\ [][CanaryNext]_canaryVars

\* The ticker keeps sweeping, the steps of a sweep are taken, and a rollback
\* that is tried again and again is written once.
CanaryFairSpec ==
    /\ CanarySpec
    /\ WF_canaryVars(ListActive) /\ WF_canaryVars(Replace) /\ WF_canaryVars(SweepEnds)
    /\ WF_canaryVars(\E a \in Apps : Assess(a))
    /\ \A a \in Apps : /\ WF_canaryVars(AutoRollback(a) \/ AutoRollbackFails(a))
                       /\ SF_canaryVars(AutoRollback(a))

-----------------------------------------------------------------------------
(* Properties.                                                             *)

Rollouts == [candidate : Policies, stable : Policies \cup {None}, percent : 0 .. 100]
CallStates ==
    {Idle}
    \cup [at : {"set"}, app : Apps, candidate : Policies, stable : Policies \cup {None}, percent : 0 .. 100]
    \cup [at : {"activate"}, app : Apps, candidate : Policies] \cup [at : {"mark"}, app : Apps]

CanaryTypeOK ==
    /\ active \in [Scopes -> Policies \cup {None}] /\ activated \subseteq Policies
    /\ state \in [Apps -> {"none", "active", "promoted", "rolled_back"}]
    /\ candidate \in [Apps -> Policies \cup {None}] /\ stable \in [Apps -> Policies \cup {None}]
    /\ percent \in [Apps -> 0 .. 100]
    /\ \A k \in DOMAIN audit : audit[k].app \in Apps /\ audit[k].candidate \in Policies
    /\ call \in [Calls -> CallStates]
    /\ sweepPc \in {"idle", "listed", "assessing"} /\ todo \subseteq Apps /\ firing \in Apps \cup {None}
    /\ listing \in [Apps -> Rollouts \cup {None}] /\ snapshot \in [Apps -> Rollouts \cup {None}]
    /\ listedAt \in 0 .. Len(audit)
    /\ total \in [Apps \X Policies -> 0 .. MaxSamples] /\ blocked \in [Apps \X Policies -> 0 .. MaxSamples]
    /\ \A s \in Apps \X Policies : blocked[s] <= total[s]
    /\ fetching \in [Instances -> Policies \cup {None}] /\ served \in [Instances -> SUBSET Policies]
    /\ restarts \in 0 .. MaxRestarts

\* The last change of a rollout before event k.
ChangedBefore(k) == {n \in 1 .. k - 1 : audit[n].app = audit[k].app}
IsSetOf(n, k) == audit[n].action = "set" /\ audit[n].candidate = audit[k].observed
AutoRollbacks == {k \in DOMAIN audit : audit[k].actor = "system"}

(* An automatic rollback ends the rollout that was assessed unless someone *)
(* changed it during the sweep: with no change since the listing, the      *)
(* rollout was active and its candidate is the one that breached           *)
(* (evaluateOnce, RollbackCanary).                                         *)
AutoRollbackSound ==
    \A k \in AutoRollbacks :
        \/ \E n \in ChangedBefore(k) : n > audit[k].since
        \/ \E n \in ChangedBefore(k) : IsSetOf(n, k) /\ \A m \in ChangedBefore(k) : m <= n

(* What a device was ever served is explained: it was active once, or the  *)
(* audit trail sets it as its app's candidate at a percentage that         *)
(* includes the device, however stale the snapshot (GetConfig, Cohort).    *)
ServedExplained ==
    \A i \in Instances : \A p \in served[i] :
        \/ p \in activated
        \/ \E k \in DOMAIN audit :
              /\ audit[k].app = HomeApp[i] /\ audit[k].action = "set" /\ audit[k].candidate = p
              /\ BucketOf[i] < audit[k].percent

\* An active rollout is over its threshold.
BreachStands(a) == state[a] = "active" /\ Breached(a, candidate[a])

(* A rollout that was rolled back leaves the snapshot the hot paths read.  *)
WithdrawnEventually ==
    []<>\A a \in Apps : state[a] = "rolled_back" => snapshot[a] = None

(* The controller rolls back only a rollout whose own candidate breached   *)
(* its threshold (the comment on Controller): never one whose candidate    *)
(* it did not assess, nor one that was promoted.                           *)
AutoRollbackTargets ==
    \A k \in AutoRollbacks :
        \E n \in ChangedBefore(k) :
            /\ audit[n].candidate = audit[k].observed /\ audit[n].action # "promote"
            /\ \A m \in ChangedBefore(k) : m <= n

\* The candidate of a rollout that is marked promoted has been activated, by the
\* promotion or by anyone before (docs/canary-rollout.md on PromoteCanary); that
\* another policy is activated afterwards is no fault of the promotion.
PromoteActivates ==
    \A k \in DOMAIN audit : audit[k].action = "promote" => audit[k].candidate \in activated
=============================================================================
