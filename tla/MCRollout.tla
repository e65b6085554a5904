------------------------------ MODULE MCRollout ------------------------------
(***************************************************************************)
(* Small instances of IngestPipeline, CanaryRollout and ConfigDelivery: of *)
(* the loop in which devices report, the controller judges a rollout by    *)
(* the reports, and devices fetch what is in force.  Each is explored by   *)
(* itself; component says which of them moves in a behaviour.              *)
(***************************************************************************)
EXTENDS IngestPipeline, CanaryRollout, ConfigDelivery, TLC

CONSTANTS pa, Candidates

VARIABLE component

mcVars == <<component, vars, canaryVars, configVars>>

\* The events share a tenant, and with it a partition; the other one takes
\* undecodable records only.
MCPartOf == [e \in Events |-> pa]

\* Policies of no app, and instances called as their app, all in the first
\* bucket, the one an off-by-one would move.
MCAppOf == [p \in Candidates |-> TenantWide]
MCHomeApp == [i \in Apps |-> i]
MCBucketOf == [i \in Apps |-> 0]

\* The rollout of more candidates at more percentages, with fewer changes.
C == INSTANCE CanaryRollout WITH Policies <- Candidates, Percents <- {0, 50}, MaxChanges <- 1, MaxRestarts <- 0

\* The rollouts of all apps at once, each with an instance of its own.
E == INSTANCE CanaryRollout WITH Instances <- Apps, MaxRestarts <- 0

ASSUME CanaryConstants == CanaryConstantsOK /\ C!CanaryConstantsOK /\ E!CanaryConstantsOK

\* The delivery of more versions of a policy, with fewer events.
D == INSTANCE ConfigDelivery WITH Versions <- {1, 2}, MaxEvents <- 2

\* A restart of the server or a second change, not both.
RestartOrChange == restarts' = 0 \/ Cardinality({k \in DOMAIN audit' : audit'[k].actor = "admin"}) < MaxChanges

\* One app's rollbacks always fail, and nobody but the controller ends a rollout.
Stuck == CHOOSE a \in Apps : TRUE
OthersRollBack ==
    /\ UNCHANGED <<active, activated, deviceVars>>
    /\ \A c \in Calls : call'[c].at \in {"idle", "set"}
    /\ \A k \in DOMAIN audit' : audit'[k].action = "rollback" =>
           audit'[k].actor = "system" /\ audit'[k].app # Stuck

\* Switches of one scope beside the rollouts, of both scopes without them.
OneScope == \A ks \in switches' : ks.build = NoId
NoRollout == cand' = Nothing

MCInit ==
    /\ component \in {"ingest", "canary", "changing", "failing", "config", "switching"}
    /\ Init /\ ConfigInit
    /\ CASE component = "canary" -> C!CanaryInit
         [] component = "failing" -> E!CanaryInit
         [] OTHER -> CanaryInit
    /\ component = "config" \/ flags.byTenant = {}

MCNext ==
    /\ UNCHANGED component
    /\ \/ component = "ingest" /\ Next /\ UNCHANGED <<canaryVars, configVars>>
       \/ component = "canary" /\ C!CanaryNext /\ UNCHANGED <<vars, configVars>>
       \/ component = "changing" /\ CanaryNext /\ RestartOrChange /\ UNCHANGED <<vars, configVars>>
       \/ component = "failing" /\ E!CanaryNext /\ OthersRollBack /\ UNCHANGED <<vars, configVars>>
       \/ component = "config" /\ D!ConfigNext /\ OneScope /\ UNCHANGED <<vars, canaryVars>>
       \/ component = "switching" /\ ConfigNext /\ NoRollout /\ UNCHANGED <<vars, canaryVars>>

-----------------------------------------------------------------------------
\* The fairness of the modules, each in the behaviours it moves in.
OfIngest(A) == component = "ingest" /\ A /\ UNCHANGED <<component, canaryVars, configVars>>
OfCanary(A) == component \in {"canary", "changing", "failing"} /\ A /\ UNCHANGED <<component, vars, configVars>>
OfConfig(name, A) == component = name /\ A /\ UNCHANGED <<component, vars, canaryVars>>

\* That of RecoveringSpec.
IngestFairness ==
    /\ WF_vars(OfIngest(\E r \in InTopic : Consume(r)))
    /\ WF_vars(OfIngest(HandOff)) /\ WF_vars(OfIngest(AutoCommit))
    /\ WF_vars(OfIngest(Receive)) /\ WF_vars(OfIngest(TickFlush)) /\ WF_vars(OfIngest(ChannelClosed))
    /\ WF_vars(OfIngest(WriteOK \/ WriteFailed)) /\ WF_vars(OfIngest(Retry))
    /\ WF_vars(OfIngest(GiveUp)) /\ WF_vars(OfIngest(Ack))
    /\ WF_vars(OfIngest(GraceExpires)) /\ WF_vars(OfIngest(StopConsumer))
    /\ WF_vars(OfIngest(CloseEnd)) /\ WF_vars(OfIngest(Restart))

CanaryFairness ==
    /\ WF_canaryVars(OfCanary(ListActive)) /\ WF_canaryVars(OfCanary(Replace)) /\ WF_canaryVars(OfCanary(SweepEnds))
    /\ WF_canaryVars(OfCanary(\E a \in Apps : Assess(a)))
    /\ \A a \in Apps : WF_canaryVars(OfCanary(AutoRollback(a) \/ AutoRollbackFails(a)))

ConfigFairness ==
    \A f \in Fetches :
        WF_configVars(OfConfig("config", D!Step(f)) \/ OfConfig("switching", Step(f)))

\* What is tried again and again succeeds: the store's write, and some rollback
\* of the controller, the stuck one aside.  Only one of the two moves in a behaviour, so one formula
\* assumes both.
MaySucceed(a) == component = "failing" => a # Stuck
RetriesSucceed ==
    SF_mcVars(OfIngest(WriteOK) \/ OfCanary(\E a \in Apps : MaySucceed(a) /\ AutoRollback(a)))

MCSpec ==
    MCInit /\ [][MCNext]_mcVars /\ IngestFairness /\ CanaryFairness /\ ConfigFairness /\ RetriesSucceed

-----------------------------------------------------------------------------
\* No rollout stays active while its candidate's block rate stays over the
\* threshold: some sweep rolls it back, whichever rollbacks fail on the way, and
\* also beside an app whose rollbacks always fail (Controller.evaluateOnce,
\* controller.go:92-94).  One that is rolled back leaves the snapshot.
BreachEnds ==
    /\ []<>\A a \in Apps : BreachStands(a) => ~MaySucceed(a)
    /\ WithdrawnEventually
=============================================================================
