------------------------------- MODULE MCWorkers -------------------------------
(***************************************************************************)
(* Small instances of the server's background workers, WebhookDispatcher   *)
(* and SiemExporter, of the client both send with (SafeHttp) and of the    *)
(* process around them (ServerLifecycle).  No state is shared; component   *)
(* says which of them moves in a behaviour.                                *)
(***************************************************************************)
EXTENDS WebhookDispatcher, SiemExporter, ServerLifecycle, SafeHttp, TLC

VARIABLE component

mcVars == <<component, vars, siemVars, serverVars, httpVars>>

\* What the theorems about these parts assume of the constants.
ASSUME WorkerConstants == Nil \notin Pipes /\ Nil \notin Connectors /\ ServerConstantsOK /\ HttpConstantsOK

\* Two releases that disagree on the text of a migration.
Migration(name, sum) == [name |-> name, sum |-> sum]
MCReleases == {<<Migration("001", "a"), Migration("002", "b")>>,
               <<Migration("001", "a"), Migration("002", "c")>>}

\* A production configuration, one that names an unknown broker, one without a key.
Production == [env |-> "prod", kek |-> "valid", dsn |-> TRUE, rate |-> 1, cert |-> TRUE, key |-> TRUE,
               parses |-> TRUE, broker |-> "kafka", brokers |-> TRUE, analytics |-> "clickhouse", addrs |-> TRUE]
MCEnvironments == {Production, [Production EXCEPT !.broker = "other"], [Production EXCEPT !.kek = ""]}

\* One host whose answers lie on both sides of the edges of reserved ranges, one
\* that mixes public and private addresses, and a proxy inside the network.
MCAnswers ==
    [ edge  |-> { {<<100, 63, 0, 1>>}, {<<100, 64, 0, 1>>}, {<<100, 127, 255, 1>>, <<100, 128, 0, 1>>}, {<<100, 128, 0, 1>>} },
      mixed |-> { {<<8, 8, 8, 8>>, <<1, 1, 1, 1>>}, {<<8, 8, 8, 8>>, <<127, 0, 0, 1>>}, {<<198, 17, 9, 9>>}, {<<198, 19, 0, 1>>},
                  {<<198, 20, 0, 1>>}, {<<172, 15, 0, 1>>}, {<<172, 31, 0, 1>>}, {<<172, 32, 0, 1>>}, {<<223, 255, 0, 1>>},
                  {<<239, 0, 0, 1>>}, {<<192, 0, 1, 1>>}, {<<192, 0, 2, 1>>}, {<<203, 0, 113, 1>>}, {<<192, 88, 99, 1>>} },
      proxy |-> { {<<10, 0, 0, 5>>} } ]
MCProxies == [edge |-> {NoHost}, mixed |-> {NoHost, "proxy"}, proxy |-> {NoHost}]

MCHosts == DOMAIN MCAnswers

MCInit ==
    /\ Init /\ SiemInit /\ HttpInit /\ ServerInit
    /\ component \in {"webhook", "siem", "http", "server"}

MCNext ==
    /\ UNCHANGED component
    /\ \/ component = "webhook" /\ Next /\ UNCHANGED <<siemVars, serverVars, httpVars>>
       \/ component = "siem" /\ SiemNext /\ UNCHANGED <<vars, serverVars, httpVars>>
       \/ component = "server" /\ ServerNext /\ UNCHANGED <<vars, siemVars, httpVars>>
       \/ component = "http" /\ HttpNext /\ UNCHANGED <<vars, siemVars, serverVars>>

-----------------------------------------------------------------------------
\* The fairness of the modules, each in the behaviours it moves in.
OfWebhook(A) == component = "webhook" /\ Step(A) /\ UNCHANGED <<component, siemVars, serverVars, httpVars>>
OfSiem(A) == component = "siem" /\ A /\ UNCHANGED <<component, vars, serverVars, httpVars>>
OfServer(A) == component = "server" /\ A /\ UNCHANGED <<component, vars, siemVars, httpVars>>

WebhookFairness ==
    /\ WF_vars(OfWebhook(Fanout)) /\ WF_vars(OfWebhook(CloseQueue)) /\ WF_vars(OfWebhook(WorkersDone))
    /\ \A j \in Jobs : /\ WF_vars(OfWebhook(TestStopped(j))) /\ WF_vars(OfWebhook(Send(j)))
                       /\ WF_vars(OfWebhook(RetryFires(j))) /\ WF_vars(OfWebhook(Deliver(j)))
                       /\ WF_vars(OfWebhook(DeliverErrors(j) \/ DeliverSucceeds(j) \/ DeliverFails(j)))

SiemFairness ==
    /\ \A e \in SiemEvents : WF_siemVars(OfSiem(SubmitStep(e)))
    /\ \A p \in Pipes : /\ WF_siemVars(OfSiem(Receive(p))) /\ WF_siemVars(OfSiem(Tick(p)))
                        /\ WF_siemVars(OfSiem(Reaped(p))) /\ WF_siemVars(OfSiem(Quit(p)))
                        /\ WF_siemVars(OfSiem(Drained(p))) /\ WF_siemVars(OfSiem(Flushing(p)))
    /\ WF_siemVars(OfSiem(signalStop)) /\ WF_siemVars(OfSiem(StopReturns))

ServerFairness == \A r \in Replicas : WF_serverVars(OfServer(Progress(r))) /\ WF_serverVars(OfServer(Answer(r)))

MCSpec == MCInit /\ [][MCNext]_mcVars /\ WebhookFairness /\ SiemFairness /\ ServerFairness
=============================================================================
