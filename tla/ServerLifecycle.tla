--------------------------- MODULE ServerLifecycle ---------------------------
(***************************************************************************)
(* Starting, migrating, serving and stopping: cmd/kseal-server/main.go     *)
(* (run), backends.go, shared/config (Load), shared/db (New, Migrate) and  *)
(* middleware.NewRedis.  Several replicas, possibly of different releases, *)
(* share one database.                                                     *)
(*                                                                         *)
(* A release is a sequence of migrations [name, sum]; the text of a        *)
(* migration is abstracted to its checksum.  defers is Go's defer stack:   *)
(* what has been opened, in order, and is closed from the end.             *)
(***************************************************************************)
EXTENDS Integers, Sequences

CONSTANTS Replicas, Releases, Environments, MaxFaults, MaxStops

VARIABLES
    schema,    \* schema_migrations: the sequence of rows, in commit order
    ran,       \* ran[name]: how often the text of a migration took effect
    replica,   \* the state of each process
    faults,    \* failed calls and kills so far
    stops      \* termination signals so far

serverVars == <<schema, ran, replica, faults, stops>>

Names == UNION {{m.name : m \in {rel[i] : i \in DOMAIN rel}} : rel \in Releases}
Sums == UNION {{m.sum : m \in {rel[i] : i \in DOMAIN rel}} : rel \in Releases}
Migrations == [name : Names, sum : Sums]

\* What is taken for granted of the constants: a release is a list of migrations.
ServerConstantsOK == Releases \subseteq Seq(Migrations)

Down == [step |-> "down", env |-> [env |-> ""], release |-> <<>>, applied |-> {}, next |-> 1,
         defers |-> <<>>, running |-> {}, exit |-> ""]

-----------------------------------------------------------------------------
(* Configuration.                                                           *)

IsProd(e) == e.env \in {"prod", "production", "staging"}

loadKEK(e) == e.kek = "valid" \/ (e.kek = "" /\ ~IsProd(e))

\* A selector that is not known, or selected without its addresses, is an error.
loadDataPlane(e) ==
    /\ e.broker \in {"", "memory"} \/ (e.broker = "kafka" /\ e.brokers)
    /\ e.analytics \in {"", "memory"} \/ (e.analytics = "clickhouse" /\ e.addrs)

validate(e) == e.dsn /\ e.rate > 0 /\ (e.cert <=> e.key)

Load(e) == e.parses /\ loadDataPlane(e) /\ loadKEK(e) /\ validate(e)

buildBroker(e) == IF e.broker = "kafka" THEN "kafka" ELSE "memory"

buildAnalytics(e) == IF e.analytics = "clickhouse" THEN "clickhouse" ELSE "memory"

-----------------------------------------------------------------------------
ServerInit ==
    /\ schema = <<>>
    /\ ran = [n \in Names |-> 0]
    /\ replica = [r \in Replicas |-> Down]
    /\ faults = 0
    /\ stops = 0

Becomes(r, p) == replica' = [replica EXCEPT ![r] = p]

\* The failure of one call, which the code answers by returning the error.
Fault == faults < MaxFaults /\ faults' = faults + 1

NoFault == UNCHANGED faults

\* return err: the deferred functions run, last registered first.
Return(p) == [p EXCEPT !.step = "unwind"]

Opened(p, resource, step) == [p EXCEPT !.defers = Append(@, resource), !.step = step]

\* run up to the database: configuration and telemetry.
Start(r, e, rel) ==
    /\ replica[r].step = "down"
    /\ LET p == [Down EXCEPT !.env = e, !.release = rel]
       IN Becomes(r, IF Load(e) THEN Opened(p, "telemetry", "connect") ELSE [p EXCEPT !.step = "exited"])
    /\ UNCHANGED <<schema, ran, faults, stops>>

\* db.New: the pool is closed again when the first ping fails.
New(r) ==
    /\ replica[r].step = "connect"
    /\ \/ NoFault /\ Becomes(r, Opened(replica[r], "db", "migrate"))
       \/ Fault /\ Becomes(r, Return(replica[r]))
    /\ UNCHANGED <<schema, ran, stops>>

Rows == {schema[i] : i \in DOMAIN schema}

\* appliedMigrations: one read, before the loop.
appliedMigrations(r) ==
    /\ replica[r].step = "migrate"
    /\ \/ NoFault /\ Becomes(r, [replica[r] EXCEPT !.step = "apply", !.applied = Rows, !.next = 1])
       \/ Fault /\ Becomes(r, Return(replica[r]))
    /\ UNCHANGED <<schema, ran, stops>>

\* Mutant: the migration commits without its row.
applyOneUnrecorded(mig) ==
    /\ ran' = [ran EXCEPT ![mig.name] = @ + 1]
    /\ schema' = schema \/ schema' = Append(schema, mig)

\* applyOne: the text and the row commit together, or neither does.
applyOne(mig) ==
    /\ ran' = [ran EXCEPT ![mig.name] = @ + 1]
    /\ schema' = Append(schema, mig)

Mismatch(mig, applied) == \E row \in applied : row.name = mig.name /\ row.sum # mig.sum

\* One round of the loop of Migrate.  A row another replica has inserted since the
\* read makes the transaction fail on the primary key; a fault may also lose the
\* answer to a commit that took place.
Migrate(r) ==
    LET p == replica[r]
        mig == p.release[p.next]
        Advanced == [p EXCEPT !.next = @ + 1]
    IN /\ p.step = "apply" /\ UNCHANGED stops
       /\ \/ /\ p.next > Len(p.release) /\ Becomes(r, [p EXCEPT !.step = "redis"])
             /\ NoFault /\ UNCHANGED <<schema, ran>>
          \/ /\ p.next <= Len(p.release) /\ Mismatch(mig, p.applied)
             /\ Becomes(r, Return(p)) /\ NoFault /\ UNCHANGED <<schema, ran>>
          \/ /\ p.next <= Len(p.release) /\ ~Mismatch(mig, p.applied)
             /\ mig.name \in {row.name : row \in p.applied}
             /\ Becomes(r, Advanced) /\ NoFault /\ UNCHANGED <<schema, ran>>
          \/ /\ p.next <= Len(p.release) /\ mig.name \notin {row.name : row \in p.applied}
             /\ \/ mig.name \notin {row.name : row \in Rows} /\ applyOne(mig) /\ NoFault /\ Becomes(r, Advanced)
                \/ mig.name \notin {row.name : row \in Rows} /\ applyOne(mig) /\ Fault /\ Becomes(r, Return(p))
                \/ mig.name \in {row.name : row \in Rows} /\ UNCHANGED <<schema, ran>> /\ NoFault /\ Becomes(r, Return(p))
                \/ UNCHANGED <<schema, ran>> /\ Fault /\ Becomes(r, Return(p))

\* middleware.NewRedis, the encryptor and the sealer, whose failure closes redis
\* again, and the dispatcher, which cannot fail.
NewRedis(r) ==
    /\ replica[r].step = "redis"
    /\ \/ NoFault /\ Becomes(r, Opened(Opened(replica[r], "redis", "redis"), "dispatcher", "siem"))
       \/ Fault /\ Becomes(r, Return(replica[r]))
       \/ Fault /\ Becomes(r, Return(Opened(replica[r], "redis", "redis")))
    /\ UNCHANGED <<schema, ran, stops>>

\* siemStore.EnsureSchema and the exporter.
EnsureSchema(r) ==
    /\ replica[r].step = "siem"
    /\ \/ NoFault /\ Becomes(r, Opened(replica[r], "exporter", "backends"))
       \/ Fault /\ Becomes(r, Return(replica[r]))
    /\ UNCHANGED <<schema, ran, stops>>

\* Mutant: the store is closed before the broker, whose close drains into it.
pipelineDefersSwapped == <<"broker", "analytics">>

\* The order in which main defers the closing of the pipeline.
pipelineDefers == <<"analytics", "broker">>

\* The broker and the analytics store.  When the store cannot be built the broker
\* is closed by hand: its defer is registered only after both exist.  With both in
\* place the writer starts, then, unless ingest.NewService fails, the workers of bg
\* (the fleet sampler, which uses no resource, is left out) and the listener.
backends(r) ==
    LET p == replica[r]
    IN /\ p.step = "backends"
       /\ \/ NoFault /\ Becomes(r, [p EXCEPT !.defers = @ \o pipelineDefers, !.step = "serve",
                                           !.running = {"writer", "purger", "canary", "listener"}])
          \/ Fault /\ Becomes(r, Return(p))
          \/ Fault /\ Becomes(r, Return([p EXCEPT !.defers = @ \o pipelineDefers, !.running = {"writer"}]))
       /\ UNCHANGED <<schema, ran, stops>>

-----------------------------------------------------------------------------
(* Serving and stopping.                                                    *)

\* A request is in flight until it has been answered.  The listener accepts until
\* Shutdown stops it, also while run waits for the workers of bg.
Request(r) ==
    /\ replica[r].step \in {"serve", "wait"} /\ "listener" \in replica[r].running
    /\ Becomes(r, [replica[r] EXCEPT !.running = @ \cup {"handler"}])
    /\ UNCHANGED <<schema, ran, faults, stops>>

Answer(r) ==
    /\ "handler" \in replica[r].running
    /\ Becomes(r, [replica[r] EXCEPT !.running = @ \ {"handler"}])
    /\ UNCHANGED <<schema, ran, faults, stops>>

\* SIGTERM cancels rootCtx.
Signal(r) ==
    /\ replica[r].step = "serve" /\ stops < MaxStops
    /\ Becomes(r, [replica[r] EXCEPT !.step = "wait"])
    /\ stops' = stops + 1
    /\ UNCHANGED <<schema, ran, faults>>

\* ListenAndServe fails, at once or while requests are in flight: run will return
\* this error, without Shutdown.
ListenFails(r) ==
    /\ replica[r].step = "serve" /\ Fault
    /\ Becomes(r, [replica[r] EXCEPT !.step = "wait", !.running = @ \ {"listener"}, !.exit = "error"])
    /\ UNCHANGED <<schema, ran, stops>>

\* A worker of bg sees its context cancelled once the sweep it is in has ended.
WorkerEnds(r, w) ==
    /\ replica[r].step \in {"wait", "shutdown", "unwind"} /\ w \in {"purger", "canary"} \cap replica[r].running
    /\ Becomes(r, [replica[r] EXCEPT !.running = @ \ {w}])
    /\ UNCHANGED <<schema, ran, faults, stops>>

bgWait(p) == p.running \cap {"purger", "canary"} = {}

\* stop(); bg.Wait(); then return err after a failed listener, and otherwise
\* srv.Shutdown, which stops the listener and waits for the requests in flight, at
\* most ten seconds (a fault here).
Wait(r) ==
    /\ replica[r].step = "wait" /\ bgWait(replica[r])
    /\ Becomes(r, IF replica[r].exit = "error"
                  THEN Return(replica[r])
                  ELSE [replica[r] EXCEPT !.step = "shutdown", !.running = @ \ {"listener"}])
    /\ UNCHANGED <<schema, ran, faults, stops>>

Shutdown(r) ==
    LET p == replica[r]
    IN /\ p.step = "shutdown"
       /\ \/ "handler" \notin p.running /\ NoFault /\ Becomes(r, Return(p))
          \/ "handler" \in p.running /\ Fault /\ Becomes(r, [Return(p) EXCEPT !.exit = "timeout"])
       /\ UNCHANGED <<schema, ran, stops>>

\* The deferred functions.  broker.Close lets the writer drain, and <-writerDone
\* waits for it; the other closers return by themselves.
Deferred(r) ==
    LET p == replica[r]
    IN /\ p.step = "unwind"
       /\ Becomes(r, IF p.defers = <<>> THEN [p EXCEPT !.step = "exited", !.running = {}]
                     ELSE IF p.defers[Len(p.defers)] = "broker"
                          THEN [p EXCEPT !.step = "drain", !.defers = SubSeq(@, 1, Len(@) - 1)]
                          ELSE [p EXCEPT !.defers = SubSeq(@, 1, Len(@) - 1)])
       /\ UNCHANGED <<schema, ran, faults, stops>>

WriterDrains(r) ==
    /\ replica[r].step = "drain"
    /\ Becomes(r, [replica[r] EXCEPT !.step = "unwind", !.running = @ \ {"writer"}])
    /\ UNCHANGED <<schema, ran, faults, stops>>

\* The process is killed, or restarted by its supervisor after it exited.
Kill(r) ==
    /\ replica[r].step \notin {"down", "exited"} /\ Fault /\ Becomes(r, Down)
    /\ UNCHANGED <<schema, ran, stops>>

Restart(r) ==
    /\ replica[r].step = "exited" /\ Becomes(r, Down)
    /\ UNCHANGED <<schema, ran, faults, stops>>

Progress(r) ==
    \/ \E e \in Environments, rel \in Releases : Start(r, e, rel)
    \/ New(r) \/ appliedMigrations(r) \/ Migrate(r) \/ NewRedis(r) \/ EnsureSchema(r) \/ backends(r)
    \/ Answer(r) \/ (\E w \in {"purger", "canary"} : WorkerEnds(r, w))
    \/ Wait(r) \/ Shutdown(r) \/ Deferred(r) \/ WriterDrains(r) \/ Restart(r)

ServerNext == \E r \in Replicas : Progress(r) \/ Request(r) \/ Signal(r) \/ ListenFails(r) \/ Kill(r)

ServerSpec == ServerInit /\ [][ServerNext]_serverVars

\* Goroutines that can run do run, requests are answered, and the supervisor
\* restarts a process that exited.
Fairness == \A r \in Replicas : WF_serverVars(Progress(r)) /\ WF_serverVars(Answer(r))

ServerFairSpec == ServerSpec /\ Fairness

-----------------------------------------------------------------------------
(* Properties.                                                              *)

Up(r) == replica[r].step = "serve"

\* A replica that serves has every migration of its release in the database, with
\* the text it carries itself: two releases that disagree on a migration are never
\* up at the same time, whatever the order in which the replicas were started,
\* killed and restarted (Migrate: "A checksum guards against accidental edits to an
\* already-applied file").
ServesItsSchema == \A r \in Replicas : Up(r) => \A i \in DOMAIN replica[r].release : replica[r].release[i] \in Rows

\* No migration takes effect twice and none is recorded that did not: the row and
\* the text commit together also when replicas migrate at the same time, a commit's
\* answer is lost or the process is killed (Migrate: "It is idempotent").
AppliedOnce ==
    /\ \A i, j \in DOMAIN schema : schema[i].name = schema[j].name => i = j
    /\ \A n \in Names : ran[n] = IF \E i \in DOMAIN schema : schema[i].name = n THEN 1 ELSE 0

\* Migrations are sound: what runs on a schema expects it, and nothing ran twice (Migrate).
MigrationsSound == ServesItsSchema /\ AppliedOnce

\* What still runs finds open what it uses: the database pool outlives the purger
\* and the canary controller, the analytics store and the sinks outlive the writer
\* (main: "drain the pipeline before closing the store").  A request can find the
\* database, redis, the broker or the store closed only after a failed listener,
\* where run returns without Shutdown, or a Shutdown that ran out of its ten seconds.
NothingClosedInUse ==
    \A r \in Replicas :
        LET p == replica[r]
            Open == {p.defers[i] : i \in DOMAIN p.defers}
        IN p.step # "exited" =>
           /\ p.running \cap {"purger", "canary"} # {} => {"db", "analytics"} \subseteq Open
           /\ "writer" \in p.running => {"analytics", "exporter", "dispatcher", "db"} \subseteq Open
           /\ \/ "handler" \in p.running => {"db", "redis", "broker", "analytics"} \subseteq Open
              \/ p.exit \in {"error", "timeout"}

=============================================================================
