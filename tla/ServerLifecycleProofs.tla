------------------------ MODULE ServerLifecycleProofs ------------------------
(***************************************************************************)
(* Starting, migrating and stopping (module ServerLifecycle) for every     *)
(* number of replicas and every set of releases.                           *)
(***************************************************************************)
EXTENDS ServerLifecycle, TLAPS

Steps == {"down", "connect", "migrate", "apply", "redis", "siem", "backends", "serve", "wait",
          "shutdown", "unwind", "drain", "exited"}
Resources == {"telemetry", "db", "redis", "dispatcher", "exporter", "analytics", "broker"}
Tasks == {"writer", "purger", "canary", "listener", "handler"}

Process == [step : Steps, env : Environments \cup {[env |-> ""]}, release : Releases \cup {<<>>},
            applied : SUBSET Migrations, next : Nat \ {0}, defers : Seq(Resources),
            running : SUBSET Tasks, exit : {"", "error", "timeout"}]

\* The schema alone: its rows are migrations, and the texts that took effect are theirs.
SchemaInv == schema \in Seq(Migrations) /\ ran \in [Names -> {0, 1}] /\ AppliedOnce

\* Past the loop of Migrate the whole release is in the database, within it the part before next.
Migrated(p, rows) ==
    /\ p.step = "apply" => /\ p.applied \subseteq rows
                           /\ \A i \in DOMAIN p.release : i < p.next => p.release[i] \in rows
    /\ p.step \in {"redis", "siem", "backends", "serve"} => \A i \in DOMAIN p.release : p.release[i] \in rows

\* The order in which run opens what it later closes from the end.
At(d, i, resource) == i <= Len(d) => d[i] = resource
Stacked(d) ==
    /\ d \in Seq(Resources) /\ Len(d) <= 7
    /\ At(d, 1, "telemetry") /\ At(d, 2, "db") /\ At(d, 3, "redis") /\ At(d, 4, "dispatcher")
    /\ At(d, 5, "exporter") /\ At(d, 6, "analytics") /\ At(d, 7, "broker")

\* How much is open at each step, and what may run then.
Depth(p) ==
    /\ p.step = "connect" => Len(p.defers) = 1
    /\ p.step \in {"migrate", "apply", "redis"} => Len(p.defers) = 2
    /\ p.step = "siem" => Len(p.defers) = 4
    /\ p.step = "backends" => Len(p.defers) = 5
    /\ p.step \in {"serve", "wait", "shutdown"} => Len(p.defers) = 7
    /\ p.step = "drain" => Len(p.defers) = 6
    /\ p.step = "unwind" /\ "writer" \in p.running => Len(p.defers) = 7

Runs(p) ==
    /\ p.step \notin {"serve", "wait", "shutdown", "unwind", "drain"} => p.running = {}
    /\ p.step \in {"shutdown", "unwind", "drain"} => p.running \cap {"purger", "canary"} = {}
    /\ "handler" \in p.running /\ p.exit = "" => p.step \in {"serve", "wait", "shutdown"}

Sound(p, rows) == p \in Process /\ Migrated(p, rows) /\ Stacked(p.defers) /\ Depth(p) /\ Runs(p)

IInv == SchemaInv /\ DOMAIN replica = Replicas /\ \A r \in Replicas : Sound(replica[r], Rows)

-----------------------------------------------------------------------------
\* A step of one replica that leaves the schema alone.
LEMMA Moves ==
  ASSUME IInv, NEW r \in Replicas, NEW q, Becomes(r, q), Sound(q, Rows), UNCHANGED <<schema, ran>>
  PROVE  IInv'
<1>1. schema' = schema /\ ran' = ran
  BY Zenon
<1>2. Rows' = Rows
  BY <1>1, Zenon DEF Rows
<1>a. AppliedOnce'
  BY <1>1 DEF IInv, SchemaInv, AppliedOnce
<1>b. SchemaInv'
  BY <1>1, <1>a, Zenon DEF IInv, SchemaInv
<1>3. DOMAIN replica' = Replicas /\ \A o \in Replicas : replica'[o] = IF o = r THEN q ELSE replica[o]
  BY Zenon DEF IInv, Becomes
<1> QED BY <1>2, <1>b, <1>3, Zenon DEF IInv

\* Opening pushes on the stack of deferred calls.
LEMMA Push ==
  ASSUME NEW d, d \in Seq(Resources), NEW x \in Resources
  PROVE  /\ Append(d, x) \in Seq(Resources) /\ Len(Append(d, x)) = Len(d) + 1
         /\ Append(d, x)[Len(d) + 1] = x /\ \A i \in 1 .. Len(d) : Append(d, x)[i] = d[i]
OBVIOUS

\* So does opening the pipeline, twice.
LEMMA PushPipeline ==
  ASSUME NEW d, d \in Seq(Resources)
  PROVE  LET w == d \o pipelineDefers IN
         /\ w \in Seq(Resources) /\ Len(w) = Len(d) + 2
         /\ w[Len(d) + 1] = "analytics" /\ w[Len(d) + 2] = "broker" /\ \A i \in 1 .. Len(d) : w[i] = d[i]
BY DEF pipelineDefers, Resources

\* A deferred call pops it.
LEMMA Pop ==
  ASSUME NEW d, d \in Seq(Resources), d # <<>>
  PROVE  LET w == SubSeq(d, 1, Len(d) - 1) IN
         /\ w \in Seq(Resources) /\ Len(w) = Len(d) - 1 /\ \A i \in 1 .. Len(w) : w[i] = d[i]
<1>1. PICK k \in Nat : k = Len(d) - 1
  <2>1. Len(d) \in Nat /\ Len(d) # 0
    OBVIOUS
  <2>2. Len(d) - 1 \in Nat
    BY ONLY <2>1
  <2> QED BY ONLY <2>2, Zenon
<1>2. k <= Len(d)
  BY <1>1
<1>3. Len(SubSeq(d, 1, k)) = k
  BY <1>2
<1>4. \A i \in 1 .. k : SubSeq(d, 1, k)[i] = d[i]
  BY <1>2
<1>5. SubSeq(d, 1, k) \in Seq(Resources)
  BY <1>2
<1> QED BY <1>1, <1>3, <1>4, <1>5, Zenon

-----------------------------------------------------------------------------
(* A process that only changes its step, or opens one thing.               *)

\* A process that only moves to another step.
LEMMA StepTo ==
  ASSUME NEW p \in Process, NEW s \in Steps, NEW q, q = [p EXCEPT !.step = s]
  PROVE  /\ q \in Process /\ q.step = s /\ q.defers = p.defers /\ q.running = p.running
         /\ q.exit = p.exit /\ q.release = p.release /\ q.applied = p.applied /\ q.next = p.next
BY DEF Process

\* A process that opens one thing and moves on.
LEMMA OpenedIs ==
  ASSUME NEW p \in Process, NEW x \in Resources, NEW s \in Steps, NEW q, q = Opened(p, x, s)
  PROVE  /\ q \in Process /\ q.step = s /\ q.defers = Append(p.defers, x) /\ q.running = p.running
         /\ q.exit = p.exit /\ q.release = p.release /\ q.applied = p.applied /\ q.next = p.next
<1>1. p.defers \in Seq(Resources)
  BY Zenon DEF Process
<1>2. Append(p.defers, x) \in Seq(Resources)
  BY <1>1
<1> QED BY <1>2 DEF Process, Opened

\* Starting fails: nothing runs yet, and what is open is closed again.
LEMMA ReturnSound ==
  ASSUME NEW rows, NEW p, Sound(p, rows), p.running = {}
  PROVE  Sound(Return(p), rows)
<1> DEFINE q == Return(p)
<1>0. q = [p EXCEPT !.step = "unwind"] /\ "unwind" \in Steps /\ p \in Process
  BY Zenon DEF Return, Steps, Sound
<1> HIDE DEF q
<1>1. /\ q \in Process /\ q.step = "unwind" /\ q.defers = p.defers /\ q.running = {}
  BY <1>0, StepTo
<1>2. Migrated(q, rows) BY <1>1, Zenon DEF Migrated
<1>3. Stacked(q.defers) BY <1>1, Zenon DEF Sound
<1>4. Depth(q) BY <1>1, Zenon DEF Depth
<1>5. Runs(q) BY <1>1, Zenon DEF Runs
<1> QED BY <1>1, <1>2, <1>3, <1>4, <1>5, Zenon DEF Sound, q

\* The next thing on the list is opened.
LEMMA StackGrows ==
  ASSUME NEW d, Stacked(d), NEW x \in Resources,
         \/ Len(d) = 0 /\ x = "telemetry"
         \/ Len(d) = 1 /\ x = "db"
         \/ Len(d) = 2 /\ x = "redis"
         \/ Len(d) = 3 /\ x = "dispatcher"
         \/ Len(d) = 4 /\ x = "exporter"
  PROVE  Stacked(Append(d, x)) /\ Len(Append(d, x)) = Len(d) + 1
<1> DEFINE w == Append(d, x)
<1>1. /\ w \in Seq(Resources) /\ Len(w) = Len(d) + 1 /\ Len(d) \in Nat
      /\ w[Len(d) + 1] = x /\ \A i \in 1 .. Len(d) : w[i] = d[i]
  BY Push DEF Stacked
<1> HIDE DEF w
<1>2. Stacked(w)
  BY <1>1 DEF Stacked, At
<1> QED BY <1>1, <1>2, Zenon DEF w

\* The pipeline is opened last.
LEMMA StackFull ==
  ASSUME NEW d, Stacked(d), Len(d) = 5
  PROVE  Stacked(d \o pipelineDefers) /\ Len(d \o pipelineDefers) = 7
<1> DEFINE w == d \o pipelineDefers
<1>0. /\ w \in Seq(Resources) /\ Len(w) = Len(d) + 2
      /\ w[Len(d) + 1] = "analytics" /\ w[Len(d) + 2] = "broker" /\ \A i \in 1 .. Len(d) : w[i] = d[i]
  BY PushPipeline, Zenon DEF Stacked
<1> HIDE DEF w
<1>1. /\ w \in Seq(Resources) /\ Len(w) = 7
      /\ w[6] = "analytics" /\ w[7] = "broker" /\ \A i \in 1 .. 5 : w[i] = d[i]
  BY <1>0
<1>2. Stacked(w)
  BY <1>1 DEF Stacked, At
<1> QED BY <1>1, <1>2, Zenon DEF w

\* What is opened first is closed last.
LEMMA StackShrinks ==
  ASSUME NEW d, Stacked(d), d # <<>>
  PROVE  LET w == SubSeq(d, 1, Len(d) - 1) IN Stacked(w) /\ Len(w) = Len(d) - 1
<1> DEFINE w == SubSeq(d, 1, Len(d) - 1)
<1>1. /\ w \in Seq(Resources) /\ Len(w) = Len(d) - 1 /\ Len(d) \in Nat /\ Len(w) \in Nat
      /\ \A i \in 1 .. Len(w) : w[i] = d[i]
  BY Pop DEF Stacked
<1> HIDE DEF w
<1>2. Stacked(w)
  BY <1>1 DEF Stacked, At
<1> QED BY <1>1, <1>2, Zenon DEF w

-----------------------------------------------------------------------------
(* The steps, each ending in a process that is sound.                      *)

\* What the invariant says of one process.
LEMMA Known ==
  ASSUME IInv, NEW r \in Replicas
  PROVE  /\ replica[r] \in Process /\ Migrated(replica[r], Rows) /\ Stacked(replica[r].defers)
         /\ Depth(replica[r]) /\ Runs(replica[r])
BY Zenon DEF IInv, Sound

\* A process that is down has nothing open and runs nothing.
LEMMA DownSound == ASSUME NEW rows PROVE Sound(Down, rows)
<1>1. Down \in Process
  <2>1. <<>> \in Seq(Resources) /\ 1 \in Nat \ {0} OBVIOUS
  <2> QED BY <2>1 DEF Down, Process, Steps
<1>2. Down.step = "down" /\ Down.defers = <<>> /\ Down.running = {}
  BY Zenon DEF Down
<1>3. Stacked(<<>>)
  BY DEF Stacked, At
<1>4. Migrated(Down, rows)
  BY <1>2, Zenon DEF Migrated
<1>5. Depth(Down)
  BY <1>2, Zenon DEF Depth
<1>6. Runs(Down)
  BY <1>2, Zenon DEF Runs
<1> QED BY <1>1, <1>2, <1>3, <1>4, <1>5, <1>6, Zenon DEF Sound

\* run: a configuration that does not load ends it, otherwise telemetry is opened.
LEMMA StartKeeps ==
  ASSUME IInv, NEW r \in Replicas, NEW e \in Environments, NEW rel \in Releases, Start(r, e, rel)
  PROVE  IInv'
<1> DEFINE p == [Down EXCEPT !.env = e, !.release = rel]
           q == IF Load(e) THEN Opened(p, "telemetry", "connect") ELSE [p EXCEPT !.step = "exited"]
<1>1. Becomes(r, q) /\ UNCHANGED <<schema, ran>>
  BY Zenon DEF Start
<1>2. Down \in Process
  BY DownSound, Zenon DEF Sound
<1>3. p \in Process /\ p.defers = <<>> /\ p.running = {}
  BY <1>2 DEF Process, Down
<1> HIDE DEF p
<1>4. Sound(q, Rows)
  <2>1. CASE Load(e)
    <3>0. q = Opened(p, "telemetry", "connect") /\ "telemetry" \in Resources /\ "connect" \in Steps
      BY <2>1, Zenon DEF Resources, Steps
    <3> HIDE DEF q
    <3>1. /\ q \in Process /\ q.step = "connect" /\ q.defers = Append(p.defers, "telemetry") /\ q.running = {}
      BY <1>3, <3>0, OpenedIs
    <3>2. Stacked(p.defers) /\ Len(p.defers) = 0 /\ "telemetry" \in Resources
      <4>1. Stacked(<<>>) /\ Len(<<>>) = 0
        BY DEF Stacked, At
      <4> QED BY <1>3, <3>0, <4>1, Zenon
    <3>3. Stacked(q.defers) /\ Len(q.defers) = Len(p.defers) + 1
      BY <3>1, <3>2, StackGrows, Zenon
    <3>4. Len(q.defers) = 1
      BY <3>2, <3>3
    <3>5. Migrated(q, Rows)
      BY <3>1, Zenon DEF Migrated
    <3>6. Depth(q)
      BY <3>1, <3>4, Zenon DEF Depth
    <3>7. Runs(q)
      BY <3>1, Zenon DEF Runs
    <3> QED BY <3>1, <3>3, <3>5, <3>6, <3>7, Zenon DEF Sound
  <2>2. CASE ~Load(e)
    <3>0. q = [p EXCEPT !.step = "exited"] /\ "exited" \in Steps
      BY <2>2, Zenon DEF Steps
    <3> HIDE DEF q
    <3>1. /\ q \in Process /\ q.step = "exited" /\ q.defers = <<>> /\ q.running = {}
      BY <1>3, <3>0, StepTo
    <3>2. Stacked(<<>>)
      BY DEF Stacked, At
    <3>5. Migrated(q, Rows)
      BY <3>1, Zenon DEF Migrated
    <3>6. Depth(q)
      BY <3>1, Zenon DEF Depth
    <3>7. Runs(q)
      BY <3>1, Zenon DEF Runs
    <3> QED BY <3>1, <3>2, <3>5, <3>6, <3>7, Zenon DEF Sound
  <2> QED BY <2>1, <2>2, Zenon
<1> HIDE DEF q
<1> QED BY <1>1, <1>4, Moves, Zenon

\* A step of the start that opens the next thing.
LEMMA OpensSound ==
  ASSUME NEW rows, NEW p, Sound(p, rows), p.running = {}, NEW x \in Resources, NEW s,
         \/ p.step = "connect" /\ x = "db" /\ s = "migrate"
         \/ p.step = "redis" /\ x = "redis" /\ s = "unwind"
         \/ p.step = "siem" /\ x = "exporter" /\ s = "backends"
  PROVE  Sound(Opened(p, x, s), rows)
<1> DEFINE q == Opened(p, x, s)
<1>0. q = Opened(p, x, s) /\ s \in Steps /\ p \in Process /\ Stacked(p.defers)
  BY Zenon DEF Steps, Sound
<1> HIDE DEF q
<1>1. /\ q \in Process /\ q.step = s /\ q.defers = Append(p.defers, x) /\ q.running = {} /\ q.release = p.release
  BY <1>0, OpenedIs
<1>2. \/ Len(p.defers) = 1 /\ x = "db"
      \/ Len(p.defers) = 2 /\ x = "redis"
      \/ Len(p.defers) = 4 /\ x = "exporter"
  <2>1. /\ p.step = "connect" => Len(p.defers) = 1
        /\ p.step = "redis" => Len(p.defers) = 2
        /\ p.step = "siem" => Len(p.defers) = 4
    BY Zenon DEF Sound, Depth
  <2> QED BY <2>1, Zenon
<1>3. Stacked(q.defers) /\ Len(q.defers) = Len(p.defers) + 1
  BY <1>0, <1>1, <1>2, StackGrows, Zenon
<1>4. Migrated(q, rows)
  BY <1>1, Zenon DEF Sound, Migrated
<1>5. s = "migrate" => Len(q.defers) = 2
  <2>1. ASSUME s = "migrate" PROVE Len(p.defers) = 1
    BY <2>1, Zenon DEF Sound, Depth
  <2>2. Len(p.defers) = 1 => Len(q.defers) = 2
    BY ONLY <1>3
  <2> QED BY <2>1, <2>2, Zenon
<1>6. s = "backends" => Len(q.defers) = 5
  <2>1. ASSUME s = "backends" PROVE Len(p.defers) = 4
    BY <2>1, Zenon DEF Sound, Depth
  <2>2. Len(p.defers) = 4 => Len(q.defers) = 5
    BY ONLY <1>3
  <2> QED BY <2>1, <2>2, Zenon
<1>7. Depth(q)
  BY <1>1, <1>5, <1>6, Zenon DEF Depth
<1>8. Runs(q)
  BY <1>1, Zenon DEF Runs
<1> QED BY <1>1, <1>3, <1>4, <1>7, <1>8, Zenon DEF Sound, q

\* Before serving nothing runs, so that a failure only has to close.
LEMMA Fails ==
  ASSUME IInv, NEW r \in Replicas, Becomes(r, Return(replica[r])), UNCHANGED <<schema, ran>>,
         replica[r].step \notin {"serve", "wait", "shutdown", "unwind", "drain"}
  PROVE  IInv'
<1>1. Sound(replica[r], Rows) /\ replica[r].running = {}
  BY Known, Zenon DEF Sound, Runs
<1>2. Sound(Return(replica[r]), Rows)
  BY <1>1, ReturnSound, Zenon
<1> QED BY <1>2, Moves, Zenon

\* db.New opens the pool, or run returns.
LEMMA NewKeeps == ASSUME IInv, NEW r \in Replicas, New(r) PROVE IInv'
<1>1. replica[r].step = "connect" /\ UNCHANGED <<schema, ran>>
  BY Zenon DEF New
<1>2. CASE Becomes(r, Opened(replica[r], "db", "migrate"))
  <2>1. Sound(replica[r], Rows) /\ replica[r].running = {} /\ "db" \in Resources
    BY <1>1, Known, Zenon DEF Sound, Runs, Resources
  <2>2. Sound(Opened(replica[r], "db", "migrate"), Rows)
    BY <1>1, <2>1, OpensSound, Zenon
  <2> QED BY <1>1, <1>2, <2>2, Moves, Zenon
<1>3. CASE Becomes(r, Return(replica[r]))
  BY <1>1, <1>3, Fails, Zenon
<1> QED BY <1>2, <1>3, Zenon DEF New

\* EnsureSchema is followed by the exporter, or run returns.
LEMMA EnsureSchemaKeeps == ASSUME IInv, NEW r \in Replicas, EnsureSchema(r) PROVE IInv'
<1>1. replica[r].step = "siem" /\ UNCHANGED <<schema, ran>>
  BY Zenon DEF EnsureSchema
<1>2. CASE Becomes(r, Opened(replica[r], "exporter", "backends"))
  <2>1. Sound(replica[r], Rows) /\ replica[r].running = {} /\ "exporter" \in Resources
    BY <1>1, Known, Zenon DEF Sound, Runs, Resources
  <2>2. Sound(Opened(replica[r], "exporter", "backends"), Rows)
    BY <1>1, <2>1, OpensSound, Zenon
  <2> QED BY <1>1, <1>2, <2>2, Moves, Zenon
<1>3. CASE Becomes(r, Return(replica[r]))
  BY <1>1, <1>3, Fails, Zenon
<1> QED BY <1>2, <1>3, Zenon DEF EnsureSchema

\* The rows read are migrations.
LEMMA RowsTyped == ASSUME IInv PROVE Rows \subseteq Migrations
BY DEF IInv, SchemaInv, Rows

Looping(p, a, k) == [p EXCEPT !.step = "apply", !.applied = a, !.next = k]

\* A process in the loop of Migrate.
LEMMA LoopAt ==
  ASSUME NEW p \in Process, NEW a \in SUBSET Migrations, NEW k \in Nat \ {0},
         NEW q, q = Looping(p, a, k)
  PROVE  /\ q \in Process /\ q.step = "apply" /\ q.applied = a /\ q.next = k
         /\ q.defers = p.defers /\ q.running = p.running /\ q.release = p.release
<1>1. "apply" \in Steps
  BY Zenon DEF Steps
<1> QED BY <1>1 DEF Process, Looping

\* appliedMigrations: what was read is in the database from then on.
LEMMA ReadKeeps == ASSUME ServerConstantsOK, IInv, NEW r \in Replicas, appliedMigrations(r) PROVE IInv'
<1>1. replica[r].step = "migrate" /\ UNCHANGED <<schema, ran>>
  BY Zenon DEF appliedMigrations
<1>2. CASE Becomes(r, [replica[r] EXCEPT !.step = "apply", !.applied = Rows, !.next = 1])
  <2>1. PICK p : p = replica[r]
    OBVIOUS
  <2>2. PICK rows : rows = Rows
    OBVIOUS
  <2>3. /\ p \in Process /\ Stacked(p.defers) /\ Depth(p) /\ Runs(p) /\ p.step = "migrate"
        /\ rows \subseteq Migrations
    BY <1>1, <2>1, <2>2, Known, RowsTyped, Zenon
  <2>4. p.running = {} /\ Len(p.defers) = 2
    BY <2>3, Zenon DEF Runs, Depth
  <2>a. PICK k \in Nat \ {0} : k = 1
    OBVIOUS
  <2>5. PICK q : q = Looping(p, rows, k)
    OBVIOUS
  <2>b. rows \in SUBSET Migrations /\ p \in Process
    BY <2>3, Zenon
  <2>6. /\ q \in Process /\ q.step = "apply" /\ q.applied = rows /\ q.next = k
        /\ q.defers = p.defers /\ q.running = p.running /\ q.release = p.release
    BY ONLY k \in Nat \ {0}, <2>5, <2>b, LoopAt
  <2>7. p.release = <<>> \/ p.release \in Releases
    BY <2>3 DEF Process
  <2>8. \A i \in DOMAIN q.release : ~(i < k)
    <3>1. p.release \in Seq(Migrations)
      <4>1. <<>> \in Seq(Migrations)
        OBVIOUS
      <4> QED BY <2>7, <4>1, Zenon DEF ServerConstantsOK
    <3> QED BY <2>a, <2>6, <3>1
  <2>9. Migrated(q, rows)
    BY <2>6, <2>8, Zenon DEF Migrated
  <2>10. Depth(q)
    BY <2>4, <2>6, Zenon DEF Depth
  <2>11. Runs(q)
    BY <2>4, <2>6, Zenon DEF Runs
  <2>12. Sound(q, rows)
    BY <2>3, <2>6, <2>9, <2>10, <2>11, Zenon DEF Sound
  <2>13. Becomes(r, q)
    BY <1>2, <2>1, <2>2, <2>5, <2>a, Zenon DEF Looping
  <2> QED BY <1>1, <2>2, <2>12, <2>13, Moves, Zenon
<1>3. CASE Becomes(r, Return(replica[r]))
  BY <1>1, <1>3, Fails, Zenon
<1> QED BY <1>2, <1>3, Zenon DEF appliedMigrations

\* A release is a list of migrations.
LEMMA ReleaseTyped ==
  ASSUME ServerConstantsOK, NEW p \in Process
  PROVE  p.release \in Seq(Migrations) /\ p.next \in Nat \ {0} /\ p.applied \subseteq Migrations
<1>1. p.release = <<>> \/ p.release \in Releases
  BY DEF Process
<1>2. <<>> \in Seq(Migrations)
  OBVIOUS
<1>3. p.release \in Seq(Migrations)
  BY <1>1, <1>2, Zenon DEF ServerConstantsOK
<1>4. p.next \in Nat \ {0} /\ p.applied \subseteq Migrations
  BY DEF Process
<1> QED BY <1>3, <1>4, Zenon

\* applyOne: one more row, of a name that had none.
LEMMA ApplyKeeps ==
  ASSUME SchemaInv, NEW mig \in Migrations, mig.name \notin {row.name : row \in Rows}, applyOne(mig)
  PROVE  SchemaInv' /\ Rows' = Rows \cup {mig}
<1>1. schema \in Seq(Migrations) /\ ran \in [Names -> {0, 1}] /\ mig.name \in Names
  BY DEF SchemaInv, Migrations
<1>2. \A i \in DOMAIN schema : schema[i].name # mig.name
  BY DEF Rows
<1>3. schema' \in Seq(Migrations)
  BY <1>1 DEF applyOne
<1>4. PICK n \in Nat : n = Len(schema)
  BY <1>1
<1>5. /\ DOMAIN schema = 1 .. n /\ DOMAIN schema' = 1 .. n + 1
      /\ schema'[n + 1] = mig /\ \A i \in 1 .. n : schema'[i] = schema[i]
  BY <1>1, <1>4 DEF applyOne
<1>6. Rows' = Rows \cup {mig}
  BY <1>5 DEF Rows
<1>7. \A i, j \in DOMAIN schema' : schema'[i].name = schema'[j].name => i = j
  <2>1. \A i, j \in 1 .. n : schema[i].name = schema[j].name => i = j
    BY <1>5, Zenon DEF SchemaInv, AppliedOnce
  <2>2. \A i \in 1 .. n : schema[i].name # mig.name
    BY <1>2, <1>5, Zenon
  <2>3. \A i \in DOMAIN schema' : i \in 1 .. n \/ i = n + 1
    BY <1>4, <1>5
  <2> QED BY <1>5, <2>1, <2>2, <2>3, Zenon
<1>8. ran[mig.name] = 0
  BY <1>1, <1>2 DEF SchemaInv, AppliedOnce
<1>9. ran' \in [Names -> {0, 1}] /\ \A m \in Names : ran'[m] = IF m = mig.name THEN 1 ELSE ran[m]
  BY <1>1, <1>8 DEF applyOne
<1>10. ASSUME NEW m \in Names
       PROVE  ran'[m] = IF \E i \in DOMAIN schema' : schema'[i].name = m THEN 1 ELSE 0
  <2>1. CASE m = mig.name
    <3>1. n + 1 \in DOMAIN schema' /\ schema'[n + 1].name = m
      BY <1>4, <1>5, <2>1
    <3> QED BY <1>9, <2>1, <3>1, Zenon
  <2>2. CASE m # mig.name
    <3>1. ran[m] = IF \E i \in DOMAIN schema : schema[i].name = m THEN 1 ELSE 0
      BY Zenon DEF SchemaInv, AppliedOnce
    <3>2. (\E i \in DOMAIN schema' : schema'[i].name = m) <=> (\E i \in DOMAIN schema : schema[i].name = m)
      <4>1. \A i \in DOMAIN schema' : i \in 1 .. n \/ i = n + 1
        BY <1>4, <1>5
      <4>2. \A i \in 1 .. n : i \in DOMAIN schema'
        BY <1>4, <1>5
      <4> QED BY <1>5, <2>2, <4>1, <4>2, Zenon
    <3> QED BY <1>9, <2>2, <3>1, <3>2, Zenon
  <2> QED BY <2>1, <2>2, Zenon
<1>11. AppliedOnce'
  BY <1>7, <1>10, Zenon DEF AppliedOnce
<1> QED BY <1>3, <1>6, <1>9, <1>11, Zenon DEF SchemaInv

\* What is sound with some rows is sound with more.
LEMMA MoreRows ==
  ASSUME NEW p, NEW rows, NEW more, rows \subseteq more, Sound(p, rows)
  PROVE  Sound(p, more)
BY Zenon DEF Sound, Migrated

\* A step of one replica that adds rows.
LEMMA MovesOn ==
  ASSUME IInv, SchemaInv', Rows \subseteq Rows', NEW r \in Replicas, NEW q, Becomes(r, q), Sound(q, Rows')
  PROVE  IInv'
<1>1. DOMAIN replica' = Replicas /\ \A o \in Replicas : replica'[o] = IF o = r THEN q ELSE replica[o]
  BY Zenon DEF IInv, Becomes
<1>2. \A o \in Replicas : Sound(replica[o], Rows')
  <2>1. PICK more : more = Rows'
    OBVIOUS
  <2> QED BY <2>1, MoreRows, Zenon DEF IInv
<1> QED BY <1>1, <1>2, Zenon DEF IInv

\* The loop goes on past a migration that is in the database.
LEMMA AdvancedSound ==
  ASSUME ServerConstantsOK, NEW p, NEW rows, Sound(p, rows), p.step = "apply",
         p.next <= Len(p.release), p.release[p.next] \in rows
  PROVE  Sound([p EXCEPT !.next = @ + 1], rows)
<1>1. p \in Process
  BY Zenon DEF Sound
<1>2. p.release \in Seq(Migrations) /\ p.next \in Nat \ {0}
  BY <1>1, ReleaseTyped, Zenon
<1>3. PICK k \in Nat \ {0} : k = p.next + 1
  BY <1>2
<1>4. PICK q : q = [p EXCEPT !.next = @ + 1]
  OBVIOUS
<1>5. /\ q \in Process /\ q.next = k
      /\ q.step = p.step /\ q.applied = p.applied /\ q.release = p.release /\ q.defers = p.defers
      /\ q.running = p.running /\ q.exit = p.exit
  BY ONLY <1>1, <1>3, <1>4 DEF Process
<1>6. \A i \in DOMAIN p.release : i < k => i < p.next \/ i = p.next
  BY <1>2, <1>3
<1>7. \A i \in DOMAIN p.release : i < k => p.release[i] \in rows
  BY <1>6, Zenon DEF Sound, Migrated
<1>8. Migrated(q, rows)
  BY <1>5, <1>7, Zenon DEF Sound, Migrated
<1>9. Depth(q) /\ Runs(q)
  BY <1>5, Zenon DEF Sound, Depth, Runs
<1> QED BY <1>4, <1>5, <1>8, <1>9, Zenon DEF Sound

\* The loop has ended.
LEMMA LoopEnds ==
  ASSUME ServerConstantsOK, NEW p, NEW rows, Sound(p, rows), p.step = "apply", p.next > Len(p.release)
  PROVE  Sound([p EXCEPT !.step = "redis"], rows)
<1>1. p \in Process /\ "redis" \in Steps
  BY Zenon DEF Sound, Steps
<1>2. p.release \in Seq(Migrations) /\ p.next \in Nat \ {0}
  BY <1>1, ReleaseTyped, Zenon
<1>4. PICK q : q = [p EXCEPT !.step = "redis"]
  OBVIOUS
<1>5. /\ q \in Process /\ q.step = "redis" /\ q.applied = p.applied /\ q.release = p.release
      /\ q.defers = p.defers /\ q.running = p.running /\ q.exit = p.exit
  BY ONLY <1>1, <1>4, StepTo
<1>6. \A i \in DOMAIN p.release : i < p.next
  BY <1>2
<1>8. Migrated(q, rows)
  BY <1>5, <1>6, Zenon DEF Sound, Migrated
<1>9. Depth(q) /\ Runs(q)
  BY <1>5, Zenon DEF Sound, Depth, Runs
<1> QED BY <1>4, <1>5, <1>8, <1>9, Zenon DEF Sound

\* One round of the loop: skipped, refused, applied, or applied without an answer.
LEMMA MigrateKeeps == ASSUME ServerConstantsOK, IInv, NEW r \in Replicas, Migrate(r) PROVE IInv'
<1>1. PICK p : p = replica[r]
  OBVIOUS
<1>2. p.step = "apply" /\ Sound(p, Rows) /\ p \in Process /\ p.running = {} /\ SchemaInv
  BY <1>1, Zenon DEF IInv, Migrate, Sound, Runs
<1>3. PICK mig : mig = p.release[p.next]
  OBVIOUS
<1>4. p.next <= Len(p.release) => mig \in Migrations
  BY <1>2, <1>3, ReleaseTyped
<1>5. Sound(Return(p), Rows)
  BY <1>2, ReturnSound, Zenon
<1>6. CASE p.next > Len(p.release) /\ Becomes(r, [p EXCEPT !.step = "redis"]) /\ UNCHANGED <<schema, ran>>
  BY <1>2, <1>6, LoopEnds, Moves, Zenon
<1>7. CASE Becomes(r, Return(p)) /\ UNCHANGED <<schema, ran>>
  BY <1>5, <1>7, Moves, Zenon
<1>8. CASE /\ p.next <= Len(p.release) /\ ~Mismatch(mig, p.applied) /\ mig.name \in {row.name : row \in p.applied}
           /\ Becomes(r, [p EXCEPT !.next = @ + 1]) /\ UNCHANGED <<schema, ran>>
  <2>1. PICK row \in p.applied : row.name = mig.name /\ row.sum = mig.sum
    BY <1>8, Zenon DEF Mismatch
  <2>2. row \in Migrations /\ row \in Rows
    BY <1>2, ReleaseTyped, Zenon DEF Sound, Migrated
  <2>3. row = mig
    BY <1>4, <1>8, <2>1, <2>2 DEF Migrations
  <2>4. p.release[p.next] \in Rows
    BY <1>3, <2>2, <2>3, Zenon
  <2>5. Sound([p EXCEPT !.next = @ + 1], Rows)
    BY <1>2, <1>8, <2>4, AdvancedSound, Zenon
  <2> QED BY <1>8, <2>5, Moves, Zenon
<1>9. CASE /\ p.next <= Len(p.release) /\ mig.name \notin {row.name : row \in Rows} /\ applyOne(mig)
           /\ Becomes(r, [p EXCEPT !.next = @ + 1]) \/ Becomes(r, Return(p))
  <2>1. SchemaInv' /\ Rows' = Rows \cup {mig}
    BY <1>2, <1>4, <1>9, ApplyKeeps, Zenon
  <2>2. PICK more : more = Rows'
    OBVIOUS
  <2>3. Rows \subseteq more /\ mig \in more
    BY <2>1, <2>2, Zenon
  <2>4. Sound(p, more) /\ Sound(Return(p), more)
    BY <1>2, <1>5, <2>3, MoreRows, Zenon
  <2>5. Sound([p EXCEPT !.next = @ + 1], more)
    BY <1>2, <1>3, <1>9, <2>3, <2>4, AdvancedSound, Zenon
  <2> QED BY <1>9, <2>1, <2>2, <2>3, <2>4, <2>5, MovesOn, Zenon
<1> QED BY <1>1, <1>3, <1>6, <1>7, <1>8, <1>9, Zenon DEF Migrate

\* NewRedis and the dispatcher, and a failure of the sealer between them.
LEMMA NewRedisKeeps == ASSUME IInv, NEW r \in Replicas, NewRedis(r) PROVE IInv'
<1>1. replica[r].step = "redis" /\ UNCHANGED <<schema, ran>>
  BY Zenon DEF NewRedis
<1>2. PICK p : p = replica[r]
  OBVIOUS
<1>3. /\ p \in Process /\ Stacked(p.defers) /\ Len(p.defers) = 2 /\ p.running = {}
      /\ \A i \in DOMAIN p.release : p.release[i] \in Rows
  BY <1>1, <1>2, Known, Zenon DEF Depth, Runs, Migrated
<1>4. /\ "redis" \in Resources /\ "dispatcher" \in Resources
      /\ "redis" \in Steps /\ "siem" \in Steps /\ "unwind" \in Steps
  BY Zenon DEF Resources, Steps
<1>5. PICK o : o = Opened(p, "redis", "redis")
  OBVIOUS
<1>6. o \in Process /\ o.defers = Append(p.defers, "redis") /\ o.running = p.running /\ o.release = p.release
  <2>1. PICK x \in Resources, s \in Steps : x = "redis" /\ s = "redis"
    BY <1>4, Zenon
  <2>2. p \in Process /\ o = Opened(p, x, s)
    BY <1>3, <1>5, <2>1, Zenon
  <2> QED BY ONLY x \in Resources, s \in Steps, <2>1, <2>2, OpenedIs
<1>7. Stacked(o.defers) /\ Len(o.defers) = 3
  <2>1. Stacked(o.defers) /\ Len(o.defers) = Len(p.defers) + 1
    BY <1>3, <1>4, <1>6, StackGrows, Zenon
  <2> QED BY ONLY <1>3, <2>1
<1>8. CASE Becomes(r, Opened(o, "dispatcher", "siem"))
  <2>1. PICK q : q = Opened(o, "dispatcher", "siem")
    OBVIOUS
  <2>2. /\ q \in Process /\ q.step = "siem" /\ q.defers = Append(o.defers, "dispatcher")
        /\ q.running = o.running /\ q.release = o.release
    <3>1. PICK x \in Resources, s \in Steps : x = "dispatcher" /\ s = "siem"
      BY <1>4, Zenon
    <3>2. o \in Process /\ q = Opened(o, x, s)
      BY <1>6, <2>1, <3>1, Zenon
    <3> QED BY ONLY x \in Resources, s \in Steps, <3>1, <3>2, OpenedIs
  <2>3. Stacked(q.defers) /\ Len(q.defers) = Len(o.defers) + 1
    BY <1>4, <1>7, <2>2, StackGrows, Zenon
  <2>4. Len(q.defers) = 4
    BY ONLY <1>7, <2>3
  <2>5. Migrated(q, Rows)
    BY <1>3, <1>6, <2>2, Zenon DEF Migrated
  <2>6. Depth(q)
    BY <2>2, <2>4, Zenon DEF Depth
  <2>7. Runs(q)
    BY <1>3, <1>6, <2>2, Zenon DEF Runs
  <2>8. Sound(q, Rows)
    BY <2>2, <2>3, <2>5, <2>6, <2>7, Zenon DEF Sound
  <2> QED BY <1>1, <1>8, <2>1, <2>8, Moves, Zenon
<1>9. CASE Becomes(r, Return(replica[r]))
  BY <1>1, <1>9, Fails, Zenon
<1>10. CASE Becomes(r, Return(o))
  <2>1. PICK q : q = Return(o)
    OBVIOUS
  <2>2. q \in Process /\ q.step = "unwind" /\ q.defers = o.defers /\ q.running = o.running
    BY ONLY <1>4, <1>6, <2>1, StepTo DEF Return
  <2>5. Migrated(q, Rows) /\ Depth(q) /\ Runs(q)
    BY <1>3, <1>6, <2>2, Zenon DEF Migrated, Depth, Runs
  <2>8. Sound(q, Rows)
    BY <1>7, <2>2, <2>5, Zenon DEF Sound
  <2> QED BY <1>1, <1>10, <2>1, <2>8, Moves, Zenon
<1> QED BY <1>2, <1>5, <1>8, <1>9, <1>10, Zenon DEF NewRedis

\* The pipeline is opened, and something starts to run.
Piped(p, s, t) == [p EXCEPT !.defers = @ \o pipelineDefers, !.step = s, !.running = t]

\* A process with the pipeline open.
LEMMA PipedIs ==
  ASSUME NEW p \in Process, NEW s \in Steps, NEW t \in SUBSET Tasks, NEW q, q = Piped(p, s, t)
  PROVE  /\ q \in Process /\ q.step = s /\ q.defers = p.defers \o pipelineDefers
         /\ q.running = t /\ q.exit = p.exit /\ q.release = p.release
<1>1. p.defers \in Seq(Resources)
  BY Zenon DEF Process
<1>2. p.defers \o pipelineDefers \in Seq(Resources)
  BY <1>1 DEF pipelineDefers, Resources
<1> QED BY <1>2 DEF Process, Piped

\* The broker, the store and what is started on them, or run returns with the writer running.
LEMMA backendsKeeps == ASSUME IInv, NEW r \in Replicas, backends(r) PROVE IInv'
<1>1. replica[r].step = "backends" /\ UNCHANGED <<schema, ran>>
  BY Zenon DEF backends
<1>2. PICK p : p = replica[r]
  OBVIOUS
<1>3. /\ p \in Process /\ Stacked(p.defers) /\ Len(p.defers) = 5 /\ p.running = {}
      /\ \A i \in DOMAIN p.release : p.release[i] \in Rows
  BY <1>1, <1>2, Known, Zenon DEF Depth, Runs, Migrated
<1>4. Stacked(p.defers \o pipelineDefers) /\ Len(p.defers \o pipelineDefers) = 7
  BY <1>3, StackFull, Zenon
<1>5. "serve" \in Steps /\ "unwind" \in Steps
  BY Zenon DEF Steps
<1>6. PICK t \in SUBSET Tasks : t = {"writer", "purger", "canary", "listener"}
  BY DEF Tasks
<1>7. PICK u \in SUBSET Tasks : u = {"writer"}
  BY DEF Tasks
<1>8. CASE Becomes(r, [p EXCEPT !.defers = @ \o pipelineDefers, !.step = "serve", !.running = t])
  <2>1. PICK q : q = Piped(p, "serve", t)
    OBVIOUS
  <2>2. /\ q \in Process /\ q.step = "serve" /\ q.defers = p.defers \o pipelineDefers
        /\ q.running = t /\ q.release = p.release
    BY ONLY <1>3, <1>5, t \in SUBSET Tasks, <2>1, PipedIs
  <2>3. Migrated(q, Rows)
    BY <1>3, <2>2, Zenon DEF Migrated
  <2>4. Depth(q) /\ Runs(q)
    BY <1>4, <1>6, <2>2, Zenon DEF Depth, Runs
  <2>5. Sound(q, Rows)
    BY <1>4, <2>2, <2>3, <2>4, Zenon DEF Sound
  <2>6. Becomes(r, q)
    BY <1>8, <2>1, Zenon DEF Piped
  <2> QED BY <1>1, <2>5, <2>6, Moves, Zenon
<1>9. CASE Becomes(r, Return(p))
  BY <1>1, <1>2, <1>9, Fails, Zenon
<1>10. CASE Becomes(r, Return([p EXCEPT !.defers = @ \o pipelineDefers, !.running = u]))
  <2>1. PICK q : q = Return([p EXCEPT !.defers = @ \o pipelineDefers, !.running = u])
    OBVIOUS
  <2>a. q = Piped(p, "unwind", u)
    BY <1>3, <2>1 DEF Return, Piped, Process
  <2>2. /\ q \in Process /\ q.step = "unwind" /\ q.defers = p.defers \o pipelineDefers
        /\ q.running = u /\ q.release = p.release
    BY ONLY <1>3, <1>5, u \in SUBSET Tasks, <2>a, PipedIs
  <2>3. Migrated(q, Rows)
    BY <2>2, Zenon DEF Migrated
  <2>4. Depth(q)
    BY <1>4, <2>2, Zenon DEF Depth
  <2>b. Runs(q)
    BY <1>7, <2>2 DEF Runs
  <2>5. Sound(q, Rows)
    BY <1>4, <2>2, <2>3, <2>4, <2>b, Zenon DEF Sound
  <2> QED BY <1>1, <1>10, <2>1, <2>5, Moves, Zenon
<1> QED BY <1>2, <1>6, <1>7, <1>8, <1>9, <1>10, Zenon DEF backends

-----------------------------------------------------------------------------
(* Serving and stopping.                                                    *)

Ran(p, t) == [p EXCEPT !.running = t]
Turned(p, s, t) == [p EXCEPT !.step = s, !.running = t]

\* A process of which something else runs.
LEMMA RanIs ==
  ASSUME NEW p \in Process, NEW t \in SUBSET Tasks, NEW q, q = Ran(p, t)
  PROVE  /\ q \in Process /\ q.step = p.step /\ q.defers = p.defers /\ q.running = t
         /\ q.exit = p.exit /\ q.release = p.release /\ q.applied = p.applied /\ q.next = p.next
BY DEF Process, Ran

\* A process that moves on while something else runs.
LEMMA TurnedIs ==
  ASSUME NEW p \in Process, NEW s \in Steps, NEW t \in SUBSET Tasks, NEW q, q = Turned(p, s, t)
  PROVE  /\ q \in Process /\ q.step = s /\ q.defers = p.defers /\ q.running = t
         /\ q.exit = p.exit /\ q.release = p.release /\ q.applied = p.applied /\ q.next = p.next
BY DEF Process, Turned

\* What runs is one of the tasks of run.
LEMMA TasksOf == ASSUME NEW p \in Process PROVE p.running \in SUBSET Tasks
BY DEF Process

\* A task ends: less runs, at the same step.
LEMMA EndsSound ==
  ASSUME NEW p, NEW rows, Sound(p, rows), NEW w
  PROVE  Sound([p EXCEPT !.running = @ \ {w}], rows)
<1>1. p \in Process /\ p.running \in SUBSET Tasks
  BY TasksOf, Zenon DEF Sound
<1>2. PICK t \in SUBSET Tasks : t = p.running \ {w}
  BY <1>1
<1>3. PICK q : q = Ran(p, t)
  OBVIOUS
<1>4. /\ q \in Process /\ q.step = p.step /\ q.defers = p.defers /\ q.running = t
      /\ q.exit = p.exit /\ q.release = p.release /\ q.applied = p.applied /\ q.next = p.next
  BY ONLY <1>1, t \in SUBSET Tasks, <1>3, RanIs
<1>5. \A x \in t : x \in p.running
  BY <1>2, Zenon
<1>7. Migrated(q, rows)
  BY <1>4, Zenon DEF Sound, Migrated
<1>8. Depth(q)
  BY <1>4, <1>5, Zenon DEF Sound, Depth
<1>9. Runs(q)
  <2>1. q.step \notin {"serve", "wait", "shutdown", "unwind", "drain"} => q.running = {}
    BY <1>4, <1>5, Zenon DEF Sound, Runs
  <2>2. q.step \in {"shutdown", "unwind", "drain"} => q.running \cap {"purger", "canary"} = {}
    BY <1>4, <1>5, Zenon DEF Sound, Runs
  <2>3. "handler" \in q.running /\ q.exit = "" => q.step \in {"serve", "wait", "shutdown"}
    BY <1>4, <1>5, Zenon DEF Sound, Runs
  <2> QED BY <2>1, <2>2, <2>3, Zenon DEF Runs
<1>10. q = [p EXCEPT !.running = @ \ {w}]
  BY <1>2, <1>3, Zenon DEF Ran
<1> QED BY <1>4, <1>7, <1>8, <1>9, <1>10, Zenon DEF Sound

\* A request is answered.
LEMMA AnswerKeeps == ASSUME IInv, NEW r \in Replicas, Answer(r) PROVE IInv'
<1>1. Sound([replica[r] EXCEPT !.running = @ \ {"handler"}], Rows)
  BY EndsSound, Zenon DEF IInv
<1> QED BY <1>1, Moves, Zenon DEF Answer

\* A worker of bg ends.
LEMMA WorkerKeeps ==
  ASSUME IInv, NEW r \in Replicas, NEW w \in {"purger", "canary"}, WorkerEnds(r, w)
  PROVE  IInv'
<1>1. Sound([replica[r] EXCEPT !.running = @ \ {w}], Rows)
  BY EndsSound, Zenon DEF IInv
<1> QED BY <1>1, Moves, Zenon DEF WorkerEnds

\* A request arrives while there is a listener.
LEMMA RequestKeeps == ASSUME IInv, NEW r \in Replicas, Request(r) PROVE IInv'
<1>1. PICK p : p = replica[r]
  OBVIOUS
<1>2. /\ p.step \in {"serve", "wait"} /\ "handler" \in Tasks
      /\ p \in Process /\ p.running \in SUBSET Tasks /\ Sound(p, Rows)
  BY <1>1, TasksOf, Known, Zenon DEF Request, IInv, Tasks
<1>3. PICK t \in SUBSET Tasks : t = p.running \cup {"handler"}
  BY <1>2
<1>4. PICK q : q = Ran(p, t)
  OBVIOUS
<1>5. /\ q \in Process /\ q.step = p.step /\ q.defers = p.defers /\ q.running = t
      /\ q.exit = p.exit /\ q.release = p.release /\ q.applied = p.applied /\ q.next = p.next
  BY ONLY <1>2, t \in SUBSET Tasks, <1>4, RanIs
<1>6. Migrated(q, Rows)
  BY <1>2, <1>5, Zenon DEF Sound, Migrated
<1>7. Depth(q) /\ Runs(q)
  BY <1>2, <1>3, <1>5, Zenon DEF Sound, Depth, Runs
<1>8. Sound(q, Rows)
  BY <1>2, <1>5, <1>6, <1>7, Zenon DEF Sound
<1>9. Becomes(r, q) /\ UNCHANGED <<schema, ran>>
  BY <1>1, <1>3, <1>4, Zenon DEF Request, Ran
<1> QED BY <1>8, <1>9, Moves, Zenon

\* A termination signal.
LEMMA SignalKeeps == ASSUME IInv, NEW r \in Replicas, Signal(r) PROVE IInv'
<1>1. PICK p : p = replica[r]
  OBVIOUS
<1>2. p.step = "serve" /\ p \in Process /\ Sound(p, Rows) /\ "wait" \in Steps
  BY <1>1, Known, Zenon DEF Signal, IInv, Steps
<1>3. PICK q : q = [p EXCEPT !.step = "wait"]
  OBVIOUS
<1>4. /\ q \in Process /\ q.step = "wait" /\ q.defers = p.defers /\ q.running = p.running
      /\ q.exit = p.exit /\ q.release = p.release
  BY ONLY <1>2, <1>3, StepTo
<1>5. Migrated(q, Rows)
  BY <1>4, Zenon DEF Migrated
<1>6. Depth(q) /\ Runs(q)
  BY <1>2, <1>4, Zenon DEF Sound, Depth, Runs
<1>7. Sound(q, Rows)
  BY <1>2, <1>4, <1>5, <1>6, Zenon DEF Sound
<1> QED BY <1>1, <1>3, <1>7, Moves, Zenon DEF Signal

Failed(p, t) == [p EXCEPT !.step = "wait", !.running = t, !.exit = "error"]

\* The listener failed, whatever is in flight: run is to return its error.
LEMMA ListenFailsKeeps == ASSUME IInv, NEW r \in Replicas, ListenFails(r) PROVE IInv'
<1>1. PICK p : p = replica[r]
  OBVIOUS
<1>2. /\ p.step = "serve" /\ p \in Process /\ p.running \in SUBSET Tasks /\ Sound(p, Rows) /\ "wait" \in Steps
  BY <1>1, TasksOf, Known, Zenon DEF ListenFails, IInv, Steps
<1>3. PICK t \in SUBSET Tasks : t = p.running \ {"listener"}
  BY <1>2
<1>4. PICK q : q = Failed(p, t)
  OBVIOUS
<1>5. /\ q \in Process /\ q.step = "wait" /\ q.defers = p.defers /\ q.running = t
  BY ONLY <1>2, t \in SUBSET Tasks, <1>4 DEF Process, Failed
<1>6. Migrated(q, Rows)
  BY <1>5, Zenon DEF Migrated
<1>7. Depth(q) /\ Runs(q)
  BY <1>2, <1>5, Zenon DEF Sound, Depth, Runs
<1>8. Sound(q, Rows)
  BY <1>2, <1>5, <1>6, <1>7, Zenon DEF Sound
<1>9. Becomes(r, q) /\ UNCHANGED <<schema, ran>>
  BY <1>1, <1>3, <1>4, Zenon DEF ListenFails, Failed
<1> QED BY <1>8, <1>9, Moves, Zenon

\* run returns with nothing of bg running: no request is in flight, or its error is the listener's.
LEMMA LeavesSound ==
  ASSUME NEW p, NEW rows, Sound(p, rows), p.running \cap {"purger", "canary"} = {},
         p.step \in {"wait", "shutdown"}, "handler" \notin p.running \/ p.exit # ""
  PROVE  Sound(Return(p), rows)
<1>1. p \in Process /\ "unwind" \in Steps
  BY Zenon DEF Sound, Steps
<1>2. PICK q : q = Return(p)
  OBVIOUS
<1>3. q \in Process /\ q.step = "unwind" /\ q.defers = p.defers /\ q.running = p.running /\ q.exit = p.exit
  BY ONLY <1>1, <1>2, StepTo DEF Return
<1>4. Migrated(q, rows)
  BY <1>3, Zenon DEF Migrated
<1>5. Depth(q) /\ Runs(q)
  BY <1>3, Zenon DEF Sound, Depth, Runs
<1> QED BY <1>2, <1>3, <1>4, <1>5, Zenon DEF Sound

\* bg.Wait; then the listener's error is returned, or Shutdown stops the listener.
LEMMA WaitKeeps == ASSUME IInv, NEW r \in Replicas, Wait(r) PROVE IInv'
<1>1. PICK p : p = replica[r]
  OBVIOUS
<1>2. /\ Sound(p, Rows) /\ p.step = "wait" /\ bgWait(p) /\ "shutdown" \in Steps /\ UNCHANGED <<schema, ran>>
      /\ p \in Process /\ p.running \in SUBSET Tasks
  BY <1>1, TasksOf, Zenon DEF IInv, Wait, Steps, Sound
<1>3. CASE p.exit # "error"
  <2>1. PICK t \in SUBSET Tasks : t = p.running \ {"listener"}
    BY <1>2
  <2>2. PICK q : q = Turned(p, "shutdown", t)
    OBVIOUS
  <2>3. /\ q \in Process /\ q.step = "shutdown" /\ q.defers = p.defers /\ q.running = t
    BY ONLY <1>2, t \in SUBSET Tasks, <2>2, TurnedIs
  <2>4. t \cap {"purger", "canary"} = {}
    BY <1>2, <2>1 DEF bgWait
  <2>5. Migrated(q, Rows) /\ Depth(q) /\ Runs(q)
    BY <1>2, <2>3, <2>4, Zenon DEF Sound, Migrated, Depth, Runs
  <2>6. Sound(q, Rows)
    BY <1>2, <2>3, <2>5, Zenon DEF Sound
  <2>7. Becomes(r, q)
    BY <1>1, <1>3, <2>1, <2>2, Zenon DEF Wait, Turned
  <2> QED BY <1>2, <2>6, <2>7, Moves, Zenon
<1>4. CASE p.exit = "error"
  <2>1. p.exit # ""
    BY <1>4
  <2>2. Sound(Return(p), Rows)
    BY <1>2, <2>1, LeavesSound, Zenon DEF bgWait
  <2> QED BY <1>1, <1>2, <1>4, <2>2, Moves, Zenon DEF Wait
<1> QED BY <1>3, <1>4, Zenon

\* srv.Shutdown has drained the requests, or gave up on them.
LEMMA ShutdownKeeps == ASSUME IInv, NEW r \in Replicas, Shutdown(r) PROVE IInv'
<1>1. PICK p : p = replica[r]
  OBVIOUS
<1>2. /\ Sound(p, Rows) /\ p.step = "shutdown" /\ p \in Process /\ UNCHANGED <<schema, ran>>
      /\ p.running \cap {"purger", "canary"} = {}
  BY <1>1, Zenon DEF IInv, Shutdown, Sound, Runs
<1>3. CASE "handler" \notin p.running /\ Becomes(r, Return(p))
  BY <1>2, <1>3, LeavesSound, Moves, Zenon
<1>4. CASE Becomes(r, [Return(p) EXCEPT !.exit = "timeout"])
  <2>1. PICK q : q = [Return(p) EXCEPT !.exit = "timeout"]
    OBVIOUS
  <2>2. "unwind" \in Steps
    BY Zenon DEF Steps
  <2>3. /\ q \in Process /\ q.step = "unwind" /\ q.defers = p.defers /\ q.running = p.running
        /\ q.exit = "timeout"
    BY ONLY <1>2, <2>1, <2>2 DEF Return, Process
  <2>4. Migrated(q, Rows)
    BY <2>3, Zenon DEF Migrated
  <2>5. Depth(q) /\ Runs(q)
    BY <1>2, <2>3, Zenon DEF Sound, Depth, Runs
  <2>6. Sound(q, Rows)
    BY <1>2, <2>3, <2>4, <2>5, Zenon DEF Sound
  <2> QED BY <1>2, <1>4, <2>1, <2>6, Moves, Zenon
<1> QED BY <1>1, <1>3, <1>4, Zenon DEF Shutdown

Popped(p, s, d) == [p EXCEPT !.step = s, !.defers = d]

\* A process that closes the last thing it opened.
LEMMA PoppedIs ==
  ASSUME NEW p \in Process, NEW s \in Steps, NEW d \in Seq(Resources), NEW q, q = Popped(p, s, d)
  PROVE  /\ q \in Process /\ q.step = s /\ q.defers = d /\ q.running = p.running
         /\ q.exit = p.exit /\ q.release = p.release
BY DEF Process, Popped

\* Only a full stack has the broker on top.
LEMMA Top ==
  ASSUME NEW d, Stacked(d), d # <<>>
  PROVE  d[Len(d)] = "broker" <=> Len(d) = 7
<1>1. PICK n \in Nat : n = Len(d) /\ n # 0
  BY DEF Stacked
<1>2. n <= 7
  BY <1>1, Zenon DEF Stacked
<1>3. /\ n = 1 => d[n] = "telemetry"
      /\ n = 2 => d[n] = "db"
      /\ n = 3 => d[n] = "redis"
      /\ n = 4 => d[n] = "dispatcher"
      /\ n = 5 => d[n] = "exporter"
      /\ n = 6 => d[n] = "analytics"
      /\ n = 7 => d[n] = "broker"
  BY <1>1 DEF Stacked, At
<1>4. n = 1 \/ n = 2 \/ n = 3 \/ n = 4 \/ n = 5 \/ n = 6 \/ n = 7
  <2>1. n # 0 BY <1>1, Zenon
  <2> QED BY ONLY n \in Nat, <1>2, <2>1
<1>5. d[n] = "broker" <=> n = 7
  BY <1>3, <1>4
<1> QED BY <1>1, <1>5, Zenon

\* A deferred call: the broker first of all, and the writer waits for it with the store open.
LEMMA DeferredKeeps == ASSUME IInv, NEW r \in Replicas, Deferred(r) PROVE IInv'
<1>1. PICK p : p = replica[r]
  OBVIOUS
<1>2. /\ Sound(p, Rows) /\ p.step = "unwind" /\ p \in Process /\ UNCHANGED <<schema, ran>>
      /\ Stacked(p.defers) /\ Depth(p) /\ Runs(p)
  BY <1>1, Zenon DEF IInv, Deferred, Sound
<1>3. CASE p.defers = <<>>
  <2>1. PICK t \in SUBSET Tasks : t = {}
    OBVIOUS
  <2>2. PICK q : q = Turned(p, "exited", t)
    OBVIOUS
  <2>3. "exited" \in Steps
    BY Zenon DEF Steps
  <2>4. q \in Process /\ q.step = "exited" /\ q.defers = p.defers /\ q.running = t
    BY ONLY <1>2, t \in SUBSET Tasks, <2>2, <2>3, TurnedIs
  <2>5. Migrated(q, Rows) /\ Depth(q) /\ Runs(q)
    BY <2>1, <2>4, Zenon DEF Migrated, Depth, Runs
  <2>6. Sound(q, Rows)
    BY <1>2, <2>4, <2>5, Zenon DEF Sound
  <2>7. Becomes(r, q)
    BY <1>1, <1>3, <2>1, <2>2, Zenon DEF Deferred, Turned
  <2> QED BY <1>2, <2>6, <2>7, Moves, Zenon
<1>4. CASE p.defers # <<>>
  <2>1. PICK d : d = SubSeq(p.defers, 1, Len(p.defers) - 1)
    OBVIOUS
  <2>2. Stacked(d) /\ Len(d) = Len(p.defers) - 1
    BY <1>2, <1>4, <2>1, StackShrinks
  <2>3. d \in Seq(Resources) /\ "drain" \in Steps /\ "unwind" \in Steps
    BY <2>2, Zenon DEF Stacked, Steps
  <2>4. p.defers[Len(p.defers)] = "broker" <=> Len(p.defers) = 7
    BY <1>2, <1>4, Top, Zenon
  <2>5. CASE p.defers[Len(p.defers)] = "broker"
    <3>1. PICK q : q = Popped(p, "drain", d)
      OBVIOUS
    <3>2. q \in Process /\ q.step = "drain" /\ q.defers = d /\ q.running = p.running /\ q.exit = p.exit
      BY ONLY <1>2, <2>3, <3>1, PoppedIs
    <3>3. Len(d) = 6
      BY ONLY <2>2, <2>4, <2>5
    <3>4. Migrated(q, Rows) /\ Depth(q) /\ Runs(q)
      BY <1>2, <3>2, <3>3, Zenon DEF Migrated, Depth, Runs
    <3>5. Sound(q, Rows)
      BY <2>2, <3>2, <3>4, Zenon DEF Sound
    <3>6. Becomes(r, q)
      BY <1>1, <1>4, <2>1, <2>5, <3>1, Zenon DEF Deferred, Popped
    <3> QED BY <1>2, <3>5, <3>6, Moves, Zenon
  <2>6. CASE p.defers[Len(p.defers)] # "broker"
    <3>1. PICK q : q = [p EXCEPT !.defers = d]
      OBVIOUS
    <3>2. q \in Process /\ q.step = "unwind" /\ q.defers = d /\ q.running = p.running /\ q.exit = p.exit
      BY ONLY <1>2, <2>3, <3>1 DEF Process
    <3>3. "writer" \notin p.running
      BY <1>2, <2>4, <2>6, Zenon DEF Depth
    <3>4. Migrated(q, Rows) /\ Depth(q) /\ Runs(q)
      BY <1>2, <3>2, <3>3, Zenon DEF Migrated, Depth, Runs
    <3>5. Sound(q, Rows)
      BY <2>2, <3>2, <3>4, Zenon DEF Sound
    <3>6. Becomes(r, q)
      BY <1>1, <1>4, <2>1, <2>6, <3>1, Zenon DEF Deferred
    <3> QED BY <1>2, <3>5, <3>6, Moves, Zenon
  <2> QED BY <2>5, <2>6, Zenon
<1> QED BY <1>3, <1>4, Zenon

\* <-writerDone.
LEMMA DrainKeeps == ASSUME IInv, NEW r \in Replicas, WriterDrains(r) PROVE IInv'
<1>1. PICK p : p = replica[r]
  OBVIOUS
<1>2. /\ Sound(p, Rows) /\ p.step = "drain" /\ p \in Process /\ p.running \in SUBSET Tasks
      /\ Runs(p) /\ "unwind" \in Steps
  BY <1>1, TasksOf, Zenon DEF IInv, WriterDrains, Sound, Steps
<1>3. PICK t \in SUBSET Tasks : t = p.running \ {"writer"}
  BY <1>2
<1>4. PICK q : q = Turned(p, "unwind", t)
  OBVIOUS
<1>5. q \in Process /\ q.step = "unwind" /\ q.defers = p.defers /\ q.running = t /\ q.exit = p.exit
  BY ONLY <1>2, t \in SUBSET Tasks, <1>4, TurnedIs
<1>6. Migrated(q, Rows)
  BY <1>5, Zenon DEF Migrated
<1>7. Depth(q) /\ Runs(q)
  BY <1>2, <1>3, <1>5, Zenon DEF Depth, Runs
<1>8. Sound(q, Rows)
  BY <1>2, <1>5, <1>6, <1>7, Zenon DEF Sound
<1>9. Becomes(r, q) /\ UNCHANGED <<schema, ran>>
  BY <1>1, <1>3, <1>4, Zenon DEF WriterDrains, Turned
<1> QED BY <1>8, <1>9, Moves, Zenon

\* A process that was killed or exited starts from nothing.
LEMMA DownKeeps == ASSUME IInv, NEW r \in Replicas, Kill(r) \/ Restart(r) PROVE IInv'
BY DownSound, Moves, Zenon DEF Kill, Restart

-----------------------------------------------------------------------------
(* Init, Next and the theorems.                                             *)

\* No replica is up and the database is empty.
LEMMA InitInv == ASSUME ServerInit PROVE IInv
<1>1. schema \in Seq(Migrations) /\ DOMAIN schema = {}
  BY DEF ServerInit
<1>2. ran \in [Names -> {0, 1}] /\ \A n \in Names : ran[n] = 0
  BY DEF ServerInit
<1>3. AppliedOnce
  BY <1>1, <1>2, Zenon DEF AppliedOnce
<1>4. DOMAIN replica = Replicas /\ \A r \in Replicas : replica[r] = Down
  BY Zenon DEF ServerInit
<1> QED BY <1>1, <1>2, <1>3, <1>4, DownSound, Zenon DEF IInv, SchemaInv

\* Every step of every replica, by the lemma for its action.
LEMMA NextInv == ASSUME ServerConstantsOK, IInv, [ServerNext]_serverVars PROVE IInv'
<1>1. ASSUME NEW r \in Replicas, Progress(r) PROVE IInv'
  <2>1. CASE \E e \in Environments, rel \in Releases : Start(r, e, rel)
    BY <2>1, StartKeeps, Zenon
  <2>2. CASE New(r) \/ appliedMigrations(r) \/ Migrate(r)
    BY <2>2, NewKeeps, ReadKeeps, MigrateKeeps, Zenon
  <2>3. CASE NewRedis(r) \/ EnsureSchema(r) \/ backends(r)
    BY <2>3, NewRedisKeeps, EnsureSchemaKeeps, backendsKeeps, Zenon
  <2>4. CASE Answer(r) \/ \E w \in {"purger", "canary"} : WorkerEnds(r, w)
    BY <2>4, AnswerKeeps, WorkerKeeps, Zenon
  <2>5. CASE Wait(r) \/ Shutdown(r) \/ Deferred(r) \/ WriterDrains(r)
    BY <2>5, WaitKeeps, ShutdownKeeps, DeferredKeeps, DrainKeeps, Zenon
  <2>6. CASE Restart(r)
    BY <2>6, DownKeeps, Zenon
  <2> QED BY <1>1, <2>1, <2>2, <2>3, <2>4, <2>5, <2>6, Zenon DEF Progress
<1>2. ASSUME NEW r \in Replicas, Request(r) \/ Signal(r) \/ ListenFails(r) \/ Kill(r) PROVE IInv'
  BY <1>2, RequestKeeps, SignalKeeps, ListenFailsKeeps, DownKeeps, Zenon
<1>3. CASE UNCHANGED serverVars
  <2>1. schema' = schema /\ ran' = ran /\ replica' = replica
    BY <1>3, Zenon DEF serverVars
  <2>2. Rows' = Rows
    BY <2>1, Zenon DEF Rows
  <2>3. AppliedOnce'
    BY <2>1 DEF IInv, SchemaInv, AppliedOnce
  <2> QED BY <2>1, <2>2, <2>3, Zenon DEF IInv, SchemaInv
<1> QED BY <1>1, <1>2, <1>3, Zenon DEF ServerNext

\* The inductive invariant: what is open is a prefix of the order in which run opens, as long as
\* the step says; what may run at each step; and what the loop of Migrate has established so far.
THEOREM ServerInvariant == ASSUME ServerConstantsOK PROVE ServerSpec => []IInv
<1>1. ServerInit => IInv
  BY InitInv, Zenon
<1>2. IInv /\ [ServerNext]_serverVars => IInv'
  BY NextInv, Zenon
<1> QED BY <1>1, <1>2, PTL DEF ServerSpec

\* However many replicas of whatever releases migrate one database at the same time, lose the
\* answer to a commit, are killed and restarted: a replica serves only when the database has its
\* release, and no migration took effect twice (db.Migrate, applyOne).
THEOREM MigrationSafety == ASSUME ServerConstantsOK PROVE ServerSpec => []MigrationsSound
<1>1. IInv => MigrationsSound
  <2> SUFFICES ASSUME IInv PROVE MigrationsSound
    OBVIOUS
  <2>1. AppliedOnce
    BY Zenon DEF IInv, SchemaInv
  <2>2. ServesItsSchema
    BY Zenon DEF ServesItsSchema, Up, IInv, Sound, Migrated
  <2> QED BY <2>1, <2>2, Zenon DEF MigrationsSound
<1> QED BY <1>1, ServerInvariant, PTL

\* What a stack of at least six holds.
LEMMA Holds ==
  ASSUME NEW d, Stacked(d), NEW open, open = {d[i] : i \in DOMAIN d}, Len(d) \in {6, 7}
  PROVE  /\ {"telemetry", "db", "redis", "dispatcher", "exporter", "analytics"} \subseteq open
         /\ Len(d) = 7 => "broker" \in open
<1>1. /\ d[1] = "telemetry" /\ d[2] = "db" /\ d[3] = "redis" /\ d[4] = "dispatcher"
      /\ d[5] = "exporter" /\ d[6] = "analytics" /\ (Len(d) = 7 => d[7] = "broker")
  BY DEF Stacked, At
<1>2. /\ 1 \in DOMAIN d /\ 2 \in DOMAIN d /\ 3 \in DOMAIN d /\ 4 \in DOMAIN d
      /\ 5 \in DOMAIN d /\ 6 \in DOMAIN d /\ (Len(d) = 7 => 7 \in DOMAIN d)
  BY DEF Stacked
<1>3. \A i \in DOMAIN d : d[i] \in open
  BY Zenon
<1> QED BY <1>1, <1>2, <1>3

\* From the start to the exit: the workers of bg and the writer find open what they use on every
\* path out of run, since the deferred calls close in the reverse of the order of opening, the
\* writer is drained when the broker closes, before the store does, and bg.Wait comes before both.
\* A request does so too, unless the listener failed (run returns without Shutdown) or Shutdown
\* ran out of time.
THEOREM ClosingSafety == ASSUME ServerConstantsOK PROVE ServerSpec => []NothingClosedInUse
<1>1. IInv => NothingClosedInUse
  <2> SUFFICES ASSUME IInv, NEW r \in Replicas, NEW p, p = replica[r], p.step # "exited",
                      NEW open, open = {p.defers[i] : i \in DOMAIN p.defers}
               PROVE  /\ p.running \cap {"purger", "canary"} # {} => {"db", "analytics"} \subseteq open
                      /\ "writer" \in p.running => {"analytics", "exporter", "dispatcher", "db"} \subseteq open
                      /\ \/ "handler" \in p.running => {"db", "redis", "broker", "analytics"} \subseteq open
                         \/ p.exit \in {"error", "timeout"}
    BY Zenon DEF NothingClosedInUse
  <2>1. Stacked(p.defers) /\ Depth(p) /\ Runs(p)
    BY Known, Zenon
  <2>2. p.running \cap {"purger", "canary"} # {} => Len(p.defers) = 7
    BY <2>1, Zenon DEF Depth, Runs
  <2>3. "writer" \in p.running => Len(p.defers) \in {6, 7}
    BY <2>1, Zenon DEF Depth, Runs
  <2>4. ("handler" \in p.running => Len(p.defers) = 7) \/ p.exit \in {"error", "timeout"}
    <3>1. p.exit \in {"", "error", "timeout"}
      BY Known DEF Process
    <3> QED BY <2>1, <3>1, Zenon DEF Depth, Runs
  <2>5. Len(p.defers) \in {6, 7} => /\ {"telemetry", "db", "redis", "dispatcher", "exporter", "analytics"} \subseteq open
                                    /\ Len(p.defers) = 7 => "broker" \in open
    BY <2>1, Holds, Zenon
  <2> QED BY <2>2, <2>3, <2>4, <2>5, Zenon
<1> QED BY <1>1, ServerInvariant, PTL
=============================================================================
