--------------------------- MODULE IngestPipeline ---------------------------
(***************************************************************************)
(* Telemetry on its way through Kafka to the analytics store: handlers     *)
(* publish to an asynchronous producer, the consumer goroutine hands       *)
(* records to the Writer over a bounded channel, the Writer persists them  *)
(* in batches, and a record's offset becomes committable when the Writer   *)
(* acknowledges it.  The process may crash or shut down and start again.   *)
(*                                                                         *)
(* A record is <<partition, offset>>.  A consumer-group position covers    *)
(* every record up to some offset of each partition, and is kept here as   *)
(* the set of records it covers.                                           *)
(***************************************************************************)
EXTENDS Integers, Sequences, FiniteSets

CONSTANTS
    Partitions,      \* partitions of the telemetry topic
    Events,          \* telemetry events, each in a SubmitTelemetry call of its own
    PartOf,          \* the partition of an event's tenant key
    Poison,          \* a record value decodeStoredEvent refuses
    ProducerBuffer,  \* soft cap on records in flight to Kafka
    ChannelBuffer,   \* capacity of the hand-off channel
    BatchSize,       \* events per flush
    MaxPoison,       \* bound on undecodable records in the topic
    MaxStarts        \* bound on starts of the process

ASSUME PipelineAssumption ==
    /\ PartOf \in [Events -> Partitions]
    /\ Poison \notin Events
    /\ ProducerBuffer \in Nat /\ ChannelBuffer \in Nat \ {0}
    /\ BatchSize \in Nat \ {0} /\ MaxPoison \in Nat /\ MaxStarts \in Nat

\* The least instance of PartOf: every event is one tenant's.
OneTenant == [e \in Events |-> CHOOSE p \in Partitions : TRUE]

VARIABLES
    log,         \* the topic: the values of each partition, in offset order
    committed,   \* the records the group's committed position covers
    stored,      \* events in the analytics store, which dedups by event id
    pub,         \* where the publication of each event stands
    proc,        \* the process: "up", "closing", "closed" or "down"
    starts,      \* how often the process was started
    marked,      \* the records the client's committable position covers
    fetched,     \* the records the consumer has read, or skips as committed
    conPc,       \* consumer goroutine: "poll", "handoff" or "stopped"
    pending,     \* records handed off and not yet acknowledged, in order
    out,         \* the hand-off channel
    batch,       \* the Writer's batch
    wpc,         \* Writer: "select", "write", "backoff", "ack" or "done"
    draining,    \* the Writer saw the channel closed
    graceOver    \* the drain's grace period has passed

topicVars == <<log, committed, stored>>
consVars == <<marked, fetched, conPc, pending, out>>
writerVars == <<batch, wpc, draining, graceOver>>
vars == <<topicVars, pub, proc, starts, consVars, writerVars>>

Records == Partitions \X (Nat \ {0})
Value(r) == log[r[1]][r[2]]
\* A position at record r covers r and everything before it in its partition.
Covers(r) == {<<r[1], i>> : i \in 1 .. r[2]}
InTopic == UNION {{<<p, i>> : i \in 1 .. Len(log[p])} : p \in Partitions}

\* The records in flight to Kafka, counted by the broker's inflight.
InFlight == {e \in Events : pub[e] = "accepted"}

Init ==
    /\ log = [p \in Partitions |-> <<>>]
    /\ committed = {} /\ stored = {}
    /\ pub = [e \in Events |-> "new"]
    /\ proc = "up" /\ starts = 1
    /\ marked = {} /\ fetched = {} /\ conPc = "poll" /\ pending = <<>> /\ out = <<>>
    /\ batch = <<>> /\ wpc = "select" /\ draining = FALSE /\ graceOver = FALSE

-----------------------------------------------------------------------------
(* Publishing.  A handler tests the in-flight count, then counts itself    *)
(* and hands the record to the producer; the callback runs later.          *)

Publish(e) ==
    /\ pub[e] = "new" /\ proc # "down"
    /\ pub' = [pub EXCEPT ![e] = IF Cardinality(InFlight) >= ProducerBuffer
                                 THEN "shed" ELSE "admitted"]
    /\ UNCHANGED <<topicVars, proc, starts, consVars, writerVars>>

Produce(e) ==
    /\ pub[e] = "admitted" /\ proc # "down"
    /\ pub' = [pub EXCEPT ![e] = "accepted"]
    /\ UNCHANGED <<topicVars, proc, starts, consVars, writerVars>>

\* All in-sync replicas have the record; a request on the wire outlives a crash.
Produced(e) ==
    /\ pub[e] = "accepted" /\ proc # "closed"
    /\ pub' = [pub EXCEPT ![e] = "produced"]
    /\ log' = [log EXCEPT ![PartOf[e]] = Append(@, e)]
    /\ UNCHANGED <<committed, stored, proc, starts, consVars, writerVars>>

\* Retries ran out, the request's context ended or the client is closed.
ProduceFailed(e) ==
    /\ pub[e] = "accepted"
    /\ pub' = [pub EXCEPT ![e] = "failed"]
    /\ UNCHANGED <<topicVars, proc, starts, consVars, writerVars>>

\* A record some other producer wrote that does not decode.
ForeignRecord(p) ==
    /\ Cardinality({r \in InTopic : Value(r) = Poison}) < MaxPoison
    /\ log' = [log EXCEPT ![p] = Append(@, Poison)]
    /\ UNCHANGED <<committed, stored, pub, proc, starts, consVars, writerVars>>

-----------------------------------------------------------------------------
(* The consumer goroutine.                                                 *)

\* r is the next record of its partition to be read.
IsNext(r) ==
    /\ r \in InTopic \ fetched
    /\ Covers(r) \ {r} \subseteq fetched

\* An undecodable record is marked at once; any other is queued for Ack
\* before it is offered on the channel.
Consume(r) ==
    /\ conPc = "poll" /\ IsNext(r)
    /\ fetched' = fetched \cup {r}
    /\ IF Value(r) = Poison
       THEN /\ marked' = marked \cup Covers(r)
            /\ UNCHANGED <<conPc, pending>>
       ELSE /\ pending' = Append(pending, r)
            /\ conPc' = "handoff"
            /\ UNCHANGED marked
    /\ UNCHANGED <<topicVars, pub, proc, starts, out, writerVars>>

HandOff ==
    /\ conPc = "handoff" /\ Len(out) < ChannelBuffer
    /\ out' = Append(out, pending[Len(pending)])
    /\ conPc' = "poll"
    /\ UNCHANGED <<topicVars, pub, proc, starts, marked, fetched, pending, writerVars>>

\* The client commits the marked position every CommitInterval.
AutoCommit ==
    /\ proc \in {"up", "closing"} /\ committed # marked
    /\ committed' = marked
    /\ UNCHANGED <<log, stored, pub, proc, starts, consVars, writerVars>>

-----------------------------------------------------------------------------
(* The Writer.  The server runs it under the background context, so only   *)
(* the closed channel ends it.                                             *)

\* add also offers the event to the webhook and SIEM sinks.
Receive ==
    /\ wpc = "select" /\ out # <<>>
    /\ out' = Tail(out)
    /\ batch' = Append(batch, Head(out))
    /\ wpc' = IF Len(batch) + 1 >= BatchSize THEN "write" ELSE "select"
    /\ UNCHANGED <<topicVars, pub, proc, starts, marked, fetched, conPc, pending,
                   draining, graceOver>>

\* Mutant: the ticker writes full batches only.
TickFlushFull ==
    /\ wpc = "select" /\ Len(batch) >= BatchSize
    /\ wpc' = "write"
    /\ UNCHANGED <<topicVars, pub, proc, starts, consVars, batch, draining, graceOver>>

TickFlush ==
    /\ wpc = "select" /\ batch # <<>>
    /\ wpc' = "write"
    /\ UNCHANGED <<topicVars, pub, proc, starts, consVars, batch, draining, graceOver>>

BatchEvents == {Value(batch[k]) : k \in DOMAIN batch}

WriteOK ==
    /\ wpc = "write"
    /\ stored' = stored \cup BatchEvents
    /\ wpc' = "ack"
    /\ UNCHANGED <<log, committed, pub, proc, starts, consVars, batch, draining, graceOver>>

\* Mutant: a failed flush is dropped instead of retried.
WriteFailedDrops ==
    /\ wpc = "write"
    /\ wpc' = "ack"
    /\ UNCHANGED <<topicVars, pub, proc, starts, consVars, batch, draining, graceOver>>

\* One INSERT carries the batch; it may have been applied despite the error.
WriteFailed ==
    /\ wpc = "write"
    /\ stored' \in {stored, stored \cup BatchEvents}
    /\ wpc' = "backoff"
    /\ UNCHANGED <<log, committed, pub, proc, starts, consVars, batch, draining, graceOver>>

Retry ==
    /\ wpc = "backoff" /\ ~graceOver
    /\ wpc' = "write"
    /\ UNCHANGED <<topicVars, pub, proc, starts, consVars, batch, draining, graceOver>>

\* The drain ran out of grace: the batch is left to redelivery.
GiveUp ==
    /\ wpc = "backoff" /\ graceOver
    /\ wpc' = "done" /\ batch' = <<>>
    /\ UNCHANGED <<topicVars, pub, proc, starts, consVars, draining, graceOver>>

\* How many of the oldest pending records n acknowledged events stand for.
Popped(n) == IF n > Len(pending) THEN Len(pending) ELSE n

\* A closed client no longer marks anything.
Ack ==
    /\ wpc = "ack"
    /\ LET n == Popped(Len(batch)) IN
       /\ pending' = SubSeq(pending, n + 1, Len(pending))
       /\ marked' = IF proc = "closed" THEN marked
                    ELSE marked \cup UNION {Covers(pending[k]) : k \in 1 .. n}
    /\ batch' = <<>>
    /\ wpc' = IF draining THEN "done" ELSE "select"
    /\ UNCHANGED <<topicVars, pub, proc, starts, fetched, conPc, out, draining, graceOver>>

ChannelClosed ==
    /\ wpc = "select" /\ out = <<>> /\ proc = "closed"
    /\ draining' = TRUE
    /\ wpc' = IF batch = <<>> THEN "done" ELSE "write"
    /\ UNCHANGED <<topicVars, pub, proc, starts, consVars, batch, graceOver>>

GraceExpires ==
    /\ draining /\ wpc # "done" /\ ~graceOver
    /\ graceOver' = TRUE
    /\ UNCHANGED <<topicVars, pub, proc, starts, consVars, batch, wpc, draining>>

-----------------------------------------------------------------------------
(* Shutdown, crash and restart.                                            *)

CloseBegin ==
    /\ proc = "up"
    /\ proc' = "closing"
    /\ UNCHANGED <<topicVars, pub, starts, consVars, writerVars>>

\* The consumer sees its context cancelled at the poll or at the hand-off.
StopConsumer ==
    /\ proc = "closing" /\ conPc # "stopped"
    /\ conPc' = "stopped"
    /\ UNCHANGED <<topicVars, pub, proc, starts, marked, fetched, pending, out, writerVars>>

\* After the flush of outstanding produces, closing the client commits the
\* marked position, best effort; then the hand-off channel is closed.
CloseEnd ==
    /\ proc = "closing" /\ conPc = "stopped"
    /\ proc' = "closed"
    /\ committed' \in {committed, marked}
    /\ UNCHANGED <<log, stored, pub, starts, consVars, writerVars>>

Crash ==
    /\ proc # "down"
    /\ proc' = "down"
    /\ marked' = {} /\ fetched' = {} /\ conPc' = "stopped" /\ pending' = <<>> /\ out' = <<>>
    /\ batch' = <<>> /\ wpc' = "done" /\ draining' = FALSE /\ graceOver' = FALSE
    /\ UNCHANGED <<topicVars, pub, starts>>

\* A new process knows what the topic, the group and the store know.
Restart ==
    /\ proc = "down" \/ (proc = "closed" /\ wpc = "done")
    /\ starts < MaxStarts
    /\ starts' = starts + 1 /\ proc' = "up"
    /\ pub' = [e \in Events |-> IF pub[e] \in {"admitted", "accepted"} THEN "failed" ELSE pub[e]]
    /\ marked' = committed /\ fetched' = committed
    /\ conPc' = "poll" /\ pending' = <<>> /\ out' = <<>>
    /\ batch' = <<>> /\ wpc' = "select" /\ draining' = FALSE /\ graceOver' = FALSE
    /\ UNCHANGED topicVars

Next ==
    \/ \E e \in Events : Publish(e) \/ Produce(e) \/ Produced(e) \/ ProduceFailed(e)
    \/ \E p \in Partitions : ForeignRecord(p)
    \/ \E r \in InTopic : Consume(r)
    \/ HandOff \/ AutoCommit
    \/ Receive \/ TickFlush \/ WriteOK \/ WriteFailed \/ Retry \/ GiveUp \/ Ack
    \/ ChannelClosed \/ GraceExpires
    \/ CloseBegin \/ StopConsumer \/ CloseEnd \/ Crash \/ Restart

Spec == Init /\ [][Next]_vars

\* Goroutines, timers and the client's own loops keep running; a started
\* shutdown goes on.  Nothing is assumed of the store.
FairSpec ==
    /\ Spec
    /\ WF_vars(\E r \in InTopic : Consume(r))
    /\ WF_vars(HandOff) /\ WF_vars(AutoCommit)
    /\ WF_vars(Receive) /\ WF_vars(TickFlush) /\ WF_vars(ChannelClosed)
    /\ WF_vars(WriteOK \/ WriteFailed) /\ WF_vars(Retry) /\ WF_vars(GiveUp) /\ WF_vars(Ack)
    /\ WF_vars(GraceExpires) /\ WF_vars(StopConsumer) /\ WF_vars(CloseEnd)

\* The store answers again after every outage, and an operator restarts a
\* process that ended.
RecoveringSpec == FairSpec /\ SF_vars(WriteOK) /\ WF_vars(Restart)

-----------------------------------------------------------------------------
(* Properties.                                                             *)

TypeOK ==
    /\ log \in [Partitions -> Seq(Events \cup {Poison})]
    /\ committed \subseteq Records /\ stored \subseteq Events
    /\ pub \in [Events -> {"new", "shed", "admitted", "accepted", "produced", "failed"}]
    /\ proc \in {"up", "closing", "closed", "down"} /\ starts \in Nat
    /\ marked \subseteq Records /\ fetched \subseteq Records
    /\ conPc \in {"poll", "handoff", "stopped"}
    /\ pending \in Seq(Records) /\ out \in Seq(Records) /\ batch \in Seq(Records)
    /\ wpc \in {"select", "write", "backoff", "ack", "done"}
    /\ draining \in BOOLEAN /\ graceOver \in BOOLEAN

\* An undecodable record of r's partition, at r or later, is among C.
BelowPoison(r, C) == \E q \in C : q[1] = r[1] /\ q[2] >= r[2] /\ Value(q) = Poison

(* No committed record is lost for any reason but poison: an event the     *)
(* committed position covers is in the store, unless an undecodable record *)
(* at or behind it in its partition was committed (Ack, consume).          *)
LossOnlyBelowPoison ==
    \A r \in committed : Value(r) \in stored \/ BelowPoison(r, committed)

(* Ack(n) pops the right records: what the Writer has batched, followed by *)
(* what is in the channel, is a prefix of the pending queue (consume       *)
(* queues a record before it offers it).                                   *)
HandOffOrder ==
    LET handed == batch \o out
    IN  /\ Len(handed) <= Len(pending)
        /\ handed = SubSeq(pending, 1, Len(handed))

(* The committed position never moves back, through crashes, abandoned     *)
(* batches and restarts included, and never covers an unread record.       *)
CommitAdvances == [][committed \subseteq committed' /\ committed' \subseteq InTopic]_vars

(* The durable read position never runs ahead of what is stored: every     *)
(* committed record is stored or is itself undecodable.                    *)
PersistBeforeCommit ==
    \A r \in committed : Value(r) \in stored \cup {Poison}

(* A shutdown ends: once the broker is being closed the Writer returns,    *)
(* even when the store is down (the drain's retries are bounded by the     *)
(* grace period).                                                          *)
ShutdownEnds == proc = "closing" ~> proc = "down" \/ wpc = "done"

(* An event that reached the topic reaches the store, through outages,     *)
(* abandoned batches, crashes and restarts, unless an undecodable record   *)
(* behind it was committed or the process has ended for the last time.     *)
EventuallyStored ==
    []<>\A e \in Events :
            pub[e] = "produced" =>
                \/ e \in stored
                \/ \E r \in committed : Value(r) = e /\ BelowPoison(r, committed)
                \/ starts = MaxStarts /\ proc \in {"closed", "down"} /\ wpc = "done"
=============================================================================
