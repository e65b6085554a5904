------------------------ MODULE IngestPipelineProofs ------------------------
(***************************************************************************)
(* Proofs that the committed position of IngestPipeline runs ahead of the  *)
(* store only below an undecodable record, for any number of partitions,   *)
(* events, crashes and restarts, and any channel and batch size.           *)
(***************************************************************************)
EXTENDS IngestPipeline, TLAPS

\* A position covers, with a record, all earlier ones of its partition.
Closed(C) == \A r \in C : Covers(r) \subseteq C

\* What a position covers is stored, or has an undecodable record behind it.
Settled(C) == \A r \in C : Value(r) \in stored \/ BelowPoison(r, C)

PositionInv ==
    /\ committed \subseteq InTopic /\ marked \subseteq fetched /\ fetched \subseteq InTopic
    /\ Closed(committed) /\ Closed(marked) /\ Closed(fetched)
    /\ Settled(committed) /\ Settled(marked)
    /\ proc # "down" => committed \subseteq marked

\* The pending queue, the batch and the channel line up, and hold what is read
\* but neither stored nor marked.
QueueInv ==
    /\ \A k \in 1 .. Len(pending) : pending[k] \in fetched
    /\ \A k, l \in 1 .. Len(pending) :
          k < l /\ pending[k][1] = pending[l][1] => pending[k][2] < pending[l][2]
    /\ \A k \in 1 .. Len(batch) : batch[k] = pending[k]
    /\ \A k \in 1 .. Len(out) : out[k] = pending[Len(batch) + k]
    /\ Len(batch) + Len(out) + (IF conPc = "handoff" THEN 1 ELSE 0) <= Len(pending)
    /\ conPc # "stopped" =>
          Len(batch) + Len(out) + (IF conPc = "handoff" THEN 1 ELSE 0) = Len(pending)

CoverageInv ==
    \A r \in fetched : \/ Value(r) \in stored \/ r \in marked
                       \/ \E k \in 1 .. Len(pending) : pending[k] = r

\* Undecodable records never enter the queue, and a batch awaiting its
\* acknowledgement is stored.
ValueInv ==
    /\ \A k \in 1 .. Len(pending) : Value(pending[k]) \in Events
    /\ wpc = "ack" => \A k \in 1 .. Len(batch) : Value(batch[k]) \in stored

DrainInv ==
    /\ draining => out = <<>> /\ conPc = "stopped"
    /\ graceOver => draining
    /\ proc = "closed" => conPc = "stopped"

IndInv == TypeOK /\ PositionInv /\ QueueInv /\ CoverageInv /\ ValueInv /\ DrainInv

-----------------------------------------------------------------------------
(* What the set-valued positions mean.                                     *)

\* What the position after a record covers.
LEMMA CoversDef ==
    ASSUME NEW r \in Records
    PROVE  \A q : q \in Covers(r) <=> q \in Records /\ q[1] = r[1] /\ q[2] <= r[2]
BY DEF Covers, Records

\* A record of the topic is a partition and an offset up to its end.
LEMMA InTopicDef ==
    ASSUME TypeOK
    PROVE  \A r : r \in InTopic <=> r \in Records /\ r[2] <= Len(log[r[1]])
BY DEF InTopic, Records, TypeOK

\* Appending to a partition keeps every record and its value.
LEMMA LogGrows ==
    ASSUME TypeOK, NEW p \in Partitions, NEW v \in Events \cup {Poison},
           log' = [log EXCEPT ![p] = Append(@, v)]
    PROVE  /\ log' \in [Partitions -> Seq(Events \cup {Poison})]
           /\ InTopic \subseteq InTopic'
           /\ \A r \in InTopic : Value(r)' = Value(r)
<1>1. log' \in [Partitions -> Seq(Events \cup {Poison})]
  BY DEF TypeOK
<1>2. \A q \in Partitions : /\ Len(log[q]) <= Len(log'[q])
                            /\ \A i \in 1 .. Len(log[q]) : log'[q][i] = log[q][i]
  BY DEF TypeOK
<1>3. \A r : r \in InTopic' <=> r \in Records /\ r[2] <= Len(log'[r[1]])
  BY <1>1 DEF InTopic, Records
<1>4. InTopic \subseteq InTopic'
  <2> SUFFICES ASSUME NEW r \in InTopic PROVE r \in InTopic'
    BY Zenon
  <2>1. r \in Records /\ r[2] <= Len(log[r[1]])
    BY InTopicDef, Zenon
  <2>2. /\ r[1] \in Partitions /\ r[2] \in Nat
        /\ Len(log[r[1]]) \in Nat /\ Len(log'[r[1]]) \in Nat
    BY <1>1, <2>1 DEF Records, TypeOK
  <2>3. r[2] <= Len(log'[r[1]])
    BY <1>2, <2>1, <2>2
  <2>4. QED
    BY <1>3, <2>1, <2>3, Zenon
<1>5. \A r \in InTopic : Value(r)' = Value(r)
  BY <1>2, InTopicDef DEF Records, Value, TypeOK
<1>6. QED
  BY <1>1, <1>4, <1>5, Zenon

-----------------------------------------------------------------------------
\* A topic without records and a process that has just started.
LEMMA InitInv == Init => IndInv
<1> SUFFICES ASSUME Init PROVE IndInv
  BY Zenon
<1>1. TypeOK
  <2>1. log \in [Partitions -> Seq(Events \cup {Poison})]
    BY DEF Init
  <2>2. pending \in Seq(Records) /\ out \in Seq(Records) /\ batch \in Seq(Records)
    BY DEF Init
  <2>3. QED
    BY <2>1, <2>2, Zenon DEF Init, TypeOK
<1>2. PositionInv
  BY Zenon DEF Init, PositionInv, Closed, Settled
<1>3. QueueInv /\ CoverageInv /\ ValueInv /\ DrainInv
  BY DEF Init, QueueInv, CoverageInv, ValueInv, DrainInv
<1>4. QED
  BY <1>1, <1>2, <1>3, Zenon DEF IndInv

-----------------------------------------------------------------------------
(* Type correctness.                                                       *)

\* Every step keeps the types.
LEMMA TypeStep == IndInv /\ [Next]_vars => TypeOK'
<1> SUFFICES ASSUME IndInv, [Next]_vars PROVE TypeOK'
  BY Zenon
<1> USE DEF topicVars, consVars, writerVars
<1>0. TypeOK
  BY Zenon DEF IndInv
<1>1. ASSUME NEW e \in Events, Publish(e) \/ Produce(e) \/ ProduceFailed(e) PROVE TypeOK'
  <2>1. CASE Publish(e)
    BY <1>0, <2>1, Zenon DEF Publish, TypeOK
  <2>2. CASE Produce(e)
    BY <1>0, <2>2, Zenon DEF Produce, TypeOK
  <2>3. CASE ProduceFailed(e)
    BY <1>0, <2>3, Zenon DEF ProduceFailed, TypeOK
  <2>4. QED
    BY <1>1, <2>1, <2>2, <2>3, Zenon
<1>2. ASSUME NEW e \in Events, Produced(e) PROVE TypeOK'
  <2>1. PartOf[e] \in Partitions
    BY PipelineAssumption, Zenon
  <2>2. log' \in [Partitions -> Seq(Events \cup {Poison})]
    BY <1>0, <1>2, <2>1, LogGrows, Zenon DEF Produced
  <2>3. QED
    BY <1>0, <1>2, <2>2, Zenon DEF Produced, TypeOK
<1>3. ASSUME NEW p \in Partitions, ForeignRecord(p) PROVE TypeOK'
  <2>1. log' \in [Partitions -> Seq(Events \cup {Poison})]
    BY <1>0, <1>3, LogGrows, Zenon DEF ForeignRecord
  <2>2. QED
    BY <1>0, <1>3, <2>1, Zenon DEF ForeignRecord, TypeOK
<1>4. ASSUME NEW r \in InTopic, Consume(r) PROVE TypeOK'
  <2>1. r \in Records /\ Covers(r) \subseteq Records
    BY <1>0, InTopicDef, CoversDef, Zenon
  <2>2. fetched' \subseteq Records /\ marked' \subseteq Records
    BY <1>0, <1>4, <2>1, Zenon DEF Consume, TypeOK
  <2>3. pending' \in Seq(Records) /\ conPc' \in {"poll", "handoff", "stopped"}
    <3>1. pending \in Seq(Records) /\ conPc \in {"poll", "handoff", "stopped"}
      BY <1>0, Zenon DEF TypeOK
    <3>2. \/ pending' = pending /\ conPc' = conPc
          \/ pending' = Append(pending, r) /\ conPc' = "handoff"
      BY <1>4, Zenon DEF Consume
    <3>3. QED
      BY <2>1, <3>1, <3>2
  <2>4. QED
    BY <1>0, <1>4, <2>2, <2>3, Zenon DEF Consume, TypeOK
<1>5. CASE HandOff
  <2>1. Len(pending) \in 1 .. Len(pending)
    BY <1>0, <1>5 DEF HandOff, IndInv, QueueInv, TypeOK
  <2>2. QED
    BY <1>0, <1>5, <2>1 DEF HandOff, TypeOK
<1>6. CASE AutoCommit \/ CloseEnd
  BY <1>0, <1>6, Zenon DEF AutoCommit, CloseEnd, TypeOK
<1>7. CASE Receive
  BY <1>0, <1>7 DEF Receive, TypeOK
<1>8. CASE TickFlush \/ Retry \/ ChannelClosed \/ GraceExpires \/ CloseBegin \/ StopConsumer
  BY <1>0, <1>8 DEF TickFlush, Retry, ChannelClosed, GraceExpires, CloseBegin, StopConsumer, TypeOK
<1>9. CASE WriteOK \/ WriteFailed
  <2>1. BatchEvents \subseteq Events
    <3>1. \A k \in DOMAIN batch : k \in 1 .. Len(pending) /\ batch[k] = pending[k]
      <4>1. /\ batch \in Seq(Records) /\ pending \in Seq(Records) /\ out \in Seq(Records)
            /\ \A k \in 1 .. Len(batch) : batch[k] = pending[k]
            /\ Len(batch) + Len(out) + (IF conPc = "handoff" THEN 1 ELSE 0) <= Len(pending)
        BY <1>0, Zenon DEF IndInv, QueueInv, TypeOK
      <4>2. Len(batch) \in Nat /\ Len(pending) \in Nat /\ Len(out) \in Nat /\ DOMAIN batch = 1 .. Len(batch)
        BY ONLY <4>1
      <4>3. \A k \in 1 .. Len(batch) : k \in 1 .. Len(pending)
        BY ONLY <4>1, <4>2
      <4>4. QED
        BY ONLY <4>1, <4>2, <4>3, Zenon
    <3>2. QED
      BY <1>0, <3>1, Zenon DEF IndInv, ValueInv, BatchEvents
  <2>2. QED
    BY <1>0, <1>9, <2>1, Zenon DEF WriteOK, WriteFailed, TypeOK
<1>10. CASE GiveUp
  BY <1>0, <1>10 DEF GiveUp, TypeOK
<1>11. CASE Ack
  <2> DEFINE n == Popped(Len(batch))
  <2>1. n \in 0 .. Len(pending)
    BY <1>0 DEF Popped, TypeOK
  <2>2. \A k \in 1 .. n : Covers(pending[k]) \subseteq Records
    BY <1>0, <2>1, CoversDef DEF TypeOK
  <2>3. marked' \subseteq Records
    BY <1>0, <1>11, <2>2, Zenon DEF Ack, TypeOK
  <2>4. pending' \in Seq(Records)
    BY <1>0, <1>11, <2>1 DEF Ack, TypeOK
  <2>5. QED
    BY <1>0, <1>11, <2>3, <2>4 DEF Ack, TypeOK
<1>12. CASE Crash
  <2>1. pending' \in Seq(Records) /\ out' \in Seq(Records) /\ batch' \in Seq(Records)
    BY <1>12 DEF Crash
  <2>2. QED
    BY <1>0, <1>12, <2>1, Zenon DEF Crash, TypeOK
<1>13. CASE Restart
  <2>1. pending' \in Seq(Records) /\ out' \in Seq(Records) /\ batch' \in Seq(Records)
    BY <1>13 DEF Restart
  <2>2. pub' \in [Events -> {"new", "shed", "admitted", "accepted", "produced", "failed"}]
    BY <1>0, <1>13, Zenon DEF Restart, TypeOK
  <2>3. /\ log' = log /\ committed' = committed /\ stored' = stored
        /\ marked' = committed /\ fetched' = committed
        /\ proc' = "up" /\ conPc' = "poll" /\ wpc' = "select"
        /\ draining' = FALSE /\ graceOver' = FALSE
    BY <1>13, Zenon DEF Restart
  <2>4. starts' \in Nat
    BY <1>0, <1>13 DEF Restart, TypeOK
  <2>5. QED
    BY <1>0, <2>1, <2>2, <2>3, <2>4, Zenon DEF TypeOK
<1>14. CASE UNCHANGED vars
  BY <1>0, <1>14, Zenon DEF vars, TypeOK
<1>15. QED
  BY <1>1, <1>2, <1>3, <1>4, <1>5, <1>6, <1>7, <1>8, <1>9, <1>10, <1>11, <1>12, <1>13, <1>14, Zenon
     DEF Next

-----------------------------------------------------------------------------
(* The other conjuncts.  Most actions leave the topic, the positions and   *)
(* the queues alone.                                                       *)

\* A step that changes none of the variables an invariant reads keeps it.
LEMMA Frame ==
    ASSUME IndInv, UNCHANGED <<log, committed, stored, marked, fetched>>,
           UNCHANGED <<pending, out, batch, conPc>>,
           proc' # "down" => proc # "down", wpc' = "ack" => wpc = "ack"
    PROVE  PositionInv' /\ QueueInv' /\ CoverageInv' /\ ValueInv'
<1>1. InTopic' = InTopic /\ \A r : Value(r)' = Value(r)
  BY DEF InTopic, Value
<1>2. PositionInv'
  BY <1>1, Zenon DEF IndInv, PositionInv, Closed, Settled, BelowPoison
<1>3. QueueInv'
  BY Zenon DEF IndInv, QueueInv
<1>4. CoverageInv' /\ ValueInv'
  BY <1>1, Zenon DEF IndInv, CoverageInv, ValueInv
<1>5. QED
  BY <1>2, <1>3, <1>4, Zenon

\* A longer topic or a fuller store disturbs nothing.
LEMMA Growth ==
    ASSUME IndInv, InTopic \subseteq InTopic', \A r \in InTopic : Value(r)' = Value(r),
           stored \subseteq stored', UNCHANGED <<committed, marked, fetched, proc>>,
           UNCHANGED <<pending, out, batch, conPc>>,
           wpc' = "ack" => wpc = "ack" \/ \A k \in 1 .. Len(batch) : Value(batch[k]) \in stored'
    PROVE  PositionInv' /\ QueueInv' /\ CoverageInv' /\ ValueInv'
<1>1. committed \subseteq InTopic /\ marked \subseteq InTopic /\ fetched \subseteq InTopic
  BY Zenon DEF IndInv, PositionInv
<1>2. Settled(committed)' /\ Settled(marked)'
  BY <1>1 DEF IndInv, PositionInv, Settled, BelowPoison
<1>3. PositionInv'
  BY <1>2, Zenon DEF IndInv, PositionInv, Closed
<1>4. QueueInv'
  BY Zenon DEF IndInv, QueueInv
<1>5. \A k \in 1 .. Len(pending) : pending[k] \in InTopic
  BY <1>1, Zenon DEF IndInv, QueueInv
<1>6. \A k \in 1 .. Len(batch) : k \in 1 .. Len(pending) /\ batch[k] = pending[k]
  BY SMTT(30) DEF IndInv, QueueInv, TypeOK
<1>7. CoverageInv'
  BY <1>1, Zenon DEF IndInv, CoverageInv
<1>8. ValueInv'
  BY <1>5, <1>6, Zenon DEF IndInv, ValueInv
<1>9. QED
  BY <1>3, <1>4, <1>7, <1>8, Zenon

\* Reading the next record keeps the read position closed.
LEMMA NextRecord ==
    ASSUME IndInv, NEW r \in InTopic, IsNext(r)
    PROVE  /\ r \in Records /\ r \notin fetched
           /\ Covers(r) \subseteq fetched \cup {r}
           /\ Closed(fetched \cup {r}) /\ Closed(marked \cup Covers(r))
           /\ \A k \in 1 .. Len(pending) : pending[k][1] = r[1] => pending[k][2] < r[2]
<1> USE DEF IndInv, PositionInv
<1>1. r \in Records /\ r \notin fetched /\ Covers(r) \subseteq fetched \cup {r}
  BY InTopicDef, Zenon DEF IsNext
<1>2. Closed(fetched \cup {r})
  BY <1>1, Zenon DEF Closed
<1>3. \A q \in Covers(r) : Covers(q) \subseteq Covers(r)
  <2> TAKE q \in Covers(r)
  <2>1. q \in Records /\ q[1] = r[1] /\ q[2] <= r[2]
    BY <1>1, CoversDef, Zenon
  <2>2. \A x \in Covers(q) : x \in Records /\ x[1] = r[1] /\ x[2] <= q[2]
    BY <2>1, CoversDef, Zenon
  <2>3. \A x \in Covers(q) : x[2] <= r[2]
    BY <1>1, <2>1, <2>2 DEF Records
  <2>4. QED
    BY <1>1, <2>2, <2>3, CoversDef, Zenon
<1>4. Closed(marked \cup Covers(r))
  BY <1>3, Zenon DEF Closed
<1>5. ASSUME NEW k \in 1 .. Len(pending), pending[k][1] = r[1] PROVE pending[k][2] < r[2]
  <2>1. pending[k] \in fetched /\ pending[k] \in Records
    BY Zenon DEF QueueInv, TypeOK
  <2>2. r \notin Covers(pending[k])
    BY <1>1, <2>1, Zenon DEF Closed
  <2>3. ~(r[2] <= pending[k][2])
    BY <1>1, <1>5, <2>1, <2>2, CoversDef, Zenon
  <2>4. QED
    BY <1>1, <2>1, <2>3 DEF Records
<1>6. QED
  BY <1>1, <1>2, <1>4, <1>5, Zenon

\* The consumer takes the next record of a partition.
LEMMA ConsumeStep ==
    ASSUME IndInv, NEW r \in InTopic, Consume(r)
    PROVE  PositionInv' /\ QueueInv' /\ CoverageInv' /\ ValueInv'
<1>1. IsNext(r) /\ conPc = "poll" /\ fetched' = fetched \cup {r}
  BY Zenon DEF Consume
<1>2. /\ r \in Records /\ r \notin fetched
      /\ Covers(r) \subseteq fetched \cup {r}
      /\ Closed(fetched \cup {r}) /\ Closed(marked \cup Covers(r))
      /\ \A k \in 1 .. Len(pending) : pending[k][1] = r[1] => pending[k][2] < r[2]
  BY <1>1, NextRecord, Zenon
<1>3. InTopic' = InTopic /\ \A q : Value(q)' = Value(q)
  BY DEF Consume, InTopic, Value, topicVars
<1>4. CASE Value(r) = Poison
  <2>1. marked' = marked \cup Covers(r) /\ UNCHANGED <<conPc, pending, committed, stored, out, batch, proc, wpc>>
    BY <1>4, Zenon DEF Consume, topicVars, writerVars
  <2>2. r \in marked'
    BY <1>2, <2>1, CoversDef DEF Records
  <2>3. \A q \in Covers(r) : q[1] = r[1] /\ r[2] >= q[2]
    BY <1>2, CoversDef, Zenon DEF Records
  <2>4. Settled(marked)'
    BY <1>3, <1>4, <2>1, <2>2, <2>3, Zenon DEF IndInv, PositionInv, Settled, BelowPoison
  <2>5. Settled(committed)'
    BY <1>3, <2>1, Zenon DEF IndInv, PositionInv, Settled, BelowPoison
  <2>6. PositionInv'
    BY <1>1, <1>2, <1>3, <2>1, <2>4, <2>5, Zenon DEF IndInv, PositionInv, Closed
  <2>7. QueueInv'
    BY <1>1, <2>1, Zenon DEF IndInv, QueueInv
  <2>8. CoverageInv' /\ ValueInv'
    BY <1>1, <1>3, <2>1, <2>2, Zenon DEF IndInv, CoverageInv, ValueInv
  <2>9. QED
    BY <2>6, <2>7, <2>8, Zenon
<1>5. CASE Value(r) # Poison
  <2>1. /\ pending' = Append(pending, r) /\ conPc' = "handoff"
        /\ UNCHANGED <<marked, committed, stored, out, batch, proc, wpc>>
    BY <1>5, Zenon DEF Consume, topicVars, writerVars
  <2>2. /\ Len(pending') = Len(pending) + 1 /\ pending'[Len(pending) + 1] = r
        /\ \A k \in 1 .. Len(pending) : pending'[k] = pending[k]
    <3>1. pending \in Seq(Records)
      BY Zenon DEF IndInv, TypeOK
    <3>2. QED
      BY <1>2, <2>1, <3>1
  <2>3. PositionInv'
    BY <1>1, <1>2, <1>3, <2>1, Zenon DEF IndInv, PositionInv, Closed, Settled, BelowPoison
  <2>4. QueueInv'
    <3>1. \A k \in 1 .. Len(pending') : pending'[k] \in fetched'
      <4>1. \A k \in 1 .. Len(pending) : pending[k] \in fetched
        BY Zenon DEF IndInv, QueueInv
      <4>2. Len(pending) \in Nat
        BY DEF IndInv, TypeOK
      <4>3. QED
        BY <1>1, <2>2, <4>1, <4>2
    <3>2. \A k, l \in 1 .. Len(pending') :
             k < l /\ pending'[k][1] = pending'[l][1] => pending'[k][2] < pending'[l][2]
      <4> SUFFICES ASSUME NEW k \in 1 .. Len(pending'), NEW l \in 1 .. Len(pending'),
                          k < l, pending'[k][1] = pending'[l][1]
                   PROVE  pending'[k][2] < pending'[l][2]
        BY Zenon
      <4>0. Len(pending) \in Nat
        BY DEF IndInv, TypeOK
      <4>1. k \in 1 .. Len(pending) /\ pending'[k] = pending[k]
        BY <2>2, <4>0
      <4>2. CASE l = Len(pending) + 1
        BY <1>2, <2>2, <4>1, <4>2, Zenon
      <4>3. CASE l \in 1 .. Len(pending)
        <5>1. pending'[l] = pending[l]
          BY <2>2, <4>3, Zenon
        <5>2. QED
          BY <4>1, <4>3, <5>1, Zenon DEF IndInv, QueueInv
      <4>4. QED
        BY <2>2, <4>0, <4>2, <4>3
    <3>3. /\ Len(batch) \in Nat /\ Len(out) \in Nat /\ Len(pending) \in Nat
          /\ Len(batch) + Len(out) = Len(pending)
      BY <1>1 DEF IndInv, QueueInv, TypeOK
    <3>4. \A k \in 1 .. Len(batch) : batch[k] = pending'[k]
      <4>1. \A k \in 1 .. Len(batch) : batch[k] = pending[k]
        BY Zenon DEF IndInv, QueueInv
      <4>2. QED
        BY <2>2, <3>3, <4>1
    <3>5. \A k \in 1 .. Len(out) : out[k] = pending'[Len(batch) + k]
      <4>1. \A k \in 1 .. Len(out) : out[k] = pending[Len(batch) + k]
        BY Zenon DEF IndInv, QueueInv
      <4>2. QED
        BY <2>2, <3>3, <4>1, SMTT(30)
    <3>6. QED
      BY <2>1, <2>2, <3>1, <3>2, <3>3, <3>4, <3>5 DEF QueueInv
  <2>5. Value(r) \in Events
    <3>1. r[1] \in Partitions /\ r[2] \in 1 .. Len(log[r[1]])
      BY <1>2, InTopicDef DEF IndInv, TypeOK, Records
    <3>2. log[r[1]] \in Seq(Events \cup {Poison})
      BY <3>1, Zenon DEF IndInv, TypeOK
    <3>3. QED
      BY <1>5, <3>1, <3>2 DEF Value
  <2>6. CoverageInv'
    BY <1>1, <1>3, <2>1, <2>2 DEF IndInv, CoverageInv, TypeOK
  <2>7. ValueInv'
    BY <1>3, <2>1, <2>2, <2>5 DEF IndInv, ValueInv, TypeOK
  <2>8. QED
    BY <2>3, <2>4, <2>6, <2>7, Zenon
<1>6. QED
  BY <1>4, <1>5, Zenon

\* Ack pops the front of the pending list and marks it.
LEMMA AckStep ==
    ASSUME IndInv, Ack
    PROVE  PositionInv' /\ QueueInv' /\ CoverageInv' /\ ValueInv'
<1> DEFINE n == Len(batch)
<1>1. InTopic' = InTopic /\ \A q : Value(q)' = Value(q)
  BY DEF Ack, InTopic, Value, topicVars
<1>2. n \in Nat /\ Len(out) \in Nat /\ Len(pending) \in Nat /\ n + Len(out) <= Len(pending)
  BY DEF IndInv, QueueInv, TypeOK
<1>3. Popped(n) = n
  BY <1>2 DEF Popped
<1>4. /\ pending' = SubSeq(pending, n + 1, Len(pending))
      /\ \/ marked' = marked
         \/ marked' = marked \cup UNION {Covers(pending[k]) : k \in 1 .. n}
      /\ batch' = <<>> /\ wpc' # "ack"
      /\ UNCHANGED <<committed, stored, fetched, conPc, out, proc>>
  BY <1>3, Zenon DEF Ack, topicVars
<1>5. /\ Len(pending') = Len(pending) - n
      /\ \A k \in 1 .. Len(pending') : pending'[k] = pending[n + k]
  BY <1>2, <1>4 DEF IndInv, TypeOK
<1>6. \A k \in 1 .. n : Value(pending[k]) \in stored
  BY Zenon DEF IndInv, QueueInv, ValueInv, Ack
<1>7. \A k \in 1 .. n : pending[k] \in fetched /\ pending[k] \in Records
  BY <1>2 DEF IndInv, QueueInv, TypeOK
\* What an acknowledgement newly covers is stored, or was marked before.
<1>8. ASSUME NEW k \in 1 .. n, NEW r \in Covers(pending[k])
      PROVE  r \in fetched /\ Covers(r) \subseteq Covers(pending[k])
             /\ (Value(r) \in stored \/ r \in marked)
  <2>1. r \in Records /\ r[1] = pending[k][1] /\ r[2] <= pending[k][2]
    BY <1>7, <1>8, CoversDef, Zenon
  <2>2. r \in fetched
    BY <1>7, <1>8, Zenon DEF IndInv, PositionInv, Closed
  <2>3. Covers(r) \subseteq Covers(pending[k])
    <3> SUFFICES ASSUME NEW q \in Covers(r) PROVE q \in Covers(pending[k])
      BY Zenon
    <3>1. q \in Records /\ q[1] = r[1] /\ q[2] <= r[2]
      BY <2>1, CoversDef, Zenon
    <3>2. q[2] <= pending[k][2]
      BY <1>7, <2>1, <3>1 DEF Records
    <3>3. QED
      BY <1>7, <2>1, <3>1, <3>2, CoversDef, Zenon
  <2>4. ASSUME NEW l \in 1 .. Len(pending), pending[l] = r PROVE Value(r) \in stored
    <3>1. CASE l <= n
      BY <1>6, <2>4, <3>1
    <3>2. CASE l > n
      <4>1. k < l /\ k \in 1 .. Len(pending)
        BY <1>2, <3>2
      <4>2. pending[k][2] < pending[l][2]
        BY <2>1, <2>4, <4>1, Zenon DEF IndInv, QueueInv
      <4>3. QED
        BY <1>7, <2>1, <2>4, <4>2 DEF Records
    <3>3. QED
      BY <1>2, <3>1, <3>2
  <2>5. Value(r) \in stored \/ r \in marked
    BY <2>2, <2>4, Zenon DEF IndInv, CoverageInv
  <2>6. QED
    BY <2>2, <2>3, <2>5, Zenon
<1>9. marked \subseteq marked' /\ \A r \in marked' : r \in marked \/ \E k \in 1 .. n : r \in Covers(pending[k])
  BY <1>4, Zenon
<1>10. PositionInv'
  <2>1. marked' \subseteq fetched'
    BY <1>4, <1>8, <1>9, Zenon DEF IndInv, PositionInv
  <2>2. Closed(marked)'
    <3>1. CASE marked' = marked
      BY <3>1, Zenon DEF IndInv, PositionInv, Closed
    <3>2. CASE marked' = marked \cup UNION {Covers(pending[k]) : k \in 1 .. n}
      BY <1>8, <3>2, Zenon DEF IndInv, PositionInv, Closed
    <3>3. QED
      BY <1>4, <3>1, <3>2, Zenon
  <2>3. Settled(marked)'
    BY <1>1, <1>4, <1>8, <1>9, Zenon DEF IndInv, PositionInv, Settled, BelowPoison
  <2>4. Settled(committed)'
    BY <1>1, <1>4, Zenon DEF IndInv, PositionInv, Settled, BelowPoison
  <2>5. QED
    BY <1>1, <1>4, <1>9, <2>1, <2>2, <2>3, <2>4, Zenon DEF IndInv, PositionInv, Closed
<1>11. QueueInv'
  <2>1. \A k \in 1 .. Len(pending') : n + k \in 1 .. Len(pending)
    BY <1>2, <1>5
  <2>2. \A k \in 1 .. Len(pending') : pending'[k] \in fetched'
    BY <1>4, <1>5, <2>1, Zenon DEF IndInv, QueueInv
  <2>3. \A k, l \in 1 .. Len(pending') :
           k < l /\ pending'[k][1] = pending'[l][1] => pending'[k][2] < pending'[l][2]
    <3> SUFFICES ASSUME NEW k \in 1 .. Len(pending'), NEW l \in 1 .. Len(pending'),
                        k < l, pending'[k][1] = pending'[l][1]
                 PROVE  pending'[k][2] < pending'[l][2]
      BY Zenon
    <3>1. n + k < n + l /\ pending'[k] = pending[n + k] /\ pending'[l] = pending[n + l]
      BY <1>2, <1>5
    <3>2. QED
      BY <2>1, <3>1, Zenon DEF IndInv, QueueInv
  <2>4. \A k \in 1 .. Len(out) : out[k] = pending'[k]
    <3> TAKE k \in 1 .. Len(out)
    <3>1. out[k] = pending[n + k]
      BY Zenon DEF IndInv, QueueInv
    <3>2. k \in 1 .. Len(pending')
      BY <1>2, <1>5
    <3>3. QED
      BY <1>5, <3>1, <3>2, Zenon
  <2>5. Len(batch') = 0
    BY <1>4, Zenon
  <2>6. /\ Len(out) + (IF conPc = "handoff" THEN 1 ELSE 0) <= Len(pending')
        /\ conPc # "stopped" => Len(out) + (IF conPc = "handoff" THEN 1 ELSE 0) = Len(pending')
    BY <1>2, <1>5 DEF IndInv, QueueInv
  <2>7. \A k \in 1 .. Len(out') : out'[k] = pending'[Len(batch') + k]
    BY <1>2, <1>4, <2>4, <2>5
  <2>8. \A k \in 1 .. Len(batch') : batch'[k] = pending'[k]
    BY <2>5
  <2>9. /\ Len(batch') + Len(out') + (IF conPc' = "handoff" THEN 1 ELSE 0) <= Len(pending')
        /\ conPc' # "stopped" =>
              Len(batch') + Len(out') + (IF conPc' = "handoff" THEN 1 ELSE 0) = Len(pending')
    BY <1>2, <1>4, <2>5, <2>6
  <2>10. QED
    BY <2>2, <2>3, <2>7, <2>8, <2>9, Zenon DEF QueueInv
<1>12. CoverageInv'
  <2> SUFFICES ASSUME NEW r \in fetched
               PROVE  \/ Value(r) \in stored \/ r \in marked'
                      \/ \E k \in 1 .. Len(pending') : pending'[k] = r
    BY <1>1, <1>4, Zenon DEF CoverageInv
  <2>1. CASE Value(r) \in stored \/ r \in marked
    BY <1>9, <2>1, Zenon
  <2>2. ASSUME NEW l \in 1 .. Len(pending), pending[l] = r, l > n
        PROVE  \E k \in 1 .. Len(pending') : pending'[k] = r
    <3>1. l - n \in 1 .. Len(pending') /\ pending'[l - n] = pending[n + (l - n)] /\ n + (l - n) = l
      BY <1>2, <1>5, <2>2
    <3>2. QED
      BY <2>2, <3>1, Zenon
  <2>3. ASSUME NEW l \in 1 .. Len(pending), pending[l] = r, ~(l > n) PROVE Value(r) \in stored
    BY <1>2, <1>6, <2>3
  <2>4. QED
    BY <2>1, <2>2, <2>3, Zenon DEF IndInv, CoverageInv
<1>13. ValueInv'
  BY <1>1, <1>2, <1>4, <1>5 DEF IndInv, ValueInv
<1>14. QED
  BY <1>10, <1>11, <1>12, <1>13, Zenon

\* A record goes from the consumer through the channel into the batch.
LEMMA ChannelStep ==
    ASSUME IndInv, HandOff \/ Receive
    PROVE  PositionInv' /\ QueueInv' /\ CoverageInv' /\ ValueInv'
<1>1. InTopic' = InTopic /\ \A q : Value(q)' = Value(q)
  BY DEF HandOff, Receive, InTopic, Value, topicVars
<1>2. /\ UNCHANGED <<committed, stored, marked, fetched, pending, proc>>
      /\ wpc' = "ack" => wpc = "ack" /\ batch' = batch
  BY Zenon DEF HandOff, Receive, topicVars, consVars, writerVars
<1>3. PositionInv'
  BY <1>1, <1>2, Zenon DEF IndInv, PositionInv, Closed, Settled, BelowPoison
<1>4. CoverageInv' /\ ValueInv'
  BY <1>1, <1>2, Zenon DEF IndInv, CoverageInv, ValueInv
<1>5. Len(batch) \in Nat /\ Len(out) \in Nat /\ Len(pending) \in Nat
  BY DEF IndInv, TypeOK
<1>6. CASE HandOff
  <2>1. /\ out' = Append(out, pending[Len(pending)]) /\ conPc' = "poll" /\ batch' = batch
        /\ Len(batch) + Len(out) + 1 = Len(pending)
    BY <1>6, Zenon DEF HandOff, writerVars, IndInv, QueueInv
  <2>2. /\ Len(out') = Len(out) + 1 /\ out'[Len(out) + 1] = pending[Len(pending)]
        /\ \A k \in 1 .. Len(out) : out'[k] = out[k]
    BY <1>5, <2>1 DEF IndInv, TypeOK
  <2>3. \A k \in 1 .. Len(out') : out'[k] = pending[Len(batch) + k]
    <3> TAKE k \in 1 .. Len(out')
    <3>1. CASE k \in 1 .. Len(out)
      BY <2>2, <3>1, Zenon DEF IndInv, QueueInv
    <3>2. CASE k = Len(out) + 1
      <4>1. Len(batch) + k = Len(pending)
        BY <1>5, <2>1, <3>2
      <4>2. QED
        BY <2>2, <3>2, <4>1, Zenon
    <3>3. QED
      BY <1>5, <2>2, <3>1, <3>2
  <2>4. QueueInv'
    BY <1>2, <1>5, <2>1, <2>2, <2>3 DEF IndInv, QueueInv
  <2>5. QED
    BY <1>3, <1>4, <2>4, Zenon
<1>7. CASE Receive
  <2>1. /\ out # <<>> /\ out' = Tail(out) /\ batch' = Append(batch, Head(out)) /\ conPc' = conPc
    BY <1>7, Zenon DEF Receive
  <2>2. /\ Len(out) > 0 /\ Len(out') = Len(out) - 1
        /\ \A k \in 1 .. Len(out') : out'[k] = out[k + 1]
    BY <1>5, <2>1 DEF IndInv, TypeOK
  <2>3. /\ Len(batch') = Len(batch) + 1 /\ batch'[Len(batch) + 1] = out[1]
        /\ \A k \in 1 .. Len(batch) : batch'[k] = batch[k]
    BY <1>5, <2>1, <2>2 DEF IndInv, TypeOK
  <2>4. out[1] = pending[Len(batch) + 1]
    BY <1>5, <2>2 DEF IndInv, QueueInv
  <2>5. \A k \in 1 .. Len(batch') : batch'[k] = pending[k]
    BY <1>5, <2>3, <2>4, SMTT(30) DEF IndInv, QueueInv
  <2>6. \A k \in 1 .. Len(out') : out'[k] = pending[Len(batch') + k]
    <3> SUFFICES ASSUME NEW k \in 1 .. (Len(out) - 1)
                 PROVE  out'[k] = pending[Len(batch') + k]
      BY <2>2, Zenon
    <3>1. k + 1 \in 1 .. Len(out) /\ Len(batch) + (k + 1) = Len(batch') + k
      BY <1>5, <2>2, <2>3
    <3>2. out[k + 1] = pending[Len(batch) + (k + 1)]
      BY <3>1, Zenon DEF IndInv, QueueInv
    <3>3. QED
      BY <2>2, <3>1, <3>2, Zenon
  <2>7. QueueInv'
    BY <1>2, <1>5, <2>1, <2>2, <2>3, <2>5, <2>6 DEF IndInv, QueueInv
  <2>8. QED
    BY <1>3, <1>4, <2>7, Zenon
<1>8. QED
  BY <1>6, <1>7, Zenon

\* The committed position is the old one or the marked one.
LEMMA CommitStep ==
    ASSUME IndInv, AutoCommit \/ CloseEnd
    PROVE  PositionInv' /\ QueueInv' /\ CoverageInv' /\ ValueInv'
<1>1. InTopic' = InTopic /\ \A q : Value(q)' = Value(q)
  BY DEF AutoCommit, CloseEnd, InTopic, Value
<1>2. /\ UNCHANGED <<stored, marked, fetched, conPc, pending, out, batch, wpc>>
      /\ committed' \in {committed, marked} /\ proc # "down"
  BY Zenon DEF AutoCommit, CloseEnd, consVars, writerVars
<1>3. PositionInv'
  BY <1>1, <1>2, Zenon DEF IndInv, PositionInv, Closed, Settled, BelowPoison
<1>4. QueueInv' /\ CoverageInv' /\ ValueInv'
  BY <1>1, <1>2, Zenon DEF IndInv, QueueInv, CoverageInv, ValueInv
<1>5. QED
  BY <1>3, <1>4, Zenon

\* Ending the process, or starting it again, empties the queues.
LEMMA ProcessStep ==
    ASSUME IndInv, Crash \/ Restart
    PROVE  PositionInv' /\ QueueInv' /\ CoverageInv' /\ ValueInv'
<1>1. InTopic' = InTopic /\ \A q : Value(q)' = Value(q)
  BY Zenon DEF Crash, Restart, InTopic, Value, topicVars
<1>2. /\ UNCHANGED <<committed, stored>> /\ wpc' # "ack"
      /\ pending' = <<>> /\ out' = <<>> /\ batch' = <<>> /\ conPc' # "handoff"
      /\ \/ marked' = {} /\ fetched' = {} /\ proc' = "down"
         \/ marked' = committed /\ fetched' = committed
  BY Zenon DEF Crash, Restart, topicVars
<1>3. PositionInv'
  BY <1>1, <1>2, Zenon DEF IndInv, PositionInv, Closed, Settled, BelowPoison
<1>4. Len(pending') = 0 /\ Len(out') = 0 /\ Len(batch') = 0
  BY <1>2, Zenon
<1>5. QueueInv'
  BY <1>2, <1>4 DEF QueueInv
<1>6. CoverageInv' /\ ValueInv'
  BY <1>2, <1>4 DEF CoverageInv, ValueInv
<1>7. QED
  BY <1>3, <1>5, <1>6, Zenon

\* Stopping the consumer leaves its last record queued; abandoning the last
\* batch leaves all of it queued.
LEMMA StopStep ==
    ASSUME IndInv, StopConsumer \/ GiveUp
    PROVE  PositionInv' /\ QueueInv' /\ CoverageInv' /\ ValueInv'
<1>1. InTopic' = InTopic /\ \A q : Value(q)' = Value(q)
  BY DEF StopConsumer, GiveUp, InTopic, Value, topicVars
<1>2. UNCHANGED <<committed, stored, marked, fetched, pending, out, proc>>
  BY Zenon DEF StopConsumer, GiveUp, topicVars, consVars
<1>3. PositionInv' /\ CoverageInv'
  BY <1>1, <1>2, Zenon DEF IndInv, PositionInv, CoverageInv, Closed, Settled, BelowPoison
<1>4. Len(batch) \in Nat /\ Len(out) \in Nat /\ Len(pending) \in Nat
  BY DEF IndInv, TypeOK
<1>5. CASE StopConsumer
  <2>1. conPc' = "stopped" /\ batch' = batch /\ wpc' = wpc
    BY <1>5, Zenon DEF StopConsumer, writerVars
  <2>2. QueueInv' /\ ValueInv'
    BY <1>1, <1>2, <1>4, <2>1 DEF IndInv, QueueInv, ValueInv
  <2>3. QED
    BY <1>3, <2>2, Zenon
<1>6. CASE GiveUp
  <2>1. batch' = <<>> /\ conPc' = "stopped" /\ wpc' = "done" /\ out' = <<>>
    BY <1>6, Zenon DEF GiveUp, consVars, IndInv, DrainInv
  <2>2. Len(batch') = 0 /\ Len(out') = 0
    BY <2>1, Zenon
  <2>3. QueueInv' /\ ValueInv'
    BY <1>1, <1>2, <1>4, <2>1, <2>2 DEF IndInv, QueueInv, ValueInv
  <2>4. QED
    BY <1>3, <2>3, Zenon
<1>7. QED
  BY <1>5, <1>6, Zenon

\* The channel is empty once the Writer has seen it closed.
LEMMA DrainStep == IndInv /\ [Next]_vars => DrainInv'
<1> SUFFICES ASSUME IndInv, [Next]_vars PROVE DrainInv'
  BY Zenon
<1> USE DEF IndInv, DrainInv, topicVars, consVars, writerVars
<1>1. ASSUME NEW e \in Events, Publish(e) \/ Produce(e) \/ Produced(e) \/ ProduceFailed(e)
      PROVE  DrainInv'
  <2>1. CASE Publish(e)
    BY <2>1, Zenon DEF Publish
  <2>2. CASE Produce(e)
    BY <2>2, Zenon DEF Produce
  <2>3. CASE Produced(e)
    BY <2>3, Zenon DEF Produced
  <2>4. CASE ProduceFailed(e)
    BY <2>4, Zenon DEF ProduceFailed
  <2> QED
    BY <1>1, <2>1, <2>2, <2>3, <2>4, Zenon
<1>2. ASSUME NEW p \in Partitions, ForeignRecord(p) PROVE DrainInv'
  BY <1>2, Zenon DEF ForeignRecord
<1>3. ASSUME NEW r \in InTopic, Consume(r) PROVE DrainInv'
  BY <1>3, Zenon DEF Consume
<1>4. CASE HandOff \/ AutoCommit \/ Receive \/ TickFlush
  BY <1>4 DEF HandOff, AutoCommit, Receive, TickFlush
<1>5. CASE WriteOK \/ WriteFailed \/ Retry \/ GiveUp \/ Ack
  BY <1>5 DEF WriteOK, WriteFailed, Retry, GiveUp, Ack
<1>6. CASE ChannelClosed \/ GraceExpires \/ CloseBegin \/ StopConsumer \/ CloseEnd
  BY <1>6 DEF ChannelClosed, GraceExpires, CloseBegin, StopConsumer, CloseEnd
<1>7. CASE Crash \/ Restart \/ UNCHANGED vars
  BY <1>7 DEF Crash, Restart, vars
<1>8. QED
  BY <1>1, <1>2, <1>3, <1>4, <1>5, <1>6, <1>7, Zenon DEF Next

\* Batch, channel and hand-off stay consecutive stretches of the pending list.
LEMMA QueueStep ==
    IndInv /\ [Next]_vars => PositionInv' /\ QueueInv' /\ CoverageInv' /\ ValueInv'
<1> DEFINE Good == PositionInv' /\ QueueInv' /\ CoverageInv' /\ ValueInv'
<1> SUFFICES ASSUME IndInv, [Next]_vars PROVE Good
  BY Zenon
<1> USE DEF topicVars, consVars, writerVars
<1>1. ASSUME NEW e \in Events, Publish(e) \/ Produce(e) \/ ProduceFailed(e) PROVE Good
  BY <1>1, Frame, Zenon DEF Publish, Produce, ProduceFailed
<1>2. ASSUME NEW p \in Partitions, NEW v \in Events \cup {Poison},
             log' = [log EXCEPT ![p] = Append(@, v)],
             UNCHANGED <<committed, stored, proc, consVars, writerVars>>
      PROVE  Good
  <2>1. InTopic \subseteq InTopic' /\ \A r \in InTopic : Value(r)' = Value(r)
    BY <1>2, LogGrows, Zenon DEF IndInv
  <2>2. QED
    BY <1>2, <2>1, Growth, Zenon
<1>3. ASSUME NEW e \in Events, Produced(e) PROVE Good
  BY <1>2, <1>3, PipelineAssumption, Zenon DEF Produced
<1>4. ASSUME NEW p \in Partitions, ForeignRecord(p) PROVE Good
  BY <1>2, <1>4, Zenon DEF ForeignRecord
<1>5. ASSUME NEW r \in InTopic, Consume(r) PROVE Good
  BY <1>5, ConsumeStep, Zenon
<1>6. CASE WriteOK \/ WriteFailed
  <2>1. InTopic' = InTopic /\ \A r : Value(r)' = Value(r)
    <3>1. log' = log
      BY <1>6, Zenon DEF WriteOK, WriteFailed
    <3>2. QED
      BY <3>1 DEF InTopic, Value
  <2>2. \A k \in 1 .. Len(batch) : Value(batch[k]) \in BatchEvents
    BY DEF BatchEvents, IndInv, TypeOK
  <2>3. wpc' = "ack" => \A k \in 1 .. Len(batch) : Value(batch[k]) \in stored'
    BY <1>6, <2>2, Zenon DEF WriteOK, WriteFailed
  <2>4. /\ stored \subseteq stored' /\ UNCHANGED <<committed, marked, fetched, proc>>
        /\ UNCHANGED <<pending, out, batch, conPc>>
    BY <1>6, Zenon DEF WriteOK, WriteFailed
  <2>5. QED
    BY <2>1, <2>3, <2>4, Growth, Zenon
<1>7. CASE TickFlush \/ Retry \/ ChannelClosed \/ GraceExpires \/ CloseBegin
  BY <1>7, Frame, Zenon DEF TickFlush, Retry, ChannelClosed, GraceExpires, CloseBegin
<1>8. CASE UNCHANGED vars
  BY <1>8, Frame, Zenon DEF vars
<1>9. QED
  BY <1>1, <1>3, <1>4, <1>5, <1>6, <1>7, <1>8, ChannelStep, CommitStep, StopStep, AckStep,
     ProcessStep, Zenon DEF Next

-----------------------------------------------------------------------------
(* The inductive invariant holds in every reachable state.                 *)
THEOREM Invariance == Spec => []IndInv
<1>1. IndInv /\ [Next]_vars => IndInv'
  BY TypeStep, QueueStep, DrainStep, Zenon DEF IndInv
<1>2. QED
  BY InitInv, <1>1, PTL DEF Spec

(* Every state is well typed: in particular only decoded events reach the  *)
(* store.                                                                  *)
THEOREM TypeCorrect == Spec => []TypeOK
<1>1. IndInv => TypeOK
  BY Zenon DEF IndInv
<1>2. QED
  BY <1>1, Invariance, PTL

(* An event covered by the committed position is stored, unless an         *)
(* undecodable record at or behind it was committed, whatever crashes,     *)
(* outages and restarts happened.                                          *)
THEOREM CommitSafety == Spec => []LossOnlyBelowPoison
<1>1. IndInv => LossOnlyBelowPoison
  BY Zenon DEF IndInv, PositionInv, Settled, LossOnlyBelowPoison
<1>2. QED
  BY <1>1, Invariance, PTL

(* In a topic whose records all decode, the durable read position never    *)
(* runs ahead of the store.                                                *)
THEOREM PersistedFirst ==
    Spec => []((\A r \in InTopic : Value(r) # Poison) => PersistBeforeCommit)
<1>1. IndInv => ((\A r \in InTopic : Value(r) # Poison) => PersistBeforeCommit)
  BY Zenon DEF IndInv, PositionInv, Settled, BelowPoison, PersistBeforeCommit
<1>2. QED
  BY <1>1, Invariance, PTL

(* The Writer's batch, followed by the channel, is a prefix of the pending *)
(* queue, so Ack(n) acknowledges the records the Writer means.             *)
THEOREM HandOffSafety == Spec => []HandOffOrder
<1>1. ASSUME IndInv PROVE HandOffOrder
  <2> DEFINE handed == batch \o out
  <2>1. batch \in Seq(Records) /\ out \in Seq(Records) /\ pending \in Seq(Records)
    BY <1>1, Zenon DEF IndInv, TypeOK
  <2>2. /\ handed \in Seq(Records) /\ Len(handed) = Len(batch) + Len(out)
        /\ \A k \in 1 .. Len(batch) : handed[k] = batch[k]
        /\ \A k \in 1 .. Len(out) : handed[Len(batch) + k] = out[k]
    BY <2>1
  <2>3. Len(handed) <= Len(pending) /\ Len(handed) \in Nat
    BY <1>1, <2>1, <2>2 DEF IndInv, QueueInv
  <2>4. \A k \in 1 .. Len(handed) : handed[k] = pending[k]
    <3> TAKE k \in 1 .. Len(handed)
    <3>1. CASE k <= Len(batch)
      BY <1>1, <2>1, <2>2, <3>1 DEF IndInv, QueueInv
    <3>2. CASE k > Len(batch)
      <4> DEFINE j == k - Len(batch)
      <4>1. j \in 1 .. Len(out) /\ Len(batch) + j = k
        BY <2>1, <2>2, <3>2
      <4>2. QED
        BY <1>1, <2>2, <4>1, Zenon DEF IndInv, QueueInv
    <3>3. QED
      BY <2>1, <2>2, <3>1, <3>2
  <2>5. /\ SubSeq(pending, 1, Len(handed)) \in Seq(Records)
        /\ Len(SubSeq(pending, 1, Len(handed))) = Len(handed)
        /\ \A k \in 1 .. Len(handed) : SubSeq(pending, 1, Len(handed))[k] = pending[k]
    BY <2>1, <2>3
  <2>6. handed = SubSeq(pending, 1, Len(handed))
    <3> HIDE DEF handed
    <3>1. QED
      BY <2>2, <2>4, <2>5
  <2>7. QED
    BY <2>3, <2>6, Zenon DEF HandOffOrder
<1>2. QED
  BY <1>1, Invariance, PTL

(* The committed position never moves back and never covers an unread      *)
(* record.                                                                 *)
THEOREM CommitOrder == Spec => CommitAdvances
<1>1. IndInv /\ IndInv' /\ [Next]_vars => [committed \subseteq committed' /\ committed' \subseteq InTopic]_vars
  <2> SUFFICES ASSUME IndInv, IndInv', Next
               PROVE  committed \subseteq committed' /\ committed' \subseteq InTopic
    BY Zenon
  <2> USE DEF topicVars
  <2>1. \/ committed' = committed
        \/ committed' = marked /\ proc # "down"
    <3>1. ASSUME NEW e \in Events, Publish(e) \/ Produce(e) \/ Produced(e) \/ ProduceFailed(e)
          PROVE  committed' = committed
      BY <3>1, Zenon DEF Publish, Produce, Produced, ProduceFailed
    <3>2. ASSUME NEW p \in Partitions, ForeignRecord(p) PROVE committed' = committed
      BY <3>2, Zenon DEF ForeignRecord
    <3>3. ASSUME NEW r \in InTopic, Consume(r) PROVE committed' = committed
      BY <3>3, Zenon DEF Consume
    <3>4. CASE AutoCommit \/ CloseEnd
      BY <3>4, Zenon DEF AutoCommit, CloseEnd
    <3>5. CASE \/ HandOff \/ Receive \/ TickFlush \/ WriteOK \/ WriteFailed \/ Retry \/ GiveUp
               \/ Ack \/ ChannelClosed \/ GraceExpires \/ CloseBegin \/ StopConsumer
               \/ Crash \/ Restart
      BY <3>5, Zenon DEF HandOff, Receive, TickFlush, WriteOK, WriteFailed, Retry, GiveUp, Ack,
                  ChannelClosed, GraceExpires, CloseBegin, StopConsumer, Crash, Restart
    <3>6. QED
      BY <3>1, <3>2, <3>3, <3>4, <3>5, Zenon DEF Next
  <2>2. QED
    BY <2>1, Zenon DEF IndInv, PositionInv
<1>2. QED
  BY <1>1, Invariance, PTL DEF Spec, CommitAdvances
=============================================================================
