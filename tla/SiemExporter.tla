---------------------------- MODULE SiemExporter ----------------------------
(***************************************************************************)
(* The SIEM exporter for one tenant: concurrent Submit calls, the tenant's *)
(* pipe (a bounded queue and the goroutine that batches and delivers), its *)
(* idle reaping and re-creation, the connector cache, retries, circuit     *)
(* breakers, and Stop.  A pipe that was reaped is never reused: Submit     *)
(* makes another, so a tenant goes through several pipes.                  *)
(***************************************************************************)
EXTENDS Integers, Sequences, FiniteSets

CONSTANTS
    SiemEvents,    \* events, each submitted by a call of its own
    Pipes,         \* identities of the pipes the tenant goes through
    Connectors,    \* connector ids
    PipeSize,      \* capacity of a pipe's queue
    BatchSize,     \* events that make a full batch
    SiemAttempts,  \* attempts per batch and connector
    SiemTrip,      \* consecutive failures that open a breaker
    Nil

VARIABLES
    active,      \* the store: the tenant's active connectors
    registered,  \* ex.pipes[tenant], Nil when there is no entry
    sStopPc,     \* Stop: "running", "signal", "wait", "done"
    snapshot,    \* the pipe Stop found registered
    sEvPc,       \* where each Submit call is, or what became of its event
    held,        \* the pipe a Submit call looked up
    pc,          \* where each pipe's goroutine is
    ch,          \* each pipe's queue
    batch,       \* each pipe's batch
    closed,      \* p.closed: the pipe was reaped
    quit,        \* p.quit is closed
    cached,      \* p.cached
    fresh,       \* p.cachedAt is within ConnectorCacheTTL
    todo,        \* connectors the batch must still go to
    sending,     \* the connector being delivered to
    sAttempt,    \* the attempt it is on
    sFailures,   \* breaker: failures since the last success or trip
    sOpen,       \* breaker: openUntil lies in the future
    fate         \* history: what the exporter did with an event for a connector

storeVars == <<active>>
mapVars == <<registered, sStopPc, snapshot>>
submitVars == <<sEvPc, held>>
queueVars == <<ch, closed>>
cacheVars == <<cached, fresh>>
sendVars == <<todo, sending, sAttempt>>
siemBreakerVars == <<sFailures, sOpen>>
siemVars == <<storeVars, mapVars, submitVars, queueVars, pc, batch, quit,
          cacheVars, sendVars, siemBreakerVars, fate>>

Range(s) == {s[i] : i \in DOMAIN s}

\* The outcomes the exporter counts for a batch at a connector.
Counted == {"success", "dead_letter", "circuit_open", "render_error"}

SiemInit ==
    /\ active = {}
    /\ registered = Nil /\ sStopPc = "running" /\ snapshot = Nil
    /\ sEvPc = [e \in SiemEvents |-> "new"] /\ held = [e \in SiemEvents |-> Nil]
    /\ pc = [p \in Pipes |-> "none"] /\ ch = [p \in Pipes |-> <<>>]
    /\ batch = [p \in Pipes |-> <<>>] /\ closed = [p \in Pipes |-> FALSE]
    /\ quit = [p \in Pipes |-> FALSE] /\ cached = [p \in Pipes |-> {}]
    /\ fresh = [p \in Pipes |-> FALSE] /\ todo = [p \in Pipes |-> {}]
    /\ sending = [p \in Pipes |-> Nil] /\ sAttempt = [p \in Pipes |-> 0]
    /\ sFailures = [p \in Pipes |-> [c \in Connectors |-> 0]]
    /\ sOpen = [p \in Pipes |-> [c \in Connectors |-> FALSE]]
    /\ fate = [e \in SiemEvents |-> [c \in Connectors |-> "none"]]

-----------------------------------------------------------------------------
(* The connector store.                                                    *)

RegisterConnector(c) ==
    /\ c \notin active
    /\ active' = active \cup {c}
    /\ UNCHANGED <<mapVars, submitVars, queueVars, pc, batch, quit, cacheVars, sendVars, siemBreakerVars, fate>>

DeleteConnector(c) ==
    /\ c \in active
    /\ active' = active \ {c}
    /\ UNCHANGED <<mapVars, submitVars, queueVars, pc, batch, quit, cacheVars, sendVars, siemBreakerVars, fate>>

-----------------------------------------------------------------------------
(* Submit.                                                                 *)

SiemSubmit(e) ==
    /\ sEvPc[e] = "new"
    /\ sEvPc' = [sEvPc EXCEPT ![e] = IF sStopPc = "running" THEN "lookup" ELSE "refused"]
    /\ UNCHANGED <<storeVars, mapVars, held, queueVars, pc, batch, quit, cacheVars, sendVars, siemBreakerVars, fate>>

\* Mutant: the stop signal is not tested again under the write lock.
getOrCreateLate(e) ==
    /\ sEvPc[e] = "lookup"
    /\ \/ /\ registered # Nil
          /\ held' = [held EXCEPT ![e] = registered]
          /\ UNCHANGED <<registered, pc>>
       \/ /\ registered = Nil
          /\ \E p \in Pipes :
               /\ pc[p] = "none"
               /\ registered' = p
               /\ pc' = [pc EXCEPT ![p] = "select"]
               /\ held' = [held EXCEPT ![e] = p]
    /\ sEvPc' = [sEvPc EXCEPT ![e] = "enqueue"]
    /\ UNCHANGED <<storeVars, sStopPc, snapshot, queueVars, batch, quit, cacheVars, sendVars, siemBreakerVars, fate>>

\* Mutant: the entry is not looked up again under the write lock.
getOrCreateBlind(e) ==
    /\ sEvPc[e] = "lookup" /\ sStopPc = "running"
    /\ \E p \in Pipes :
         /\ pc[p] = "none"
         /\ registered' = p
         /\ pc' = [pc EXCEPT ![p] = "select"]
         /\ held' = [held EXCEPT ![e] = p]
    /\ sEvPc' = [sEvPc EXCEPT ![e] = "enqueue"]
    /\ UNCHANGED <<storeVars, sStopPc, snapshot, queueVars, batch, quit, cacheVars, sendVars, siemBreakerVars, fate>>

\* The lookup under the read lock and, when it misses, again under the write
\* lock, which alone decides: nil once stopped, else a new pipe.
getOrCreate(e) ==
    /\ sEvPc[e] = "lookup"
    /\ \/ /\ registered # Nil
          /\ held' = [held EXCEPT ![e] = registered]
          /\ sEvPc' = [sEvPc EXCEPT ![e] = "enqueue"]
          /\ UNCHANGED <<registered, pc>>
       \/ /\ registered = Nil /\ sStopPc # "running"
          /\ sEvPc' = [sEvPc EXCEPT ![e] = "refused"]
          /\ UNCHANGED <<registered, pc, held>>
       \/ /\ registered = Nil /\ sStopPc = "running"
          /\ \E p \in Pipes :
               /\ pc[p] = "none"
               /\ registered' = p
               /\ pc' = [pc EXCEPT ![p] = "select"]
               /\ held' = [held EXCEPT ![e] = p]
          /\ sEvPc' = [sEvPc EXCEPT ![e] = "enqueue"]
    /\ UNCHANGED <<storeVars, sStopPc, snapshot, queueVars, batch, quit, cacheVars, sendVars, siemBreakerVars, fate>>

\* Under the pipe's lock; a full queue sheds the event.
enqueue(e) ==
    /\ sEvPc[e] = "enqueue"
    /\ LET p == held[e] IN
       \/ closed[p] /\ sEvPc' = [sEvPc EXCEPT ![e] = "stale"] /\ UNCHANGED ch
       \/ /\ ~closed[p] /\ Len(ch[p]) < PipeSize
          /\ ch' = [ch EXCEPT ![p] = Append(@, e)] /\ sEvPc' = [sEvPc EXCEPT ![e] = "accepted"]
       \/ /\ ~closed[p] /\ Len(ch[p]) >= PipeSize
          /\ sEvPc' = [sEvPc EXCEPT ![e] = "shed"] /\ UNCHANGED ch
    /\ UNCHANGED <<storeVars, mapVars, held, closed, pc, batch, quit, cacheVars, sendVars, siemBreakerVars, fate>>

removePipe(p) == registered' = IF registered = p THEN Nil ELSE registered

\* The pipe was reaped between lookup and send: Submit starts over.
SubmitRetries(e) ==
    /\ sEvPc[e] = "stale"
    /\ removePipe(held[e])
    /\ sEvPc' = [sEvPc EXCEPT ![e] = "lookup"]
    /\ held' = [held EXCEPT ![e] = Nil]
    /\ UNCHANGED <<storeVars, sStopPc, snapshot, queueVars, pc, batch, quit, cacheVars, sendVars, siemBreakerVars, fate>>

-----------------------------------------------------------------------------
(* The pipe's goroutine: select, flush, idle reaping, quit.                *)

Receive(p) ==
    /\ pc[p] \in {"select", "drain"} /\ ch[p] # <<>>
    /\ ch' = [ch EXCEPT ![p] = Tail(@)]
    /\ batch' = [batch EXCEPT ![p] = Append(@, Head(ch[p]))]
    /\ pc' = [pc EXCEPT ![p] = IF @ = "select" /\ Len(batch[p]) + 1 >= BatchSize THEN "flush" ELSE @]
    /\ UNCHANGED <<storeVars, mapVars, submitVars, closed, quit, cacheVars, sendVars, siemBreakerVars, fate>>

Tick(p) ==
    /\ pc[p] = "select" /\ batch[p] # <<>>
    /\ pc' = [pc EXCEPT ![p] = "flush"]
    /\ UNCHANGED <<storeVars, mapVars, submitVars, queueVars, batch, quit, cacheVars, sendVars, siemBreakerVars, fate>>

\* Bound: the last of Pipes is not reaped, so that Submit always finds one.
PipeLeft == \E q \in Pipes : pc[q] = "none"

\* Mutant: the reaper does not look into the queue.
tryCloseBlind(p) ==
    /\ pc[p] = "select" /\ batch[p] = <<>> /\ PipeLeft
    /\ closed' = [closed EXCEPT ![p] = TRUE]
    /\ pc' = [pc EXCEPT ![p] = "reaped"]
    /\ UNCHANGED <<storeVars, mapVars, submitVars, ch, batch, quit, cacheVars, sendVars, siemBreakerVars, fate>>

\* The idle timer fires: reap only with nothing batched and nothing queued.
tryClose(p) ==
    /\ pc[p] = "select" /\ batch[p] = <<>> /\ ch[p] = <<>> /\ PipeLeft
    /\ closed' = [closed EXCEPT ![p] = TRUE]
    /\ pc' = [pc EXCEPT ![p] = "reaped"]
    /\ UNCHANGED <<storeVars, mapVars, submitVars, ch, batch, quit, cacheVars, sendVars, siemBreakerVars, fate>>

\* tryClose after the pipe's lock is released: the goroutine exits.
Reaped(p) ==
    /\ pc[p] = "reaped"
    /\ removePipe(p)
    /\ pc' = [pc EXCEPT ![p] = "gone"]
    /\ UNCHANGED <<storeVars, sStopPc, snapshot, submitVars, queueVars, batch, quit, cacheVars, sendVars, siemBreakerVars, fate>>

Quit(p) ==
    /\ pc[p] = "select" /\ quit[p]
    /\ pc' = [pc EXCEPT ![p] = "drain"]
    /\ UNCHANGED <<storeVars, mapVars, submitVars, queueVars, batch, quit, cacheVars, sendVars, siemBreakerVars, fate>>

\* drainInto found the queue empty; the last flush follows, if there is one.
Drained(p) ==
    /\ pc[p] = "drain" /\ ch[p] = <<>>
    /\ pc' = [pc EXCEPT ![p] = IF batch[p] = <<>> THEN "gone" ELSE "last_flush"]
    /\ UNCHANGED <<storeVars, mapVars, submitVars, queueVars, batch, quit, cacheVars, sendVars, siemBreakerVars, fate>>

-----------------------------------------------------------------------------
(* deliver and deliverToConnector.                                         *)

\* Where the goroutine goes once its batch is done with.
AfterFlush(p) == IF pc[p] \in {"last_flush", "last_batch"} THEN "gone" ELSE "select"

Settle(p) == sEvPc' = [e \in SiemEvents |-> IF e \in Range(batch[p]) THEN "settled" ELSE sEvPc[e]]

Record(p, cs, outcome) ==
    fate' = [e \in SiemEvents |-> [c \in Connectors |->
                IF e \in Range(batch[p]) /\ c \in cs THEN outcome ELSE fate[e][c]]]

\* connectors: the cache while it is fresh and holds something, else the
\* store, else (the read failed) the cache as it is.  An empty set counts as
\* no cache.
connectors(p) ==
    \/ cached[p] # {} /\ fresh[p] /\ UNCHANGED cacheVars
    \/ /\ cached[p] = {} \/ ~fresh[p]
       /\ \/ cached' = [cached EXCEPT ![p] = active] /\ fresh' = [fresh EXCEPT ![p] = TRUE]
          \/ UNCHANGED cacheVars

\* With no connector to go to, the batch is over, uncounted.
deliver(p) ==
    /\ pc[p] \in {"flush", "last_flush"}
    /\ connectors(p)
    /\ IF cached'[p] = {}
       THEN /\ Settle(p)
            /\ batch' = [batch EXCEPT ![p] = <<>>]
            /\ pc' = [pc EXCEPT ![p] = AfterFlush(p)]
            /\ UNCHANGED <<todo, fate>>
       ELSE /\ todo' = [todo EXCEPT ![p] = cached'[p]]
            /\ pc' = [pc EXCEPT ![p] = IF @ = "flush" THEN "batch" ELSE "last_batch"]
            /\ Record(p, cached'[p], "owed")
            /\ UNCHANGED <<batch, sEvPc>>
    /\ UNCHANGED <<storeVars, mapVars, held, queueVars, quit, sending, sAttempt, siemBreakerVars>>

\* The batch meets the next connector: it does not render, or its breaker is
\* open, or the first attempt is made.
deliverToConnector(p, c) ==
    /\ pc[p] \in {"batch", "last_batch"} /\ sending[p] = Nil /\ c \in todo[p]
    /\ todo' = [todo EXCEPT ![p] = @ \ {c}]
    /\ \/ /\ Record(p, {c}, "render_error")
          /\ UNCHANGED <<sending, sAttempt>>
       \/ /\ sOpen[p][c] /\ Record(p, {c}, "circuit_open")
          /\ UNCHANGED <<sending, sAttempt>>
       \/ /\ ~sOpen[p][c]
          /\ sending' = [sending EXCEPT ![p] = c] /\ sAttempt' = [sAttempt EXCEPT ![p] = 1]
          /\ UNCHANGED fate
    /\ UNCHANGED <<storeVars, mapVars, submitVars, queueVars, pc, batch, quit, cacheVars, siemBreakerVars>>

siemRecordSuccess(p, c) ==
    /\ sFailures' = [sFailures EXCEPT ![p][c] = 0]
    /\ sOpen' = [sOpen EXCEPT ![p][c] = FALSE]

siemRecordFailure(p, c) ==
    IF sFailures[p][c] + 1 >= SiemTrip
    THEN sFailures' = [sFailures EXCEPT ![p][c] = 0] /\ sOpen' = [sOpen EXCEPT ![p][c] = TRUE]
    ELSE sFailures' = [sFailures EXCEPT ![p][c] = @ + 1] /\ UNCHANGED sOpen

\* An attempt is under way, and not waiting for its backoff to end.
Sending(p) == pc[p] \in {"batch", "last_batch"} /\ sending[p] # Nil /\ sAttempt[p] > 0

sendSucceeds(p) ==
    /\ Sending(p)
    /\ siemRecordSuccess(p, sending[p])
    /\ Record(p, {sending[p]}, "success")
    /\ sending' = [sending EXCEPT ![p] = Nil] /\ sAttempt' = [sAttempt EXCEPT ![p] = 0]
    /\ UNCHANGED <<storeVars, mapVars, submitVars, queueVars, pc, batch, quit, cacheVars, todo>>

\* A permanent failure, or a retryable one on the last attempt.
sendFails(p) ==
    /\ Sending(p)
    /\ siemRecordFailure(p, sending[p])
    /\ Record(p, {sending[p]}, "dead_letter")
    /\ sending' = [sending EXCEPT ![p] = Nil] /\ sAttempt' = [sAttempt EXCEPT ![p] = 0]
    /\ UNCHANGED <<storeVars, mapVars, submitVars, queueVars, pc, batch, quit, cacheVars, todo>>

\* A retryable failure with attempts left; the attempt number is negative
\* during the backoff.
sendBacksOff(p) ==
    /\ Sending(p) /\ sAttempt[p] < SiemAttempts
    /\ siemRecordFailure(p, sending[p])
    /\ sAttempt' = [sAttempt EXCEPT ![p] = -@]
    /\ UNCHANGED <<storeVars, mapVars, submitVars, queueVars, pc, batch, quit, cacheVars, todo, sending, fate>>

\* Mutant: shutdown during the backoff abandons the batch uncounted.
sleepCtxSilent(p) ==
    /\ sending[p] # Nil /\ sAttempt[p] < 0
    /\ \/ /\ sAttempt' = [sAttempt EXCEPT ![p] = 1 - @]
          /\ UNCHANGED <<sending, fate>>
       \/ /\ quit[p]
          /\ sending' = [sending EXCEPT ![p] = Nil] /\ sAttempt' = [sAttempt EXCEPT ![p] = 0]
          /\ UNCHANGED fate
    /\ UNCHANGED <<storeVars, mapVars, submitVars, queueVars, pc, batch, quit, cacheVars, todo, siemBreakerVars>>

\* The backoff ends, or the exporter stops in the middle of it.
sleepCtx(p) ==
    /\ sending[p] # Nil /\ sAttempt[p] < 0
    /\ \/ /\ sAttempt' = [sAttempt EXCEPT ![p] = 1 - @]
          /\ UNCHANGED <<sending, fate>>
       \/ /\ quit[p]
          /\ Record(p, {sending[p]}, "dead_letter")
          /\ sending' = [sending EXCEPT ![p] = Nil] /\ sAttempt' = [sAttempt EXCEPT ![p] = 0]
    /\ UNCHANGED <<storeVars, mapVars, submitVars, queueVars, pc, batch, quit, cacheVars, todo, siemBreakerVars>>

\* Every connector was seen to: flush returns.
Delivered(p) ==
    /\ pc[p] \in {"batch", "last_batch"} /\ sending[p] = Nil /\ todo[p] = {}
    /\ Settle(p)
    /\ batch' = [batch EXCEPT ![p] = <<>>]
    /\ pc' = [pc EXCEPT ![p] = AfterFlush(p)]
    /\ UNCHANGED <<storeVars, mapVars, held, queueVars, quit, cacheVars, sendVars, siemBreakerVars, fate>>

CacheExpires(p) ==
    /\ fresh[p]
    /\ fresh' = [fresh EXCEPT ![p] = FALSE]
    /\ UNCHANGED <<storeVars, mapVars, submitVars, queueVars, pc, batch, quit, cached, sendVars, siemBreakerVars, fate>>

SiemBreakerResets(p, c) ==
    /\ sOpen[p][c]
    /\ sOpen' = [sOpen EXCEPT ![p][c] = FALSE]
    /\ UNCHANGED <<storeVars, mapVars, submitVars, queueVars, pc, batch, quit, cacheVars, sendVars, sFailures, fate>>

-----------------------------------------------------------------------------
(* Stop.                                                                   *)

\* Under the write lock: the stop signal and the snapshot of the pipes.
SiemStop ==
    /\ sStopPc = "running"
    /\ sStopPc' = "signal" /\ snapshot' = registered
    /\ UNCHANGED <<storeVars, registered, submitVars, queueVars, pc, batch, quit, cacheVars, sendVars, siemBreakerVars, fate>>

signalStop ==
    /\ sStopPc = "signal"
    /\ sStopPc' = "wait"
    /\ quit' = [p \in Pipes |-> quit[p] \/ p = snapshot]
    /\ UNCHANGED <<storeVars, registered, snapshot, submitVars, queueVars, pc, batch, cacheVars, sendVars, siemBreakerVars, fate>>

\* wg.Wait returns.
StopReturns ==
    /\ sStopPc = "wait" /\ \A p \in Pipes : pc[p] \in {"none", "gone"}
    /\ sStopPc' = "done"
    /\ UNCHANGED <<storeVars, registered, snapshot, submitVars, queueVars, pc, batch, quit, cacheVars, sendVars, siemBreakerVars, fate>>

-----------------------------------------------------------------------------
SubmitStep(e) == SiemSubmit(e) \/ getOrCreate(e) \/ enqueue(e) \/ SubmitRetries(e)
SendStep(p) == sendSucceeds(p) \/ sendFails(p) \/ sendBacksOff(p)
ConnectorStep(p) == \E c \in Connectors : deliverToConnector(p, c)
Flushing(p) == deliver(p) \/ ConnectorStep(p) \/ SendStep(p) \/ sleepCtx(p) \/ Delivered(p)
PipeStep(p) == Receive(p) \/ Tick(p) \/ tryClose(p) \/ Reaped(p) \/ Quit(p) \/ Drained(p)
Clocks(p) == CacheExpires(p) \/ \E c \in Connectors : SiemBreakerResets(p, c)

SiemNext ==
    \/ \E c \in Connectors : RegisterConnector(c) \/ DeleteConnector(c)
    \/ \E e \in SiemEvents : SubmitStep(e)
    \/ \E p \in Pipes : PipeStep(p) \/ Flushing(p) \/ Clocks(p)
    \/ SiemStop \/ signalStop \/ StopReturns

SiemSpec == SiemInit /\ [][SiemNext]_siemVars

\* Goroutines run, the ticker ticks, attempts end by their timeout and
\* backoffs by their timer, and a goroutine that can quit does.
SiemFairSpec ==
    /\ SiemSpec
    /\ \A e \in SiemEvents : WF_siemVars(SubmitStep(e))
    /\ \A p \in Pipes : /\ WF_siemVars(Receive(p)) /\ WF_siemVars(Tick(p)) /\ WF_siemVars(Reaped(p))
                        /\ WF_siemVars(Quit(p)) /\ WF_siemVars(Drained(p)) /\ WF_siemVars(Flushing(p))
    /\ WF_siemVars(signalStop) /\ WF_siemVars(StopReturns)

-----------------------------------------------------------------------------
(* Properties.                                                             *)

SiemTypeOK ==
    /\ active \subseteq Connectors
    /\ registered \in Pipes \cup {Nil} /\ snapshot \in Pipes \cup {Nil}
    /\ sStopPc \in {"running", "signal", "wait", "done"}
    /\ sEvPc \in [SiemEvents -> {"new", "lookup", "enqueue", "stale", "accepted", "shed", "refused", "settled"}]
    /\ held \in [SiemEvents -> Pipes \cup {Nil}]
    /\ pc \in [Pipes -> {"none", "select", "flush", "batch", "drain", "last_flush", "last_batch",
                         "reaped", "gone"}]
    /\ ch \in [Pipes -> Seq(SiemEvents)] /\ batch \in [Pipes -> Seq(SiemEvents)]
    /\ closed \in [Pipes -> BOOLEAN] /\ quit \in [Pipes -> BOOLEAN] /\ fresh \in [Pipes -> BOOLEAN]
    /\ cached \in [Pipes -> SUBSET Connectors] /\ todo \in [Pipes -> SUBSET Connectors]
    /\ sending \in [Pipes -> Connectors \cup {Nil}] /\ sAttempt \in [Pipes -> -SiemAttempts .. SiemAttempts]
    /\ sFailures \in [Pipes -> [Connectors -> 0 .. SiemTrip - 1]]
    /\ sOpen \in [Pipes -> [Connectors -> BOOLEAN]]
    /\ fate \in [SiemEvents -> [Connectors -> Counted \cup {"none", "owed"}]]

Live(p) == pc[p] \notin {"none", "reaped", "gone"}
Stranded(e) == sEvPc[e] = "accepted" /\ \E p \in Pipes : e \in Range(ch[p]) /\ ~Live(p)

(* Reaping an idle pipe strands no event: whatever races enqueue with      *)
(* tryClose, only Stop can leave an accepted event in a queue that nobody  *)
(* reads (the closed flag and the length are tested under one lock).       *)
NothingStrandedByReaping == (\E e \in SiemEvents : Stranded(e)) => sStopPc # "running"

(* A pipe that runs is the one in the map, so Stop signals it and waits    *)
(* for nothing it did not signal (removePipe compares before it deletes).  *)
LiveIsRegistered == \A p \in Pipes : Live(p) /\ ~quit[p] => registered = p

(* One pipe works for the tenant at a time: a pipe that is re-created      *)
(* while its predecessor exits never delivers beside it.                   *)
OnePipeWorks ==
    \A p, q \in Pipes : (Live(p) \/ batch[p] # <<>>) /\ (Live(q) \/ batch[q] # <<>>) => p = q

(* A batch is accounted for at every connector it was meant for: delivered *)
(* or counted as dead-lettered, short-circuited or unrenderable, shutdown  *)
(* in the middle of a backoff included (deliverToConnector).               *)
BatchAccounted ==
    \A e \in SiemEvents, c \in Connectors : sEvPc[e] = "settled" => fate[e][c] # "owed"

(* Every accepted event is settled unless Stop strands it, every Submit    *)
(* ends, and Stop returns.                                                 *)
ExporterSettles ==
    []<>(/\ \A e \in SiemEvents : sEvPc[e] \in {"new", "settled", "shed", "refused"} \/ Stranded(e)
         /\ sStopPc \in {"running", "done"})

=============================================================================
