-------------------------- MODULE WebhookDispatcher --------------------------
(***************************************************************************)
(* The webhook dispatcher: a bounded event buffer, one fan-out goroutine,  *)
(* a bounded job queue, a pool of delivery workers, retry timers, and one  *)
(* circuit breaker per endpoint, up to and through Stop.  A job is one     *)
(* event for one webhook.                                                  *)
(***************************************************************************)
EXTENDS Integers, Sequences, FiniteSets

CONSTANTS
    Events,       \* events the ingest Writer submits, each once
    Hooks,        \* webhook ids
    QueueSize,    \* capacity of the event buffer and of the job queue
    Workers,      \* size of the worker pool
    MaxAttempts,  \* delivery attempts per job
    BreakerTrip,  \* consecutive failures that open a breaker
    None

ASSUME DispatcherAssumption ==
    /\ QueueSize \in Nat \ {0} /\ Workers \in Nat \ {0}
    /\ MaxAttempts \in Nat \ {0} /\ BreakerTrip \in Nat \ {0}

Jobs == Events \X Hooks

ASSUME NoneIsNoJob == None \notin Jobs

VARIABLES
    subscribed,  \* the registry: active webhooks that match the events
    events,      \* the event buffer
    evPc,        \* what became of each event
    jobPc,       \* where each job is; the last step is its outcome
    attempt,     \* the attempt a job is on, 0 before fan-out
    failures,    \* breaker: failures counted since the last success or trip
    open,        \* breaker: openUntil lies in the future
    streak,      \* history: failures of an endpoint since its last success
    stopPc,      \* Stop: "running", "stopped" (flag set, event buffer closed),
                 \* "closed" (job queue closed) or "done"
    panicked     \* the job sent on the closed queue, if any

breakerVars == <<failures, open, streak>>
vars == <<subscribed, events, evPc, jobPc, attempt, breakerVars, stopPc, panicked>>

\* Outcomes the dispatcher counts; a drop is for a full queue or for Stop.
Outcomes == {"success", "error", "exhausted", "circuit_open", "dropped_full", "dropped_stopped"}
JobSteps == {"none", "enqueue", "admitted", "queued", "delivering", "backoff"} \cup Outcomes
JobsAt(step) == {j \in Jobs : jobPc[j] = step}

Init ==
    /\ subscribed = {}
    /\ events = <<>> /\ evPc = [e \in Events |-> "new"]
    /\ jobPc = [j \in Jobs |-> "none"] /\ attempt = [j \in Jobs |-> 0]
    /\ failures = [h \in Hooks |-> 0] /\ open = [h \in Hooks |-> FALSE]
    /\ streak = [h \in Hooks |-> 0]
    /\ stopPc = "running" /\ panicked = None

-----------------------------------------------------------------------------
(* The registry, the Writer's side, and the fan-out goroutine.             *)

CreateWebhook(h) ==
    /\ h \notin subscribed
    /\ subscribed' = subscribed \cup {h}
    /\ UNCHANGED <<events, evPc, jobPc, attempt, breakerVars, stopPc, panicked>>

DeleteWebhook(h) ==
    /\ h \in subscribed
    /\ subscribed' = subscribed \ {h}
    /\ UNCHANGED <<events, evPc, jobPc, attempt, breakerVars, stopPc, panicked>>

\* The server stops the Writer before it stops the dispatcher.
Submit(e) ==
    /\ stopPc = "running" /\ evPc[e] = "new"
    /\ IF Len(events) < QueueSize
       THEN events' = Append(events, e) /\ evPc' = [evPc EXCEPT ![e] = "buffered"]
       ELSE evPc' = [evPc EXCEPT ![e] = "dropped"] /\ UNCHANGED events
    /\ UNCHANGED <<subscribed, jobPc, attempt, breakerVars, stopPc, panicked>>

\* The fan-out goroutine is between two events.
LoopIdle == \A j \in Jobs : jobPc[j] \in {"enqueue", "admitted"} => attempt[j] > 1

\* The lookup may fail or time out.
Fanout ==
    /\ events # <<>> /\ LoopIdle
    /\ events' = Tail(events)
    /\ LET e == Head(events) IN
       \/ /\ evPc' = [evPc EXCEPT ![e] = "lookup_error"]
          /\ UNCHANGED <<jobPc, attempt>>
       \/ /\ evPc' = [evPc EXCEPT ![e] = "fanned_out"]
          /\ jobPc' = [j \in Jobs |-> IF j \in {e} \X subscribed THEN "enqueue" ELSE jobPc[j]]
          /\ attempt' = [j \in Jobs |-> IF j \in {e} \X subscribed THEN 1 ELSE attempt[j]]
    /\ UNCHANGED <<subscribed, breakerVars, stopPc, panicked>>

-----------------------------------------------------------------------------
(* enqueue, from the fan-out goroutine or from a retry timer: the stopped  *)
(* flag is tested first, then the job is sent without blocking.            *)

\* The fan-out goroutine enqueues one job at a time.
MayEnqueue(j) == attempt[j] > 1 \/ \A k \in JobsAt("admitted") : attempt[k] > 1

TestStopped(j) ==
    /\ jobPc[j] = "enqueue" /\ MayEnqueue(j)
    /\ jobPc' = [jobPc EXCEPT ![j] = IF stopPc = "running" THEN "admitted" ELSE "dropped_stopped"]
    /\ UNCHANGED <<subscribed, events, evPc, attempt, breakerVars, stopPc, panicked>>

\* A send on the closed queue panics, under select with a default too.
Send(j) ==
    /\ jobPc[j] = "admitted" /\ panicked = None
    /\ IF stopPc \in {"closed", "done"}
       THEN panicked' = j /\ UNCHANGED jobPc
       ELSE /\ jobPc' = [jobPc EXCEPT ![j] = IF Cardinality(JobsAt("queued")) < QueueSize
                                             THEN "queued" ELSE "dropped_full"]
            /\ UNCHANGED panicked
    /\ UNCHANGED <<subscribed, events, evPc, attempt, breakerVars, stopPc>>

\* The timer of a failed attempt fires.
RetryFires(j) ==
    /\ jobPc[j] = "backoff"
    /\ jobPc' = [jobPc EXCEPT ![j] = "enqueue"]
    /\ attempt' = [attempt EXCEPT ![j] = @ + 1]
    /\ UNCHANGED <<subscribed, events, evPc, breakerVars, stopPc, panicked>>

-----------------------------------------------------------------------------
(* Workers and breakers.                                                   *)

\* Mutant: a job stays queued until its breaker closes.
DeliverWaits(j) ==
    /\ jobPc[j] = "queued" /\ Cardinality(JobsAt("delivering")) < Workers /\ ~open[j[2]]
    /\ jobPc' = [jobPc EXCEPT ![j] = "delivering"]
    /\ UNCHANGED <<subscribed, events, evPc, attempt, breakerVars, stopPc, panicked>>

\* A job that finds its breaker open is given up, retries left or not.
Deliver(j) ==
    /\ jobPc[j] = "queued" /\ Cardinality(JobsAt("delivering")) < Workers
    /\ jobPc' = [jobPc EXCEPT ![j] = IF open[j[2]] THEN "circuit_open" ELSE "delivering"]
    /\ UNCHANGED <<subscribed, events, evPc, attempt, breakerVars, stopPc, panicked>>

recordSuccess(h) ==
    /\ failures' = [failures EXCEPT ![h] = 0]
    /\ open' = [open EXCEPT ![h] = FALSE]
    /\ streak' = [streak EXCEPT ![h] = 0]

\* Mutant: the trip threshold is off by one.
recordFailureEarly(h) ==
    /\ streak' = [streak EXCEPT ![h] = @ + 1]
    /\ IF failures[h] + 2 >= BreakerTrip
       THEN failures' = [failures EXCEPT ![h] = 0] /\ open' = [open EXCEPT ![h] = TRUE]
       ELSE failures' = [failures EXCEPT ![h] = @ + 1] /\ UNCHANGED open

recordFailure(h) ==
    /\ streak' = [streak EXCEPT ![h] = @ + 1]
    /\ IF failures[h] + 1 >= BreakerTrip
       THEN failures' = [failures EXCEPT ![h] = 0] /\ open' = [open EXCEPT ![h] = TRUE]
       ELSE failures' = [failures EXCEPT ![h] = @ + 1] /\ UNCHANGED open

\* No request can be built from the webhook's URL: no retry, and the breaker
\* is left alone.
DeliverErrors(j) ==
    /\ jobPc[j] = "delivering"
    /\ jobPc' = [jobPc EXCEPT ![j] = "error"]
    /\ UNCHANGED <<subscribed, events, evPc, attempt, breakerVars, stopPc, panicked>>

DeliverSucceeds(j) ==
    /\ jobPc[j] = "delivering"
    /\ recordSuccess(j[2])
    /\ jobPc' = [jobPc EXCEPT ![j] = "success"]
    /\ UNCHANGED <<subscribed, events, evPc, attempt, stopPc, panicked>>

DeliverFails(j) ==
    /\ jobPc[j] = "delivering"
    /\ recordFailure(j[2])
    /\ jobPc' = [jobPc EXCEPT ![j] = IF attempt[j] >= MaxAttempts THEN "exhausted" ELSE "backoff"]
    /\ UNCHANGED <<subscribed, events, evPc, attempt, stopPc, panicked>>

BreakerResets(h) ==
    /\ open[h]
    /\ open' = [open EXCEPT ![h] = FALSE]
    /\ UNCHANGED <<subscribed, events, evPc, jobPc, attempt, failures, streak, stopPc, panicked>>

-----------------------------------------------------------------------------
(* Stop.                                                                   *)

Stop ==
    /\ stopPc = "running"
    /\ stopPc' = "stopped"
    /\ UNCHANGED <<subscribed, events, evPc, jobPc, attempt, breakerVars, panicked>>

\* The fan-out goroutine has drained the event buffer and returned.
CloseQueue ==
    /\ stopPc = "stopped" /\ events = <<>> /\ LoopIdle
    /\ stopPc' = "closed"
    /\ UNCHANGED <<subscribed, events, evPc, jobPc, attempt, breakerVars, panicked>>

\* The workers have drained the job queue and returned.
WorkersDone ==
    /\ stopPc = "closed" /\ JobsAt("queued") \cup JobsAt("delivering") = {}
    /\ stopPc' = "done"
    /\ UNCHANGED <<subscribed, events, evPc, jobPc, attempt, breakerVars, panicked>>

\* A panic ends the process.
Next ==
    /\ panicked = None
    /\ \/ \E h \in Hooks : CreateWebhook(h) \/ DeleteWebhook(h) \/ BreakerResets(h)
       \/ \E e \in Events : Submit(e)
       \/ \E j \in Jobs : \/ TestStopped(j) \/ Send(j) \/ RetryFires(j)
                          \/ Deliver(j) \/ DeliverErrors(j) \/ DeliverSucceeds(j) \/ DeliverFails(j)
       \/ Fanout \/ Stop \/ CloseQueue \/ WorkersDone

Spec == Init /\ [][Next]_vars

Step(A) == panicked = None /\ A

\* The goroutines run, timers fire, and every HTTP attempt ends by its timeout.
FairSpec ==
    /\ Spec
    /\ WF_vars(Step(Fanout)) /\ WF_vars(Step(CloseQueue)) /\ WF_vars(Step(WorkersDone))
    /\ \A j \in Jobs : /\ WF_vars(Step(TestStopped(j))) /\ WF_vars(Step(Send(j)))
                       /\ WF_vars(Step(RetryFires(j))) /\ WF_vars(Step(Deliver(j)))
                       /\ WF_vars(Step(DeliverErrors(j) \/ DeliverSucceeds(j) \/ DeliverFails(j)))

-----------------------------------------------------------------------------
(* Properties.                                                             *)

TypeOK ==
    /\ subscribed \subseteq Hooks
    /\ events \in Seq(Events)
    /\ evPc \in [Events -> {"new", "buffered", "dropped", "lookup_error", "fanned_out"}]
    /\ jobPc \in [Jobs -> JobSteps] /\ attempt \in [Jobs -> 0 .. MaxAttempts]
    /\ failures \in [Hooks -> 0 .. BreakerTrip - 1] /\ open \in [Hooks -> BOOLEAN]
    /\ streak \in [Hooks -> Nat]
    /\ stopPc \in {"running", "stopped", "closed", "done"}
    /\ panicked \in Jobs \cup {None}

(* A breaker opens on evidence: while it is open its endpoint has failed   *)
(* at least BreakerTrip times since it last answered, concurrent workers   *)
(* and late answers included (recordSuccess, recordFailure).               *)
BreakerEvidence == \A h \in Hooks : open[h] => streak[h] >= BreakerTrip

(* Fan-out never sends on the closed queue, because Stop waits for it      *)
(* before closing: only a retry timer can.                                 *)
FanoutNeverPanics == panicked # None => attempt[panicked] > 1

(* Once Stop was called no job begins a further attempt unless it passed   *)
(* the flag before: nothing is admitted after Stop (enqueue).              *)
NothingAdmittedAfterStop ==
    [][stopPc # "running" => JobsAt("admitted")' \subseteq JobsAt("admitted")]_vars

(* Every buffered event and every job comes to an outcome, and Stop        *)
(* returns, unless the process panics.                                     *)
EverythingSettles ==
    []<>(\/ panicked # None
         \/ /\ \A e \in Events : evPc[e] # "buffered"
            /\ \A j \in Jobs : jobPc[j] \in Outcomes \cup {"none"}
            /\ stopPc \in {"running", "done"})

(* Late retry timers drop instead of panicking (the comment on Stop).      *)
NeverPanics == panicked = None

(* All pending fan-out completes before the job queue closes (the comment  *)
(* on Stop): Stop drops no job of an event it found in the buffer.         *)
FanoutCompletes == \A j \in Jobs : jobPc[j] = "dropped_stopped" => attempt[j] > 1
=============================================================================
