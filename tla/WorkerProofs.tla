---------------------------- MODULE WorkerProofs ----------------------------
(***************************************************************************)
(* Proofs about the background workers, for any number of events,          *)
(* webhooks, connectors and workers and any size of queues and batches:    *)
(* WebhookDispatcher; SafeHttp, whose client makes the deliveries; and     *)
(* SiemExporter, where reaping an idle pipe strands no accepted event, one *)
(* pipe works for the tenant at a time, Stop signals every pipe that it    *)
(* waits for, and a settled event is accounted for at each connector.      *)
(***************************************************************************)
EXTENDS WebhookDispatcher, SafeHttp, SiemExporter, TLAPS

-----------------------------------------------------------------------------
(* The deliveries of webhooks.                                             *)

\* A job has an attempt number once it is fanned out, and one to spare while
\* it backs off.
AttemptInv ==
    \A j \in Jobs : /\ jobPc[j] # "none" => attempt[j] >= 1
                    /\ jobPc[j] = "backoff" => attempt[j] < MaxAttempts

\* The failures a breaker counts are failures since the last success.
StreakInv ==
    \A h \in Hooks : failures[h] <= streak[h] /\ (open[h] => streak[h] >= BreakerTrip)

\* A closed job queue means that fan-out is over.
ClosedInv ==
    stopPc \in {"closed", "done"} =>
        /\ events = <<>>
        /\ \A j \in Jobs : jobPc[j] \in {"enqueue", "admitted"} => attempt[j] > 1

IndInv == TypeOK /\ AttemptInv /\ StreakInv /\ ClosedInv /\ FanoutNeverPanics

\* A dispatcher that has just started.
LEMMA InitInv == Init => IndInv
<1> SUFFICES ASSUME Init PROVE IndInv
  BY Zenon
<1> USE DispatcherAssumption DEF Init
<1>1. TypeOK
  <2>1. events \in Seq(Events)
    OBVIOUS
  <2>2. jobPc \in [Jobs -> JobSteps] /\ attempt \in [Jobs -> 0 .. MaxAttempts]
    BY DEF JobSteps
  <2>3. failures \in [Hooks -> 0 .. BreakerTrip - 1] /\ streak \in [Hooks -> Nat]
    OBVIOUS
  <2>4. QED
    BY <2>1, <2>2, <2>3, Zenon DEF TypeOK
<1>2. AttemptInv /\ StreakInv /\ ClosedInv /\ FanoutNeverPanics
  BY DEF AttemptInv, StreakInv, ClosedInv, FanoutNeverPanics
<1>3. QED
  BY <1>1, <1>2, Zenon DEF IndInv

\* What the breaker updates do to the breaker's part of the invariant.
LEMMA BreakerStep ==
    ASSUME TypeOK, StreakInv, NEW h \in Hooks, recordSuccess(h) \/ recordFailure(h)
    PROVE  /\ failures' \in [Hooks -> 0 .. BreakerTrip - 1] /\ open' \in [Hooks -> BOOLEAN]
           /\ streak' \in [Hooks -> Nat] /\ StreakInv'
<1> USE DispatcherAssumption DEF TypeOK
<1>1. CASE recordSuccess(h)
  BY <1>1 DEF recordSuccess, StreakInv
<1>2. CASE recordFailure(h)
  <2>1. /\ failures[h] \in 0 .. BreakerTrip - 1 /\ streak[h] \in Nat
        /\ failures[h] <= streak[h]
    BY Zenon DEF StreakInv
  <2>2. streak' = [streak EXCEPT ![h] = streak[h] + 1] /\ streak' \in [Hooks -> Nat]
    BY <1>2, <2>1 DEF recordFailure
  <2>3. \/ /\ failures' = [failures EXCEPT ![h] = 0] /\ open' = [open EXCEPT ![h] = TRUE]
           /\ failures[h] + 1 >= BreakerTrip
        \/ /\ failures' = [failures EXCEPT ![h] = failures[h] + 1] /\ open' = open
           /\ ~(failures[h] + 1 >= BreakerTrip)
    BY <1>2, Zenon DEF recordFailure
  <2>4. failures' \in [Hooks -> 0 .. BreakerTrip - 1]
    <3>1. PICK x \in 0 .. BreakerTrip - 1 : failures' = [failures EXCEPT ![h] = x]
      <4>1. 0 \in 0 .. BreakerTrip - 1
        OBVIOUS
      <4>2. ~(failures[h] + 1 >= BreakerTrip) => failures[h] + 1 \in 0 .. BreakerTrip - 1
        BY <2>1
      <4>3. QED
        BY <2>3, <4>1, <4>2, Zenon
    <3>2. QED
      BY <3>1, Zenon
  <2>5. open' \in [Hooks -> BOOLEAN]
    BY <2>3, Zenon
  <2>6. \A g \in Hooks \ {h} : failures'[g] = failures[g] /\ open'[g] = open[g] /\ streak'[g] = streak[g]
    BY <2>2, <2>3, Zenon
  <2>7. failures'[h] <= streak'[h] /\ streak'[h] = streak[h] + 1
    BY <2>1, <2>2, <2>3
  <2>8. open'[h] => streak'[h] >= BreakerTrip
    <3>1. CASE failures[h] + 1 >= BreakerTrip
      BY <2>1, <2>7, <3>1
    <3>2. CASE ~(failures[h] + 1 >= BreakerTrip)
      <4>1. open[h] => streak[h] >= BreakerTrip
        BY Zenon DEF StreakInv
      <4>2. open' = open
        BY <2>3, <3>2, Zenon
      <4>3. QED
        BY <2>1, <2>7, <4>1, <4>2
    <3>3. QED
      BY <3>1, <3>2, Zenon
  <2>9. StreakInv'
    BY <2>6, <2>7, <2>8, Zenon DEF StreakInv
  <2>10. QED
    BY <2>2, <2>4, <2>5, <2>9, Zenon
<1>3. QED
  BY <1>1, <1>2, Zenon

\* Steps that move one job and keep its attempt number.
LEMMA MoveStep ==
    ASSUME IndInv, NEW j \in Jobs, NEW s \in JobSteps, s # "none", s # "enqueue",
           jobPc' = [jobPc EXCEPT ![j] = s], jobPc[j] # "none",
           s = "backoff" => attempt[j] < MaxAttempts,
           s = "admitted" => stopPc = "running",
           UNCHANGED <<subscribed, events, evPc, attempt, stopPc, panicked>>,
           UNCHANGED breakerVars \/ recordSuccess(j[2]) \/ recordFailure(j[2])
    PROVE  IndInv'
<1> USE DEF IndInv
<1>1. j[2] \in Hooks
  BY Zenon DEF Jobs
<1>2. /\ failures' \in [Hooks -> 0 .. BreakerTrip - 1] /\ open' \in [Hooks -> BOOLEAN]
      /\ streak' \in [Hooks -> Nat] /\ StreakInv'
  <2>1. CASE UNCHANGED breakerVars
    BY <2>1, Zenon DEF breakerVars, TypeOK, StreakInv
  <2>2. CASE recordSuccess(j[2]) \/ recordFailure(j[2])
    BY <1>1, <2>2, BreakerStep, Zenon
  <2>3. QED
    BY <2>1, <2>2, Zenon
<1>3. TypeOK'
  <2>1. jobPc' \in [Jobs -> JobSteps]
    BY Zenon DEF TypeOK
  <2>2. QED
    BY <1>2, <2>1, Zenon DEF TypeOK
<1>4. AttemptInv'
  BY Zenon DEF AttemptInv, TypeOK
<1>5. ClosedInv'
  BY Zenon DEF ClosedInv, TypeOK
<1>6. FanoutNeverPanics'
  BY Zenon DEF FanoutNeverPanics
<1>7. QED
  BY <1>2, <1>3, <1>4, <1>5, <1>6, Zenon

\* Every step, by the conjuncts it can disturb.
LEMMA NextInv == IndInv /\ [Next]_vars => IndInv'
<1> SUFFICES ASSUME IndInv, [Next]_vars PROVE IndInv'
  BY Zenon
<1> USE DispatcherAssumption
<1>1. ASSUME NEW h \in Hooks, CreateWebhook(h) \/ DeleteWebhook(h) PROVE IndInv'
  BY <1>1, Zenon DEF CreateWebhook, DeleteWebhook, breakerVars, IndInv, TypeOK, AttemptInv, StreakInv,
              ClosedInv, FanoutNeverPanics
<1>2. ASSUME NEW h \in Hooks, BreakerResets(h) PROVE IndInv'
  BY <1>2, Zenon DEF BreakerResets, IndInv, TypeOK, AttemptInv, StreakInv, ClosedInv, FanoutNeverPanics
<1>3. ASSUME NEW e \in Events, Submit(e) PROVE IndInv'
  <2>1. events' \in Seq(Events) /\ stopPc = "running"
    <3>1. events \in Seq(Events)
      BY Zenon DEF IndInv, TypeOK
    <3>2. events' = Append(events, e) \/ events' = events
      BY <1>3, Zenon DEF Submit
    <3>3. QED
      BY <1>3, <3>1, <3>2 DEF Submit
  <2>2. evPc' \in [Events -> {"new", "buffered", "dropped", "lookup_error", "fanned_out"}]
    BY <1>3, Zenon DEF Submit, IndInv, TypeOK
  <2>3. UNCHANGED <<subscribed, jobPc, attempt, breakerVars, stopPc, panicked>>
    BY <1>3, Zenon DEF Submit
  <2>4. QED
    BY <2>1, <2>2, <2>3, Zenon DEF breakerVars, IndInv, TypeOK, AttemptInv, StreakInv, ClosedInv,
                            FanoutNeverPanics
<1>4. ASSUME NEW j \in Jobs, TestStopped(j) PROVE IndInv'
  <2>1. PICK s \in {"admitted", "dropped_stopped"} :
           /\ jobPc' = [jobPc EXCEPT ![j] = s]
           /\ s = "admitted" => stopPc = "running"
    BY <1>4, Zenon DEF TestStopped
  <2>2. QED
    BY <1>4, <2>1, MoveStep, Zenon DEF TestStopped, JobSteps, Outcomes
<1>5. ASSUME NEW j \in Jobs, Send(j) PROVE IndInv'
  <2>1. CASE stopPc \in {"closed", "done"}
    <3>1. panicked' = j /\ attempt[j] > 1
      BY <1>5, <2>1, Zenon DEF Send, IndInv, ClosedInv
    <3>2. QED
      BY <1>5, <2>1, <3>1, Zenon DEF Send, breakerVars, IndInv, TypeOK, AttemptInv, StreakInv, ClosedInv,
                              FanoutNeverPanics
  <2>2. CASE stopPc \notin {"closed", "done"}
    <3>1. PICK s \in {"queued", "dropped_full"} : jobPc' = [jobPc EXCEPT ![j] = s]
      BY <1>5, <2>2, Zenon DEF Send
    <3>2. QED
      BY <1>5, <2>2, <3>1, MoveStep, Zenon DEF Send, JobSteps, Outcomes
  <2>3. QED
    BY <2>1, <2>2, Zenon
<1>6. ASSUME NEW j \in Jobs, RetryFires(j) PROVE IndInv'
  <2>1. attempt[j] >= 1 /\ attempt[j] < MaxAttempts /\ attempt[j] \in Nat
    BY <1>6 DEF RetryFires, IndInv, AttemptInv, TypeOK
  <2>2. TypeOK'
    BY <1>6, <2>1 DEF RetryFires, IndInv, TypeOK, JobSteps, breakerVars
  <2>3. AttemptInv' /\ ClosedInv'
    BY <1>6, <2>1 DEF RetryFires, IndInv, TypeOK, AttemptInv, ClosedInv
  <2>4. StreakInv' /\ FanoutNeverPanics'
    BY <1>6, <2>1 DEF RetryFires, IndInv, TypeOK, StreakInv, FanoutNeverPanics, breakerVars
  <2>5. QED
    BY <2>2, <2>3, <2>4, Zenon DEF IndInv
<1>7. ASSUME NEW j \in Jobs, Deliver(j) PROVE IndInv'
  <2>1. PICK s \in {"circuit_open", "delivering"} : jobPc' = [jobPc EXCEPT ![j] = s]
    BY <1>7, Zenon DEF Deliver
  <2>2. QED
    BY <1>7, <2>1, MoveStep, Zenon DEF Deliver, JobSteps, Outcomes
<1>8. ASSUME NEW j \in Jobs, DeliverSucceeds(j) PROVE IndInv'
  BY <1>8, MoveStep, Zenon DEF DeliverSucceeds, JobSteps, Outcomes
<1>8e. ASSUME NEW j \in Jobs, DeliverErrors(j) PROVE IndInv'
  BY <1>8e, MoveStep, Zenon DEF DeliverErrors, JobSteps, Outcomes
<1>9. ASSUME NEW j \in Jobs, DeliverFails(j) PROVE IndInv'
  <2>1. PICK s \in {"exhausted", "backoff"} :
           /\ jobPc' = [jobPc EXCEPT ![j] = s]
           /\ s = "backoff" => attempt[j] < MaxAttempts
    <3>1. attempt[j] \in Nat
      BY DEF IndInv, TypeOK
    <3>2. CASE attempt[j] >= MaxAttempts
      <4>1. jobPc' = [jobPc EXCEPT ![j] = "exhausted"]
        BY <1>9, <3>2, Zenon DEF DeliverFails
      <4>2. QED
        BY <4>1, Zenon
    <3>3. CASE ~(attempt[j] >= MaxAttempts)
      <4>1. jobPc' = [jobPc EXCEPT ![j] = "backoff"]
        BY <1>9, <3>3, Zenon DEF DeliverFails
      <4>2. attempt[j] < MaxAttempts
        BY <3>1, <3>3
      <4>3. QED
        BY <4>1, <4>2, Zenon
    <3>4. QED
      BY <3>2, <3>3, Zenon
  <2>2. QED
    BY <1>9, <2>1, MoveStep, Zenon DEF DeliverFails, JobSteps, Outcomes
<1>10. CASE Fanout
  <2> DEFINE e == Head(events)
  <2>1. e \in Events /\ events' \in Seq(Events) /\ stopPc \notin {"closed", "done"}
    BY <1>10 DEF Fanout, IndInv, TypeOK, ClosedInv
  <2>2. evPc' \in [Events -> {"new", "buffered", "dropped", "lookup_error", "fanned_out"}]
    BY <1>10, <2>1, Zenon DEF Fanout, IndInv, TypeOK
  <2>3. jobPc' \in [Jobs -> JobSteps] /\ attempt' \in [Jobs -> 0 .. MaxAttempts]
    <3>1. jobPc \in [Jobs -> JobSteps] /\ attempt \in [Jobs -> 0 .. MaxAttempts]
      BY Zenon DEF IndInv, TypeOK
    <3>2. "enqueue" \in JobSteps
      BY Zenon DEF JobSteps
    <3>3. 1 \in 0 .. MaxAttempts
      OBVIOUS
    <3>4. CASE UNCHANGED <<jobPc, attempt>>
      BY <3>1, <3>4, Zenon
    <3>5. CASE ~UNCHANGED <<jobPc, attempt>>
      <4>1. /\ jobPc' = [j \in Jobs |-> IF j \in {e} \X subscribed THEN "enqueue" ELSE jobPc[j]]
            /\ attempt' = [j \in Jobs |-> IF j \in {e} \X subscribed THEN 1 ELSE attempt[j]]
        BY <1>10, <3>5, Zenon DEF Fanout
      <4>2. QED
        BY <3>1, <3>2, <3>3, <4>1, Zenon
    <3>6. QED
      BY <3>4, <3>5, Zenon
  <2>4. AttemptInv'
    BY <1>10 DEF Fanout, IndInv, AttemptInv, TypeOK
  <2>5. TypeOK' /\ StreakInv'
    BY <1>10, <2>1, <2>2, <2>3, Zenon DEF Fanout, IndInv, TypeOK, StreakInv, breakerVars
  <2>6. panicked' = None
    BY <1>10 DEF Fanout, Next, vars
  <2>7. ClosedInv' /\ FanoutNeverPanics'
    BY <1>10, <2>1, <2>6, Zenon DEF Fanout, ClosedInv, FanoutNeverPanics
  <2>8. QED
    BY <2>4, <2>5, <2>7, Zenon DEF IndInv
<1>11. CASE Stop \/ CloseQueue \/ WorkersDone
  BY <1>11, Zenon DEF Stop, CloseQueue, WorkersDone, LoopIdle, breakerVars, IndInv, TypeOK, AttemptInv,
               StreakInv, ClosedInv, FanoutNeverPanics
<1>12. CASE UNCHANGED vars
  BY <1>12, Zenon DEF vars, breakerVars, IndInv, TypeOK, AttemptInv, StreakInv, ClosedInv, FanoutNeverPanics
<1>13. QED
  BY <1>1, <1>2, <1>3, <1>4, <1>5, <1>6, <1>7, <1>8, <1>8e, <1>9, <1>10, <1>11, <1>12, Zenon DEF Next

(* The inductive invariant holds in every reachable state.                 *)
THEOREM Invariance == Spec => []IndInv
BY InitInv, NextInv, PTL DEF Spec

(* Every state is well typed: no job exceeds its attempts, and a breaker   *)
(* never counts up to its trip threshold without opening.                  *)
THEOREM TypeCorrect == Spec => []TypeOK
<1>1. IndInv => TypeOK
  BY Zenon DEF IndInv
<1>2. QED
  BY <1>1, Invariance, PTL

(* An open breaker's endpoint failed BreakerTrip times since it last       *)
(* answered.                                                               *)
THEOREM BreakerSafety == Spec => []BreakerEvidence
<1>1. IndInv => BreakerEvidence
  BY Zenon DEF IndInv, StreakInv, BreakerEvidence
<1>2. QED
  BY <1>1, Invariance, PTL

(* Only a retry timer can send on the closed job queue; fan-out cannot.    *)
THEOREM FanoutSafety == Spec => []FanoutNeverPanics
<1>1. IndInv => FanoutNeverPanics
  BY Zenon DEF IndInv
<1>2. QED
  BY <1>1, Invariance, PTL

(* Once Stop has set the flag, no job that has not passed enqueue's test of *)
(* it ever does: retry timers that fire later are dropped.                 *)
THEOREM AdmissionSafety == Spec => NothingAdmittedAfterStop
<1> DEFINE Closing == stopPc # "running" => JobsAt("admitted")' \subseteq JobsAt("admitted")
<1>1. IndInv /\ [Next]_vars => Closing
  <2> SUFFICES ASSUME IndInv, [Next]_vars, stopPc # "running", NEW j \in Jobs, jobPc'[j] = "admitted"
               PROVE  jobPc[j] = "admitted"
    BY Zenon DEF JobsAt
  <2>1. jobPc \in [Jobs -> JobSteps]
    BY Zenon DEF IndInv, TypeOK
  <2>2. CASE jobPc' = jobPc
    BY <2>2, Zenon
  <2>3. CASE Fanout
    BY <2>1, <2>3, Zenon DEF Fanout
  <2>4. ASSUME NEW k \in Jobs,
               \/ TestStopped(k) \/ Send(k) \/ RetryFires(k) \/ Deliver(k)
               \/ DeliverErrors(k) \/ DeliverSucceeds(k) \/ DeliverFails(k)
        PROVE  jobPc[j] = "admitted"
    <3>1. \/ jobPc' = jobPc
          \/ \E step \in JobSteps : step # "admitted" /\ jobPc' = [jobPc EXCEPT ![k] = step]
      BY <2>4, Zenon DEF TestStopped, Send, RetryFires, Deliver, DeliverErrors, DeliverSucceeds, DeliverFails,
                         JobSteps, Outcomes
    <3>2. QED
      BY <2>1, <3>1, Zenon
  <2>5. QED
    BY <2>2, <2>3, <2>4, Zenon DEF Next, CreateWebhook, DeleteWebhook, BreakerResets, Submit, Stop, CloseQueue,
                                   WorkersDone, vars
<1>2. QED
  BY Invariance, <1>1, PTL DEF Spec, NothingAdmittedAfterStop

-----------------------------------------------------------------------------
(* The connections of the HTTP client that deliveries are made with.       *)

Named == Hosts \cup {NoHost} \cup UNION {Proxies[h] : h \in Hosts}

RequestSet == [step : {"idle", "dial", "try", "open", "done"}, host : Named, addr : Named, ips : SUBSET Addresses]

\* Only proxies are recorded; what is dialled is one of them or a host; and
\* what is tried has been validated.
HttpInv ==
    /\ req \in [Requests -> RequestSet]
    /\ \A u \in allow : \E h \in Hosts : u \in Proxies[h] \ {NoHost}
    /\ \A q \in Requests : /\ req[q].step = "dial" => req[q].addr \in allow \cup Hosts
                           /\ req[q].step = "try" => \A ip \in req[q].ips : IsPublicIP(ip)
    /\ OnlyPublicDialled

\* The tests of IsPublicIP cover every range it documents.
LEMMA PublicNotReserved == ASSUME NEW ip \in Addresses, IsPublicIP(ip) PROVE ~InReserved(ip)
<1> DEFINE a == ip[1]
           b == ip[2]
           c == ip[3]
<1>1. a \in 0..255 /\ b \in 0..255 /\ c \in 0..255
  BY DEF Addresses
<1>2. /\ a # 127 /\ ~(a = 169 /\ b = 254) /\ a \notin 224..239 /\ a # 10 /\ ~(a = 172 /\ b \in 16..31)
      /\ ~(a = 192 /\ b = 168) /\ ~(a = 100 /\ b >= 64 /\ b < 128) /\ ~(a = 192 /\ b = 0 /\ c \in {0, 2})
      /\ ~(a = 198 /\ b = 51 /\ c = 100) /\ ~(a = 203 /\ b = 0 /\ c = 113) /\ ~(a = 198 /\ b \in {18, 19})
      /\ ~(a = 192 /\ b = 88 /\ c = 99) /\ ip # <<0, 0, 0, 0>>
  BY Zenon DEF IsPublicIP, IsLoopback, IsUnspecified, IsLinkLocalUnicast, IsMulticast, IsPrivate
<1>3. Number(ip) = a * 65536 + b * 256 + c
  BY DEF Number
<1>4. ASSUME NEW r \in Reserved PROVE ~(Number(r[1]) <= Number(ip) /\ Number(ip) <= Number(r[2]))
  <2> HIDE DEF a, b, c
  <2>1. \/ Number(r[1]) = 8323072 /\ Number(r[2]) = 8388607
        \/ Number(r[1]) = 11140608 /\ Number(r[2]) = 11140863
        \/ Number(r[1]) = 14680064 /\ Number(r[2]) = 15728639
        \/ Number(r[1]) = 655360 /\ Number(r[2]) = 720895
        \/ Number(r[1]) = 11276288 /\ Number(r[2]) = 11280383
        \/ Number(r[1]) = 12625920 /\ Number(r[2]) = 12626175
        \/ Number(r[1]) = 6569984 /\ Number(r[2]) = 6586367
        \/ Number(r[1]) = 12582912 /\ Number(r[2]) = 12582912
        \/ Number(r[1]) = 12582914 /\ Number(r[2]) = 12582914
        \/ Number(r[1]) = 12989284 /\ Number(r[2]) = 12989284
        \/ Number(r[1]) = 13303921 /\ Number(r[2]) = 13303921
        \/ Number(r[1]) = 12980736 /\ Number(r[2]) = 12981247
        \/ Number(r[1]) = 12605539 /\ Number(r[2]) = 12605539
    BY DEF Reserved, Number
  <2>2. QED
    BY ONLY <1>1, <1>2, <1>3, <2>1
<1>5. QED
  BY <1>2, <1>4, Zenon DEF InReserved

\* A connection once made stays as it was made.
LEMMA ConnectionKept ==
    ASSUME OnlyPublicDialled, NEW q, NEW ip, Connects(q, ip),
           InReserved(ip) => \E h \in Hosts : req[q].addr \in Proxies[h] \ {NoHost}
    PROVE  OnlyPublicDialled'
BY DEF OnlyPublicDialled, Connects

\* Every step of a request keeps it so, whatever a lookup answers.
LEMMA HttpStep == ASSUME HttpConstantsOK, HttpInv, [HttpNext]_httpVars PROVE HttpInv'
<1> USE DEF HttpInv
<1>1. CASE UNCHANGED httpVars
  BY <1>1, Zenon DEF httpVars, OnlyPublicDialled
<1>2. ASSUME NEW q \in Requests, NEW h \in Hosts, Proxy(q, h) PROVE HttpInv'
  <2>1. PICK u \in Proxies[h] :
          /\ allow' = IF u = NoHost THEN allow ELSE allow \cup {u}
          /\ req' = [req EXCEPT ![q] = [step |-> "dial", host |-> h, addr |-> IF u = NoHost THEN h ELSE u, ips |-> {}]]
    BY <1>2, Zenon DEF Proxy
  <2>2. h \in Named /\ u \in Named
    BY Zenon DEF Named
  <2>3. req' \in [Requests -> RequestSet]
    BY <2>1, <2>2 DEF RequestSet
  <2>4. \A v \in allow' : \E g \in Hosts : v \in Proxies[g] \ {NoHost}
    BY <2>1
  <2>5. \A p \in Requests : /\ req'[p].step = "dial" => req'[p].addr \in allow' \cup Hosts
                            /\ req'[p].step = "try" => \A ip \in req'[p].ips : IsPublicIP(ip)
    BY <2>1
  <2>6. OnlyPublicDialled'
    BY <1>2, Zenon DEF Proxy, OnlyPublicDialled
  <2>7. QED
    BY <2>3, <2>4, <2>5, <2>6, Zenon
<1>3. ASSUME NEW q \in Requests, DialProxy(q) PROVE HttpInv'
  <2>1. PICK ip : Connects(q, ip)
    BY <1>3, Zenon DEF DialProxy
  <2>2. /\ req[q].addr \in allow /\ allow' = allow
        /\ req' = [req EXCEPT ![q] = [req[q] EXCEPT !.step = "open"]]
    BY <1>3 DEF DialProxy
  <2>3. OnlyPublicDialled'
    BY <2>1, <2>2, ConnectionKept, Zenon
  <2>4. req' \in [Requests -> RequestSet]
    BY <2>2 DEF RequestSet
  <2>5. \A p \in Requests : /\ req'[p].step = "dial" => req'[p].addr \in allow \cup Hosts
                            /\ req'[p].step = "try" => \A i \in req'[p].ips : IsPublicIP(i)
    BY <2>2 DEF RequestSet
  <2>6. QED
    BY <2>2, <2>3, <2>4, <2>5, Zenon
<1>4. ASSUME NEW q \in Requests, Lookup(q) PROVE HttpInv'
  <2>1. PICK ips \in Answers[req[q].addr] :
          req' = IF \A ip \in ips : IsPublicIP(ip) THEN [req EXCEPT ![q].step = "try", ![q].ips = ips]
                 ELSE [req EXCEPT ![q].step = "done"]
    BY <1>4, Zenon DEF Lookup
  <2>2. req[q].addr \in Hosts /\ UNCHANGED <<allow, conns>>
    BY <1>4 DEF Lookup
  <2>3. ips \in SUBSET Addresses
    BY <2>2, Zenon DEF HttpConstantsOK
  <2>4. \/ (\A ip \in ips : IsPublicIP(ip)) /\ req' = [req EXCEPT ![q] = [req[q] EXCEPT !.step = "try", !.ips = ips]]
        \/ req' = [req EXCEPT ![q] = [req[q] EXCEPT !.step = "done"]]
    BY <2>1
  <2>5. req' \in [Requests -> RequestSet]
    <3>1. [req[q] EXCEPT !.step = "try", !.ips = ips] \in RequestSet /\ [req[q] EXCEPT !.step = "done"] \in RequestSet
      BY <2>3 DEF RequestSet
    <3>2. QED
      BY <2>4, <3>1, Zenon
  <2>6. \A p \in Requests : /\ req'[p].step = "dial" => req'[p].addr \in allow \cup Hosts
                            /\ req'[p].step = "try" => \A ip \in req'[p].ips : IsPublicIP(ip)
    BY <2>4 DEF RequestSet
  <2>7. QED
    BY <2>2, <2>5, <2>6, Zenon DEF OnlyPublicDialled
<1>5. ASSUME NEW q \in Requests, guardedDial(q) PROVE HttpInv'
  <2>1. req[q].step = "try" /\ allow' = allow /\ req[q] \in RequestSet
    BY <1>5, Zenon DEF guardedDial
  <2>2. \A ip \in req[q].ips : ~InReserved(ip)
    BY <2>1, PublicNotReserved DEF RequestSet
  <2>3. OnlyPublicDialled'
    BY <1>5, <2>2, ConnectionKept, Zenon DEF guardedDial, OnlyPublicDialled
  <2>4. \/ \E s \in {"open", "done"} : req' = [req EXCEPT ![q] = [req[q] EXCEPT !.step = s]]
        \/ \E ip \in req[q].ips : req' = [req EXCEPT ![q] = [req[q] EXCEPT !.ips = req[q].ips \ {ip}]]
    BY <1>5 DEF guardedDial, Done
  <2>5. req' \in [Requests -> RequestSet]
    BY <2>4 DEF RequestSet
  <2>6. \A p \in Requests : /\ req'[p].step = "dial" => req'[p].addr \in allow \cup Hosts
                            /\ req'[p].step = "try" => \A ip \in req'[p].ips : IsPublicIP(ip)
    BY <2>1, <2>4 DEF RequestSet
  <2>7. QED
    BY <2>1, <2>3, <2>5, <2>6, Zenon
<1>6. ASSUME NEW q \in Requests, Response(q) PROVE HttpInv'
  <2>1. req' = [req EXCEPT ![q] = [req[q] EXCEPT !.step = "done"]] /\ UNCHANGED <<allow, conns>>
    BY <1>6 DEF Response, Done
  <2>2. req' \in [Requests -> RequestSet]
    BY <2>1 DEF RequestSet
  <2>3. \A p \in Requests : /\ req'[p].step = "dial" => req'[p].addr \in allow \cup Hosts
                            /\ req'[p].step = "try" => \A ip \in req'[p].ips : IsPublicIP(ip)
    BY <2>1 DEF RequestSet
  <2>4. QED
    BY <2>1, <2>2, <2>3, Zenon DEF OnlyPublicDialled
<1>7. QED
  BY <1>1, <1>2, <1>3, <1>4, <1>5, <1>6, Zenon DEF HttpNext

(* Whatever hosts a tenant configures, whatever addresses their names      *)
(* resolve to and however the answers change between two lookups, the      *)
(* client connects outside every reserved range, or to a proxy that the    *)
(* operator named (guardedDialContext, IsPublicIP).                        *)
THEOREM DialSafety == ASSUME HttpConstantsOK PROVE HttpSpec => []OnlyPublicDialled
<1>1. HttpInit => HttpInv
  <2> SUFFICES ASSUME HttpInit PROVE HttpInv
    BY Zenon
  <2>1. Idle \in RequestSet
    BY DEF Idle, RequestSet, Named
  <2>2. req \in [Requests -> RequestSet]
    BY <2>1 DEF HttpInit
  <2>3. \A q \in Requests : req[q].step = "idle"
    BY DEF HttpInit, Idle
  <2>4. QED
    BY <2>2, <2>3 DEF HttpInit, HttpInv, OnlyPublicDialled
<1>2. HttpInv /\ [HttpNext]_httpVars => HttpInv'
  BY HttpStep, Zenon
<1>3. HttpInv => OnlyPublicDialled
  BY Zenon DEF HttpInv
<1>4. QED
  BY <1>1, <1>2, <1>3, PTL DEF HttpSpec

-----------------------------------------------------------------------------
(* The export to a SIEM.                                                   *)

\* What the life of a pipe depends on.
coreVars == <<registered, sStopPc, snapshot, sEvPc, held, ch, closed, pc, batch, quit>>

(***************************************************************************)
(* The inductive invariant.  That a live pipe is the registered one rests  *)
(* on the pipe a stale Submit removes being closed for good, and that only *)
(* Stop strands events on a pipe being over only after it was closed while *)
(* empty, or after it was told to quit.                                    *)
(***************************************************************************)
Shape ==
    /\ registered \in Pipes \cup {Nil}
    /\ sEvPc \in [SiemEvents -> {"new", "lookup", "enqueue", "stale", "accepted", "shed", "refused", "settled"}]
    /\ held \in [SiemEvents -> Pipes \cup {Nil}]
    /\ pc \in [Pipes -> {"none", "select", "flush", "batch", "drain", "last_flush", "last_batch",
                         "reaped", "gone"}]
    /\ ch \in [Pipes -> Seq(SiemEvents)] /\ batch \in [Pipes -> Seq(SiemEvents)]
    /\ closed \in [Pipes -> BOOLEAN] /\ quit \in [Pipes -> BOOLEAN]

HeldIsStarted ==
    \A e \in SiemEvents : sEvPc[e] \in {"enqueue", "stale"} => held[e] \in Pipes /\ pc[held[e]] # "none"
StaleIsClosed == \A e \in SiemEvents : sEvPc[e] = "stale" => closed[held[e]]
ClosedIsOver == \A p \in Pipes : closed[p] => pc[p] \in {"reaped", "gone"} /\ ch[p] = <<>>
OverHasCause ==
    \A p \in Pipes : /\ pc[p] = "reaped" => closed[p]
                     /\ pc[p] = "gone" => closed[p] \/ quit[p]
                     /\ pc[p] \in {"drain", "last_flush", "last_batch"} => quit[p]
UnstartedIsEmpty == \A p \in Pipes : pc[p] = "none" => ch[p] = <<>>
QuitAfterStop == \A p \in Pipes : quit[p] => sStopPc \in {"wait", "done"}
BatchIsLive == \A p \in Pipes : batch[p] # <<>> => Live(p)
LiveInMap == /\ \A p \in Pipes : Live(p) => registered = p
             /\ registered \in Pipes => pc[registered] # "none"
Signalled ==
    \A p \in Pipes : Live(p) => /\ sStopPc = "signal" => snapshot = p
                                /\ sStopPc \in {"wait", "done"} => quit[p]

PipeInv ==
    /\ Shape /\ HeldIsStarted /\ StaleIsClosed /\ ClosedIsOver /\ OverHasCause
    /\ UnstartedIsEmpty /\ QuitAfterStop /\ BatchIsLive /\ LiveInMap /\ Signalled

(* Steps that leave the pipes' life alone: the connector store, attempts,  *)
(* breakers and clocks.                                                    *)
LEMMA Frame == ASSUME PipeInv, UNCHANGED coreVars PROVE PipeInv'
  BY Zenon DEF PipeInv, coreVars, Shape, HeldIsStarted, StaleIsClosed, ClosedIsOver, OverHasCause,
         UnstartedIsEmpty, QuitAfterStop, BatchIsLive, LiveInMap, Signalled, Live

(* No pipe runs at first. *)
LEMMA PipeInit == ASSUME Nil \notin Pipes, SiemInit PROVE PipeInv
  BY DEF SiemInit, PipeInv, Shape, HeldIsStarted, StaleIsClosed, ClosedIsOver, OverHasCause,
         UnstartedIsEmpty, QuitAfterStop, BatchIsLive, LiveInMap, Signalled, Live

(* The steps of a Submit call keep the invariant: getOrCreate adds a pipe  *)
(* only when none is registered and Stop has not begun.                    *)
LEMMA SubmitKeeps ==
  ASSUME Nil \notin Pipes, PipeInv, NEW e \in SiemEvents, SubmitStep(e)
  PROVE  PipeInv'
<1> USE DEF PipeInv
<1>1. CASE SiemSubmit(e)
  <2>1. UNCHANGED <<registered, sStopPc, snapshot, held, ch, closed, pc, batch, quit>>
    BY <1>1, Zenon DEF SiemSubmit, mapVars, queueVars
  <2>2. PICK step \in {"lookup", "refused"} : sEvPc' = [sEvPc EXCEPT ![e] = step]
    BY <1>1, Zenon DEF SiemSubmit
  <2>3. Shape' /\ HeldIsStarted' /\ StaleIsClosed'
    BY <2>1, <2>2, Zenon DEF Shape, HeldIsStarted, StaleIsClosed
  <2>4. /\ ClosedIsOver' /\ OverHasCause' /\ UnstartedIsEmpty' /\ QuitAfterStop'
        /\ BatchIsLive' /\ LiveInMap' /\ Signalled'
    BY <2>1, Zenon DEF ClosedIsOver, OverHasCause, UnstartedIsEmpty, QuitAfterStop, BatchIsLive, LiveInMap,
         Signalled, Live
  <2> QED BY <2>3, <2>4, Zenon
<1>2. CASE getOrCreate(e)
  <2>1. CASE UNCHANGED <<registered, pc>>
    <3>1. UNCHANGED <<registered, sStopPc, snapshot, ch, closed, pc, batch, quit>>
      BY <1>2, <2>1, Zenon DEF getOrCreate, queueVars
    <3>2. PICK step \in {"enqueue", "refused"} :
              /\ sEvPc' = [sEvPc EXCEPT ![e] = step]
              /\ \/ UNCHANGED held /\ step = "refused"
                 \/ registered \in Pipes /\ held' = [held EXCEPT ![e] = registered]
      BY <1>2, <2>1, Zenon DEF getOrCreate, Shape
    <3>a. sEvPc' \in [SiemEvents -> {"new", "lookup", "enqueue", "stale", "accepted", "shed", "refused", "settled"}]
      BY <3>2, Zenon DEF Shape
    <3>b. held' \in [SiemEvents -> Pipes \cup {Nil}]
      BY <3>2, Zenon DEF Shape
    <3>3. Shape'
      BY <3>1, <3>a, <3>b, Zenon DEF Shape
    <3>4. HeldIsStarted' /\ StaleIsClosed'
      BY <3>1, <3>2, Zenon DEF HeldIsStarted, StaleIsClosed, Shape, LiveInMap
    <3>5. /\ ClosedIsOver' /\ OverHasCause' /\ UnstartedIsEmpty' /\ QuitAfterStop'
          /\ BatchIsLive' /\ LiveInMap' /\ Signalled'
      BY <3>1, Zenon DEF ClosedIsOver, OverHasCause, UnstartedIsEmpty, QuitAfterStop, BatchIsLive, LiveInMap,
           Signalled, Live
    <3> QED BY <3>3, <3>4, <3>5, Zenon
  <2>2. CASE ~UNCHANGED <<registered, pc>>
    <3>1. PICK p \in Pipes : /\ pc[p] = "none" /\ registered' = p
                             /\ pc' = [pc EXCEPT ![p] = "select"]
                             /\ held' = [held EXCEPT ![e] = p]
      BY <1>2, <2>2, Zenon DEF getOrCreate
    <3>2. /\ registered = Nil /\ sStopPc = "running"
          /\ sEvPc[e] = "lookup" /\ sEvPc' = [sEvPc EXCEPT ![e] = "enqueue"]
          /\ UNCHANGED <<sStopPc, snapshot, ch, closed, batch, quit>>
      BY <1>2, <2>2, Zenon DEF getOrCreate, queueVars
    <3>3. \A q \in Pipes : ~Live(q)
      BY <3>2, Zenon DEF LiveInMap
    <3>4. \A q \in Pipes \ {p} : pc'[q] = pc[q]
      BY <3>1, Zenon DEF Shape
    <3>5. pc'[p] = "select"
      BY <3>1, Zenon DEF Shape
    <3>6. Shape'
      BY <3>1, <3>2, Zenon DEF Shape
    <3>7. HeldIsStarted' /\ StaleIsClosed'
      BY <3>1, <3>2, <3>4, <3>5, Zenon DEF Shape, HeldIsStarted, StaleIsClosed
    <3>8. ClosedIsOver' /\ OverHasCause' /\ UnstartedIsEmpty'
      BY <3>1, <3>2, <3>4, <3>5, Zenon DEF ClosedIsOver, OverHasCause, UnstartedIsEmpty
    <3>9. QuitAfterStop' /\ BatchIsLive'
      BY <3>1, <3>2, <3>4, <3>5, Zenon DEF QuitAfterStop, BatchIsLive, Live
    <3>10. LiveInMap' /\ Signalled'
      BY <3>1, <3>2, <3>3, <3>4, <3>5, Zenon DEF LiveInMap, Signalled, Live
    <3> QED BY <3>6, <3>7, <3>8, <3>9, <3>10, Zenon
  <2> QED BY <2>1, <2>2, Zenon
<1>3. CASE enqueue(e)
  <2> DEFINE p == held[e]
  <2>1. p \in Pipes /\ pc[p] # "none" /\ sEvPc[e] = "enqueue"
    BY <1>3, Zenon DEF enqueue, HeldIsStarted
  <2>2. UNCHANGED <<registered, sStopPc, snapshot, held, closed, pc, batch, quit>>
    BY <1>3, Zenon DEF enqueue, mapVars
  <2>3. CASE closed[p] /\ sEvPc' = [sEvPc EXCEPT ![e] = "stale"] /\ UNCHANGED ch
    BY <2>1, <2>2, <2>3 DEF Shape, HeldIsStarted, StaleIsClosed, ClosedIsOver,
         OverHasCause, UnstartedIsEmpty, QuitAfterStop, BatchIsLive, LiveInMap, Signalled, Live
  <2>4. CASE ~closed[p] /\ ch' = [ch EXCEPT ![p] = Append(@, e)] /\ sEvPc' = [sEvPc EXCEPT ![e] = "accepted"]
    <3>1. Shape'
      BY <2>1, <2>2, <2>4 DEF Shape
    <3>2. \A q \in Pipes \ {p} : ch'[q] = ch[q]
      BY <2>1, <2>4, Zenon DEF Shape
    <3>3. HeldIsStarted' /\ StaleIsClosed'
      BY <2>1, <2>2, <2>4, Zenon DEF Shape, HeldIsStarted, StaleIsClosed
    <3>4. ClosedIsOver' /\ UnstartedIsEmpty'
      BY <2>1, <2>2, <2>4, <3>2, Zenon DEF ClosedIsOver, UnstartedIsEmpty
    <3>5. OverHasCause' /\ QuitAfterStop' /\ BatchIsLive' /\ LiveInMap' /\ Signalled'
      BY <2>2, Zenon DEF OverHasCause, QuitAfterStop, BatchIsLive, LiveInMap, Signalled, Live
    <3> QED BY <3>1, <3>3, <3>4, <3>5, Zenon
  <2>5. CASE sEvPc' = [sEvPc EXCEPT ![e] = "shed"] /\ UNCHANGED ch
    BY <2>1, <2>2, <2>5 DEF Shape, HeldIsStarted, StaleIsClosed, ClosedIsOver,
         OverHasCause, UnstartedIsEmpty, QuitAfterStop, BatchIsLive, LiveInMap, Signalled, Live
  <2> QED BY <1>3, <2>3, <2>4, <2>5, Zenon DEF enqueue
<1>4. CASE SubmitRetries(e)
  <2>1. /\ sEvPc[e] = "stale" /\ sEvPc' = [sEvPc EXCEPT ![e] = "lookup"]
        /\ held' = [held EXCEPT ![e] = Nil]
        /\ registered' = IF registered = held[e] THEN Nil ELSE registered
        /\ UNCHANGED <<sStopPc, snapshot, ch, closed, pc, batch, quit>>
    BY <1>4, Zenon DEF SubmitRetries, removePipe, queueVars
  <2>2. held[e] \in Pipes /\ ~Live(held[e])
    BY <2>1, Zenon DEF HeldIsStarted, StaleIsClosed, ClosedIsOver, Live
  <2>3. LiveInMap'
    BY <2>1, <2>2, Zenon DEF LiveInMap, Live
  <2>4. Shape'
    BY <2>1, Zenon DEF Shape
  <2>5. HeldIsStarted' /\ StaleIsClosed'
    BY <2>1, Zenon DEF Shape, HeldIsStarted, StaleIsClosed
  <2>6. ClosedIsOver' /\ OverHasCause' /\ UnstartedIsEmpty' /\ QuitAfterStop' /\ BatchIsLive' /\ Signalled'
    BY <2>1, Zenon DEF ClosedIsOver, OverHasCause, UnstartedIsEmpty, QuitAfterStop, BatchIsLive, Signalled, Live
  <2> QED BY <2>3, <2>4, <2>5, <2>6, Zenon
<1> QED BY <1>1, <1>2, <1>3, <1>4, Zenon DEF SubmitStep

(* The steps of a pipe's goroutine outside a delivery: a pipe is reaped    *)
(* only when it is empty, and leaves otherwise only after it was told to.  *)
LEMMA PipeKeeps ==
  ASSUME Nil \notin Pipes, PipeInv, NEW p \in Pipes, PipeStep(p)
  PROVE  PipeInv'
<1> USE DEF PipeInv
<1>1. CASE Receive(p)
  <2>1. /\ pc[p] \in {"select", "drain"} /\ ch[p] # <<>>
        /\ ch' = [ch EXCEPT ![p] = Tail(@)]
        /\ batch' = [batch EXCEPT ![p] = Append(@, Head(ch[p]))]
        /\ UNCHANGED <<registered, sStopPc, snapshot, sEvPc, held, closed, quit>>
    BY <1>1, Zenon DEF Receive, mapVars, submitVars
  <2>2. PICK step \in {pc[p], "flush"} :
            /\ pc' = [pc EXCEPT ![p] = step]
            /\ step = "flush" => pc[p] = "select"
    BY <1>1, Zenon DEF Receive
  <2>3. step \in {"select", "drain", "flush"} /\ (step = "drain" => pc[p] = "drain")
    BY <2>1, <2>2, Zenon
  <2>4. /\ pc'[p] = step
        /\ \A q \in Pipes \ {p} : pc'[q] = pc[q] /\ ch'[q] = ch[q] /\ batch'[q] = batch[q]
    BY <2>1, <2>2, Zenon DEF Shape
  <2>5. Shape'
    BY <2>1, <2>2, <2>3 DEF Shape
  <2>6. HeldIsStarted' /\ StaleIsClosed'
    BY <2>1, <2>3, <2>4 DEF HeldIsStarted, StaleIsClosed, Shape
  <2>7. ClosedIsOver' /\ OverHasCause' /\ UnstartedIsEmpty'
    BY <2>1, <2>3, <2>4 DEF ClosedIsOver, OverHasCause, UnstartedIsEmpty
  <2>8. QuitAfterStop' /\ BatchIsLive' /\ LiveInMap' /\ Signalled'
    BY <2>1, <2>3, <2>4, Zenon DEF QuitAfterStop, BatchIsLive, LiveInMap, Signalled, Live
  <2> QED BY <2>5, <2>6, <2>7, <2>8, Zenon
<1>2. CASE Tick(p)
  BY <1>2 DEF Tick, mapVars, submitVars, queueVars, Shape, HeldIsStarted, StaleIsClosed, ClosedIsOver,
       OverHasCause, UnstartedIsEmpty, QuitAfterStop, BatchIsLive, LiveInMap, Signalled, Live
<1>3. CASE tryClose(p)
  <2>1. /\ pc[p] = "select" /\ batch[p] = <<>> /\ ch[p] = <<>>
        /\ closed' = [closed EXCEPT ![p] = TRUE]
        /\ pc' = [pc EXCEPT ![p] = "reaped"]
        /\ UNCHANGED <<registered, sStopPc, snapshot, sEvPc, held, ch, batch, quit>>
    BY <1>3, Zenon DEF tryClose, mapVars, submitVars
  <2>2. Shape'
    BY <2>1, Zenon DEF Shape
  <2>3. HeldIsStarted' /\ StaleIsClosed'
    BY <2>1, Zenon DEF HeldIsStarted, StaleIsClosed, Shape
  <2>4. ClosedIsOver' /\ OverHasCause' /\ UnstartedIsEmpty'
    BY <2>1, Zenon DEF ClosedIsOver, OverHasCause, UnstartedIsEmpty, Shape
  <2>5. QuitAfterStop' /\ BatchIsLive' /\ LiveInMap' /\ Signalled'
    BY <2>1, Zenon DEF QuitAfterStop, BatchIsLive, LiveInMap, Signalled, Live, Shape
  <2> QED BY <2>2, <2>3, <2>4, <2>5, Zenon
<1>4. CASE Reaped(p)
  <2>1. /\ pc[p] = "reaped" /\ pc' = [pc EXCEPT ![p] = "gone"]
        /\ registered' = IF registered = p THEN Nil ELSE registered
        /\ UNCHANGED <<sStopPc, snapshot, sEvPc, held, ch, closed, batch, quit>>
    BY <1>4, Zenon DEF Reaped, removePipe, submitVars, queueVars
  <2>2. Shape'
    BY <2>1, Zenon DEF Shape
  <2>3. HeldIsStarted' /\ StaleIsClosed'
    BY <2>1, Zenon DEF HeldIsStarted, StaleIsClosed, Shape
  <2>4. ClosedIsOver' /\ OverHasCause' /\ UnstartedIsEmpty'
    BY <2>1, Zenon DEF ClosedIsOver, OverHasCause, UnstartedIsEmpty, Shape
  <2>5. QuitAfterStop' /\ BatchIsLive' /\ LiveInMap' /\ Signalled'
    BY <2>1, Zenon DEF QuitAfterStop, BatchIsLive, LiveInMap, Signalled, Live, Shape
  <2> QED BY <2>2, <2>3, <2>4, <2>5, Zenon
<1>5. CASE Quit(p)
  BY <1>5 DEF Quit, mapVars, submitVars, queueVars, Shape, HeldIsStarted, StaleIsClosed, ClosedIsOver,
       OverHasCause, UnstartedIsEmpty, QuitAfterStop, BatchIsLive, LiveInMap, Signalled, Live
<1>6. CASE Drained(p)
  <2>1. /\ pc[p] = "drain" /\ UNCHANGED <<registered, sStopPc, snapshot, sEvPc, held, ch, closed, batch, quit>>
    BY <1>6, Zenon DEF Drained, mapVars, submitVars, queueVars
  <2>2. PICK step \in {"gone", "last_flush"} :
            /\ pc' = [pc EXCEPT ![p] = step]
            /\ step = "gone" => batch[p] = <<>>
    BY <1>6, Zenon DEF Drained
  <2>3. Shape'
    BY <2>1, <2>2, Zenon DEF Shape
  <2>4. HeldIsStarted' /\ StaleIsClosed'
    BY <2>1, <2>2, Zenon DEF HeldIsStarted, StaleIsClosed, Shape
  <2>5. ClosedIsOver' /\ OverHasCause' /\ UnstartedIsEmpty'
    BY <2>1, <2>2, Zenon DEF ClosedIsOver, OverHasCause, UnstartedIsEmpty, Shape
  <2>6. QuitAfterStop' /\ BatchIsLive' /\ LiveInMap' /\ Signalled'
    BY <2>1, <2>2, Zenon DEF QuitAfterStop, BatchIsLive, LiveInMap, Signalled, Live, Shape
  <2> QED BY <2>3, <2>4, <2>5, <2>6, Zenon
<1> QED BY <1>1, <1>2, <1>3, <1>4, <1>5, <1>6, Zenon DEF PipeStep

(* A flush that ends, in deliver or in Delivered, empties the batch.       *)
LEMMA FlushEndKeeps ==
  ASSUME PipeInv, NEW p \in Pipes,
         pc[p] \in {"flush", "batch", "last_flush", "last_batch"},
         Settle(p), batch' = [batch EXCEPT ![p] = <<>>],
         pc' = [pc EXCEPT ![p] = AfterFlush(p)],
         UNCHANGED <<registered, sStopPc, snapshot, held, ch, closed, quit>>
  PROVE  PipeInv'
<1> USE DEF PipeInv
<1>1. PICK step \in {"gone", "select"} :
          /\ pc' = [pc EXCEPT ![p] = step]
          /\ step = "gone" => quit[p]
  BY Zenon DEF AfterFlush, OverHasCause
<1>2. \A e \in SiemEvents : sEvPc'[e] \in {"settled", sEvPc[e]}
  BY Zenon DEF Settle
<1>3. Shape'
  BY <1>1 DEF Shape, Settle
<1>4. HeldIsStarted' /\ StaleIsClosed'
  BY <1>1, <1>2, Zenon DEF HeldIsStarted, StaleIsClosed, Shape
<1>5. ClosedIsOver' /\ OverHasCause' /\ UnstartedIsEmpty'
  BY <1>1 DEF ClosedIsOver, OverHasCause, UnstartedIsEmpty, Shape
<1>6. QuitAfterStop' /\ BatchIsLive' /\ LiveInMap' /\ Signalled'
  BY <1>1, Zenon DEF QuitAfterStop, BatchIsLive, LiveInMap, Signalled, Live, Shape
<1> QED BY <1>3, <1>4, <1>5, <1>6, Zenon

(* A delivery keeps the invariant: it starts, meets its connectors and     *)
(* ends on a pipe that stays the live one.                                 *)
LEMMA FlushKeeps ==
  ASSUME PipeInv, NEW p \in Pipes, Flushing(p)
  PROVE  PipeInv'
<1>1. CASE deliver(p)
  <2>1. /\ pc[p] \in {"flush", "last_flush"}
        /\ UNCHANGED <<registered, sStopPc, snapshot, held, ch, closed, quit>>
    BY <1>1, Zenon DEF deliver, mapVars, queueVars
  <2>2. CASE cached'[p] = {}
    BY <1>1, <2>1, <2>2, FlushEndKeeps, Zenon DEF deliver
  <2>3. CASE cached'[p] # {}
    <3>1. UNCHANGED <<batch, sEvPc>>
      BY <1>1, <2>3, Zenon DEF deliver
    <3>2. PICK step \in {"batch", "last_batch"} :
              /\ pc' = [pc EXCEPT ![p] = step]
              /\ step = "last_batch" => pc[p] = "last_flush"
      BY <1>1, <2>3, Zenon DEF deliver
    <3>3. Shape'
      BY <2>1, <3>1, <3>2, Zenon DEF PipeInv, Shape
    <3>4. HeldIsStarted' /\ StaleIsClosed'
      BY <2>1, <3>1, <3>2, Zenon DEF PipeInv, HeldIsStarted, StaleIsClosed, Shape
    <3>5. ClosedIsOver' /\ OverHasCause' /\ UnstartedIsEmpty'
      BY <2>1, <3>1, <3>2, Zenon DEF PipeInv, ClosedIsOver, OverHasCause, UnstartedIsEmpty, Shape
    <3>6. QuitAfterStop' /\ BatchIsLive' /\ LiveInMap' /\ Signalled'
      BY <2>1, <3>1, <3>2, Zenon DEF PipeInv, QuitAfterStop, BatchIsLive, LiveInMap, Signalled, Live, Shape
    <3> QED BY <3>3, <3>4, <3>5, <3>6, Zenon DEF PipeInv
  <2> QED BY <2>2, <2>3, Zenon
<1>2. CASE ConnectorStep(p)
  BY <1>2, Frame, Zenon DEF ConnectorStep, deliverToConnector, coreVars, mapVars, submitVars, queueVars
<1>3. CASE SendStep(p)
  BY <1>3, Frame, Zenon DEF SendStep, sendSucceeds, sendFails, sendBacksOff, coreVars, mapVars, submitVars, queueVars
<1>4. CASE sleepCtx(p)
  BY <1>4, Frame, Zenon DEF sleepCtx, coreVars, mapVars, submitVars, queueVars
<1>5. CASE Delivered(p)
  BY <1>5, FlushEndKeeps, Zenon DEF Delivered, mapVars, queueVars
<1> QED BY <1>1, <1>2, <1>3, <1>4, <1>5, Zenon DEF Flushing

(* Stop finds the live pipe, if there is one, in the map.                  *)
LEMMA StopKeeps ==
  ASSUME Nil \notin Pipes, PipeInv, SiemStop \/ signalStop \/ StopReturns
  PROVE  PipeInv'
<1> USE DEF PipeInv
<1>1. CASE SiemStop
  BY <1>1, Zenon DEF SiemStop, submitVars, queueVars, Shape, HeldIsStarted, StaleIsClosed, ClosedIsOver,
       OverHasCause, UnstartedIsEmpty, QuitAfterStop, BatchIsLive, LiveInMap, Signalled, Live
<1>2. CASE signalStop
  <2>1. /\ sStopPc = "signal" /\ sStopPc' = "wait"
        /\ quit' = [p \in Pipes |-> quit[p] \/ p = snapshot]
        /\ UNCHANGED <<registered, snapshot, sEvPc, held, ch, closed, pc, batch>>
    BY <1>2, Zenon DEF signalStop, submitVars, queueVars
  <2>2. \A p \in Pipes : quit[p] => quit'[p]
    BY <2>1, Zenon
  <2>3. Shape'
    BY <2>1, Zenon DEF Shape
  <2>4. HeldIsStarted' /\ StaleIsClosed' /\ ClosedIsOver' /\ UnstartedIsEmpty' /\ BatchIsLive' /\ LiveInMap'
    BY <2>1, Zenon DEF HeldIsStarted, StaleIsClosed, ClosedIsOver, UnstartedIsEmpty, BatchIsLive, LiveInMap, Live
  <2>5. OverHasCause' /\ QuitAfterStop'
    BY <2>1, <2>2, Zenon DEF OverHasCause, QuitAfterStop
  <2>6. Signalled'
    BY <2>1, <2>2, Zenon DEF Signalled, Live
  <2> QED BY <2>3, <2>4, <2>5, <2>6, Zenon
<1>3. CASE StopReturns
  BY <1>3, Zenon DEF StopReturns, submitVars, queueVars, Shape, HeldIsStarted, StaleIsClosed, ClosedIsOver,
       OverHasCause, UnstartedIsEmpty, QuitAfterStop, BatchIsLive, LiveInMap, Signalled, Live
<1> QED BY <1>1, <1>2, <1>3, Zenon

(* Every step of the exporter keeps the invariant.                         *)
LEMMA PipeStepKeeps ==
  ASSUME Nil \notin Pipes, PipeInv, [SiemNext]_siemVars
  PROVE  PipeInv'
<1>1. CASE UNCHANGED siemVars
  BY <1>1, Frame, Zenon DEF siemVars, coreVars, mapVars, submitVars, queueVars
<1>2. CASE \E c \in Connectors : RegisterConnector(c) \/ DeleteConnector(c)
  BY <1>2, Frame, Zenon DEF RegisterConnector, DeleteConnector, coreVars, mapVars, submitVars, queueVars
<1>3. CASE \E e \in SiemEvents : SubmitStep(e)
  BY <1>3, SubmitKeeps, Zenon
<1>4. CASE \E p \in Pipes : PipeStep(p)
  BY <1>4, PipeKeeps, Zenon
<1>5. CASE \E p \in Pipes : Flushing(p)
  BY <1>5, FlushKeeps, Zenon
<1>6. CASE \E p \in Pipes : Clocks(p)
  BY <1>6, Frame, Zenon DEF Clocks, CacheExpires, SiemBreakerResets, coreVars, mapVars, submitVars, queueVars
<1>7. CASE SiemStop \/ signalStop \/ StopReturns
  BY <1>7, StopKeeps, Zenon
<1> QED BY <1>1, <1>2, <1>3, <1>4, <1>5, <1>6, <1>7, Zenon DEF SiemNext

(* The lives of the pipes, in every reachable state.                       *)
THEOREM PipeInvariant == ASSUME Nil \notin Pipes PROVE SiemSpec => []PipeInv
<1>1. SiemInit => PipeInv
  BY PipeInit, Zenon
<1>2. PipeInv /\ [SiemNext]_siemVars => PipeInv'
  BY PipeStepKeeps, Zenon
<1> QED BY <1>1, <1>2, PTL DEF SiemSpec

(* Reaping strands no accepted event (Submit against the idle timer).      *)
THEOREM ReapingSafety == ASSUME Nil \notin Pipes PROVE SiemSpec => []NothingStrandedByReaping
<1>1. PipeInv => NothingStrandedByReaping
  <2> SUFFICES ASSUME PipeInv, NEW e \in SiemEvents, Stranded(e), sStopPc = "running" PROVE FALSE
    BY Zenon DEF NothingStrandedByReaping
  <2>1. PICK p \in Pipes : e \in Range(ch[p]) /\ ~Live(p)
    BY Zenon DEF Stranded
  <2>2. ch[p] = <<>>
    BY <2>1, Zenon DEF PipeInv, Shape, Live, ClosedIsOver, OverHasCause, UnstartedIsEmpty, QuitAfterStop
  <2> QED BY <2>1, <2>2 DEF Range
<1> QED BY <1>1, PipeInvariant, PTL

(* A pipe that runs is the one in the map (removePipe, getOrCreate).       *)
THEOREM MapSafety == ASSUME Nil \notin Pipes PROVE SiemSpec => []LiveIsRegistered
<1>1. PipeInv => LiveIsRegistered
  BY Zenon DEF PipeInv, LiveInMap, LiveIsRegistered
<1> QED BY <1>1, PipeInvariant, PTL

(* A pipe never delivers beside the one that replaced it.                  *)
THEOREM OnePipeSafety == ASSUME Nil \notin Pipes PROVE SiemSpec => []OnePipeWorks
<1>1. PipeInv => OnePipeWorks
  BY Zenon DEF PipeInv, LiveInMap, BatchIsLive, OnePipeWorks
<1> QED BY <1>1, PipeInvariant, PTL

(* Stop waits for no goroutine that it did not tell to quit: whatever      *)
(* getOrCreate and the reaper do meanwhile, it cannot hang on a pipe that  *)
(* entered the map after its snapshot.                                     *)
THEOREM StopSignalsAll ==
  ASSUME Nil \notin Pipes
  PROVE  SiemSpec => [](sStopPc = "wait" => \A p \in Pipes : Live(p) => quit[p])
<1>1. PipeInv => (sStopPc = "wait" => \A p \in Pipes : Live(p) => quit[p])
  BY Zenon DEF PipeInv, Signalled
<1> QED BY <1>1, PipeInvariant, PTL

-----------------------------------------------------------------------------
(***************************************************************************)
(* Accounting.  An event is in one place at a time, a queue or the batch,  *)
(* and is still accepted there; a connector it is owed to is still to be   *)
(* met by the batch, or is being sent to.                                  *)
(***************************************************************************)
NoRepeats(s) == \A i, j \in DOMAIN s : s[i] = s[j] => i = j

QueuedOnce == \A p \in Pipes : NoRepeats(ch[p])
QueuesApart == \A p, q \in Pipes : p # q => Range(ch[p]) \cap Range(ch[q]) = {}
QueueOrBatch == \A p, q \in Pipes : Range(ch[p]) \cap Range(batch[q]) = {}
InHandIsAccepted ==
    \A p \in Pipes : \A e \in Range(ch[p]) \cup Range(batch[p]) : sEvPc[e] = "accepted"

Placed == QueuedOnce /\ QueuesApart /\ QueueOrBatch /\ InHandIsAccepted

ConnectorShape ==
    /\ active \subseteq Connectors /\ cached \in [Pipes -> SUBSET Connectors]
    /\ todo \in [Pipes -> SUBSET Connectors] /\ sending \in [Pipes -> Connectors \cup {Nil}]

Owing(e, c, p) ==
    /\ e \in Range(batch[p]) /\ pc[p] \in {"batch", "last_batch"}
    /\ c \in todo[p] \/ c = sending[p]

OwedIsDue ==
    \A e \in SiemEvents, c \in Connectors : fate[e][c] = "owed" => \E p \in Pipes : Owing(e, c, p)

AccountInv == Placed /\ ConnectorShape /\ OwedIsDue

(* Adding to a queue or a batch. *)
LEMMA RangeOfAppend ==
  ASSUME NEW S, NEW s \in Seq(S), NEW x \in S
  PROVE  /\ Range(Append(s, x)) = Range(s) \cup {x}
         /\ NoRepeats(s) /\ x \notin Range(s) => NoRepeats(Append(s, x))
<1>1. /\ DOMAIN Append(s, x) = 1 .. Len(s) + 1 /\ DOMAIN s = 1 .. Len(s) /\ Len(s) \in Nat
      /\ Append(s, x)[Len(s) + 1] = x
      /\ \A i \in 1 .. Len(s) : Append(s, x)[i] = s[i]
  OBVIOUS
<1>2. Range(Append(s, x)) \subseteq Range(s) \cup {x}
  BY <1>1 DEF Range
<1>3. Range(s) \cup {x} \subseteq Range(Append(s, x))
  BY <1>1 DEF Range
<1>4. ASSUME NoRepeats(s), x \notin Range(s) PROVE NoRepeats(Append(s, x))
  BY <1>1, <1>4 DEF NoRepeats, Range
<1> QED BY <1>2, <1>3, <1>4, Zenon

(* Taking the head of a queue. *)
LEMMA RangeOfTail ==
  ASSUME NEW S, NEW s \in Seq(S), s # <<>>
  PROVE  /\ Head(s) \in S /\ Tail(s) \in Seq(S)
         /\ Head(s) \in Range(s) /\ Range(Tail(s)) \subseteq Range(s)
         /\ NoRepeats(s) => NoRepeats(Tail(s)) /\ Head(s) \notin Range(Tail(s))
<1>1. /\ DOMAIN s = 1 .. Len(s) /\ Len(s) \in Nat \ {0} /\ Head(s) = s[1]
      /\ Tail(s) \in Seq(S) /\ DOMAIN Tail(s) = 1 .. Len(s) - 1
      /\ \A i \in 1 .. Len(s) - 1 : Tail(s)[i] = s[i + 1]
  OBVIOUS
<1>2. Head(s) \in S /\ Head(s) \in Range(s)
  BY <1>1 DEF Range
<1>3. Range(Tail(s)) \subseteq Range(s)
  BY <1>1 DEF Range
<1>4. ASSUME NoRepeats(s) PROVE NoRepeats(Tail(s)) /\ Head(s) \notin Range(Tail(s))
  BY <1>1, <1>4 DEF NoRepeats, Range
<1> QED BY <1>1, <1>2, <1>3, <1>4, Zenon

(* What is queued or batched are events. *)
LEMMA InHandAreEvents ==
  ASSUME Shape, NEW p \in Pipes
  PROVE  Range(ch[p]) \subseteq SiemEvents /\ Range(batch[p]) \subseteq SiemEvents
  BY DEF Shape, Range

(* Steps that move no event, and touch no accepted one.                    *)
LEMMA PlacedFrame ==
  ASSUME Shape, Placed, UNCHANGED <<ch, batch>>,
         \A e \in SiemEvents : sEvPc[e] = "accepted" => sEvPc'[e] = "accepted"
  PROVE  Placed'
<1>1. QueuedOnce' /\ QueuesApart' /\ QueueOrBatch'
  BY Zenon DEF Placed, QueuedOnce, QueuesApart, QueueOrBatch
<1>2. InHandIsAccepted'
  BY InHandAreEvents, Zenon DEF Placed, InHandIsAccepted
<1> QED BY <1>1, <1>2, Zenon DEF Placed

(* Submit: an event enters a queue as it is accepted.                      *)
LEMMA SubmitPlaced ==
  ASSUME PipeInv, Placed, NEW e \in SiemEvents, SubmitStep(e)
  PROVE  Placed'
<1> USE DEF PipeInv
<1>1. CASE SiemSubmit(e)
  BY <1>1, PlacedFrame, Zenon DEF SiemSubmit, queueVars, Shape
<1>2. CASE getOrCreate(e)
  BY <1>2, PlacedFrame, Zenon DEF getOrCreate, queueVars, Shape
<1>3. CASE enqueue(e)
  <2> DEFINE p == held[e]
  <2>1. p \in Pipes /\ sEvPc[e] = "enqueue" /\ UNCHANGED batch
    BY <1>3, Zenon DEF enqueue, HeldIsStarted
  <2>2. CASE UNCHANGED ch
    BY <1>3, <2>1, <2>2, PlacedFrame, Zenon DEF enqueue, Shape
  <2>3. CASE ch' = [ch EXCEPT ![p] = Append(@, e)] /\ sEvPc' = [sEvPc EXCEPT ![e] = "accepted"]
    <3>1. \A q \in Pipes : e \notin Range(ch[q]) /\ e \notin Range(batch[q])
      BY <2>1, Zenon DEF Placed, InHandIsAccepted
    <3>2. /\ Range(ch'[p]) = Range(ch[p]) \cup {e} /\ NoRepeats(ch'[p])
          /\ \A q \in Pipes \ {p} : ch'[q] = ch[q]
      <4>1. ch[p] \in Seq(SiemEvents) /\ ch'[p] = Append(ch[p], e) /\ NoRepeats(ch[p])
        BY <2>1, <2>3, Zenon DEF Shape, Placed, QueuedOnce
      <4>2. \A q \in Pipes \ {p} : ch'[q] = ch[q]
        BY <2>1, <2>3, Zenon DEF Shape
      <4> QED BY <3>1, <2>1, <4>1, <4>2, RangeOfAppend
    <3>3. QueuedOnce'
      BY <2>1, <3>2, Zenon DEF Placed, QueuedOnce
    <3>4. QueuesApart'
      BY <2>1, <3>1, <3>2 DEF Placed, QueuesApart
    <3>5. QueueOrBatch'
      BY <2>1, <3>1, <3>2 DEF Placed, QueueOrBatch
    <3>6. \A f \in SiemEvents : sEvPc'[f] = IF f = e THEN "accepted" ELSE sEvPc[f]
      BY <2>3, Zenon DEF Shape
    <3>7. InHandIsAccepted'
      <4> SUFFICES ASSUME NEW q \in Pipes, NEW f \in Range(ch'[q]) \cup Range(batch'[q])
                   PROVE  sEvPc'[f] = "accepted"
        BY Zenon DEF InHandIsAccepted
      <4>1. f = e \/ f \in Range(ch[q]) \cup Range(batch[q])
        BY <2>1, <3>2, Zenon
      <4>2. f \in SiemEvents
        BY <4>1, InHandAreEvents, Zenon
      <4> QED BY <4>1, <4>2, <3>6, Zenon DEF Placed, InHandIsAccepted
    <3> QED BY <3>3, <3>4, <3>5, <3>7, Zenon DEF Placed
  <2> QED BY <1>3, <2>2, <2>3, Zenon DEF enqueue
<1>4. CASE SubmitRetries(e)
  BY <1>4, PlacedFrame, Zenon DEF SubmitRetries, queueVars, Shape
<1> QED BY <1>1, <1>2, <1>3, <1>4, Zenon DEF SubmitStep

(* Receive moves the head of the queue into the batch.                     *)
LEMMA ReceivePlaced ==
  ASSUME PipeInv, Placed, NEW p \in Pipes, Receive(p)
  PROVE  Placed'
<1> USE DEF PipeInv
<1> DEFINE x == Head(ch[p])
<1>1. /\ ch[p] # <<>> /\ ch[p] \in Seq(SiemEvents) /\ batch[p] \in Seq(SiemEvents) /\ NoRepeats(ch[p])
      /\ ch'[p] = Tail(ch[p]) /\ batch'[p] = Append(batch[p], x)
      /\ UNCHANGED sEvPc
  BY Zenon DEF Receive, submitVars, Shape, Placed, QueuedOnce
<1>2. \A q \in Pipes \ {p} : ch'[q] = ch[q] /\ batch'[q] = batch[q]
  BY Zenon DEF Receive, Shape
<1>3. /\ x \in SiemEvents /\ x \in Range(ch[p]) /\ Range(ch'[p]) \subseteq Range(ch[p])
      /\ NoRepeats(ch'[p]) /\ x \notin Range(ch'[p])
  BY <1>1, RangeOfTail, Zenon
<1>4. Range(batch'[p]) = Range(batch[p]) \cup {x}
  BY <1>1, <1>3, RangeOfAppend
<1>5. QueuedOnce'
  BY <1>2, <1>3, Zenon DEF Placed, QueuedOnce
<1>6. QueuesApart'
  BY <1>2, <1>3, Zenon DEF Placed, QueuesApart
<1>7. \A q \in Pipes : x \notin Range(ch'[q])
  BY <1>2, <1>3, Zenon DEF Placed, QueuesApart
<1>8. QueueOrBatch'
  BY <1>2, <1>3, <1>4, <1>7 DEF Placed, QueueOrBatch
<1>9. InHandIsAccepted'
  BY <1>1, <1>2, <1>3, <1>4, Zenon DEF Placed, InHandIsAccepted
<1> QED BY <1>5, <1>6, <1>8, <1>9, Zenon DEF Placed

(* A flush that ends settles its batch, which no other pipe holds.         *)
LEMMA SettlePlaced ==
  ASSUME PipeInv, Placed, NEW p \in Pipes,
         pc[p] \in {"flush", "batch", "last_flush", "last_batch"},
         Settle(p), batch' = [batch EXCEPT ![p] = <<>>], UNCHANGED ch
  PROVE  Placed'
<1>1. /\ Range(batch'[p]) = {}
      /\ \A q \in Pipes \ {p} : batch'[q] = batch[q]
  BY DEF PipeInv, Shape, Range
<1>2. \A q \in Pipes \ {p} : batch[q] = <<>>
  BY Zenon DEF PipeInv, BatchIsLive, LiveInMap, Live
<1>3. \A q \in Pipes : Range(batch'[q]) = {}
  BY <1>1, <1>2 DEF Range
<1>4. QueuedOnce' /\ QueuesApart' /\ QueueOrBatch'
  BY <1>3, Zenon DEF Placed, QueuedOnce, QueuesApart, QueueOrBatch
<1>5. InHandIsAccepted'
  <2> SUFFICES ASSUME NEW q \in Pipes, NEW e \in Range(ch[q]) PROVE sEvPc'[e] = "accepted"
    BY <1>3, Zenon DEF InHandIsAccepted
  <2>1. e \in SiemEvents /\ e \notin Range(batch[p]) /\ sEvPc[e] = "accepted"
    BY InHandAreEvents, Zenon DEF PipeInv, Placed, QueueOrBatch, InHandIsAccepted
  <2> QED BY <2>1, Zenon DEF Settle
<1> QED BY <1>4, <1>5, Zenon DEF Placed

(* Steps at whose pipe no delivery is under way. *)
LEMMA OwedFrame ==
  ASSUME OwedIsDue, NEW S \in SUBSET Pipes,
         \A p \in S : pc[p] \notin {"batch", "last_batch"},
         \A p \in Pipes \ S : pc'[p] = pc[p] /\ batch'[p] = batch[p],
         UNCHANGED <<todo, sending, fate>>
  PROVE  OwedIsDue'
<1> SUFFICES ASSUME NEW e \in SiemEvents, NEW c \in Connectors, fate[e][c] = "owed"
             PROVE  \E p \in Pipes : Owing(e, c, p)'
  BY Zenon DEF OwedIsDue
<1>1. PICK p \in Pipes : Owing(e, c, p)
  BY Zenon DEF OwedIsDue
<1>2. p \notin S
  BY <1>1, Zenon DEF Owing
<1>3. Owing(e, c, p)'
  BY <1>1, <1>2, Zenon DEF Owing
<1> QED BY <1>3, Zenon

(* A delivery starts: the whole cached set is owed and is to be met.  With *)
(* no connector, the batch is over and owed nothing.                       *)
LEMMA DeliverOwed ==
  ASSUME PipeInv, AccountInv, NEW p \in Pipes, deliver(p)
  PROVE  ConnectorShape' /\ OwedIsDue'
<1>1. pc[p] \in {"flush", "last_flush"} /\ UNCHANGED <<active, sending>>
  BY Zenon DEF deliver, storeVars
<1>2. cached' \in [Pipes -> SUBSET Connectors]
  BY Zenon DEF deliver, connectors, cacheVars, AccountInv, ConnectorShape
<1>3. \A q \in Pipes \ {p} : pc'[q] = pc[q] /\ batch'[q] = batch[q] /\ todo'[q] = todo[q]
  BY Zenon DEF deliver, PipeInv, Shape, AccountInv, ConnectorShape
<1>4. ConnectorShape'
  BY <1>1, <1>2, Zenon DEF deliver, AccountInv, ConnectorShape
<1>5. OwedIsDue'
  <2> SUFFICES ASSUME NEW e \in SiemEvents, NEW c \in Connectors, fate'[e][c] = "owed"
               PROVE  \E q \in Pipes : Owing(e, c, q)'
    BY Zenon DEF OwedIsDue
  <2>1. CASE fate[e][c] = "owed"
    <3>1. PICK q \in Pipes : Owing(e, c, q)
      BY <2>1, Zenon DEF AccountInv, OwedIsDue
    <3>2. q # p
      BY <1>1, <3>1, Zenon DEF Owing
    <3>3. Owing(e, c, q)'
      BY <1>1, <1>3, <3>1, <3>2, Zenon DEF Owing
    <3> QED BY <3>3, Zenon
  <2>2. CASE fate[e][c] # "owed"
    <3>1. cached'[p] # {}
      BY <2>2 DEF deliver, Record
    <3>2. e \in Range(batch[p]) /\ c \in cached'[p] /\ UNCHANGED batch
      BY <2>2, <3>1 DEF deliver, Record
    <3>3. todo'[p] = cached'[p] /\ pc'[p] \in {"batch", "last_batch"}
      BY <1>1, <3>1, Zenon DEF deliver, PipeInv, Shape, AccountInv, ConnectorShape
    <3>4. Owing(e, c, p)'
      BY <3>2, <3>3, Zenon DEF Owing
    <3> QED BY <3>4, Zenon
  <2> QED BY <2>1, <2>2, Zenon
<1> QED BY <1>4, <1>5, Zenon

(* What is recorded for the connector that a batch is done with.           *)
LEMMA RecordOwed ==
  ASSUME PipeInv, AccountInv, NEW p \in Pipes, NEW d \in Connectors, NEW outcome, outcome # "owed",
         Record(p, {d}, outcome),
         \A q \in Pipes \ {p} : todo'[q] = todo[q] /\ sending'[q] = sending[q],
         \A c \in Connectors \ {d} : c \in todo[p] \/ c = sending[p] => c \in todo'[p] \/ c = sending'[p],
         UNCHANGED <<batch, pc>>
  PROVE  OwedIsDue'
<1> SUFFICES ASSUME NEW e \in SiemEvents, NEW c \in Connectors, fate'[e][c] = "owed"
             PROVE  \E q \in Pipes : Owing(e, c, q)'
  BY Zenon DEF OwedIsDue
<1>1. fate[e][c] = "owed" /\ ~(e \in Range(batch[p]) /\ c = d)
  BY Zenon DEF Record
<1>2. PICK q \in Pipes : Owing(e, c, q)
  BY <1>1, Zenon DEF AccountInv, OwedIsDue
<1>3. Owing(e, c, q)'
  BY <1>1, <1>2, Zenon DEF Owing
<1> QED BY <1>3, Zenon

(* The steps of a delivery.                                                *)
LEMMA FlushOwed ==
  ASSUME Nil \notin Connectors, PipeInv, AccountInv, NEW p \in Pipes, Flushing(p)
  PROVE  ConnectorShape' /\ OwedIsDue'
<1> USE DEF AccountInv
<1>1. CASE deliver(p)
  BY <1>1, DeliverOwed, Zenon
<1>2. ASSUME NEW d \in Connectors, deliverToConnector(p, d) PROVE ConnectorShape' /\ OwedIsDue'
  <2>1. /\ sending[p] = Nil /\ todo' = [todo EXCEPT ![p] = @ \ {d}]
        /\ UNCHANGED <<active, cached, batch, pc>>
    BY <1>2, Zenon DEF deliverToConnector, storeVars, cacheVars
  <2>2. CASE UNCHANGED <<sending, sAttempt>>
    <3>1. ConnectorShape'
      BY <2>1, <2>2, Zenon DEF ConnectorShape
    <3>2. CASE Record(p, {d}, "render_error")
      BY <2>1, <2>2, <3>2, RecordOwed, Zenon DEF ConnectorShape
    <3>3. CASE Record(p, {d}, "circuit_open")
      BY <2>1, <2>2, <3>3, RecordOwed, Zenon DEF ConnectorShape
    <3>4. CASE ~Record(p, {d}, "render_error") /\ ~Record(p, {d}, "circuit_open")
      <4>1. sending' = [sending EXCEPT ![p] = d]
        BY <1>2, <3>4, Zenon DEF deliverToConnector
      <4> QED BY <2>1, <2>2, <4>1, Zenon DEF ConnectorShape
    <3> QED BY <3>1, <3>2, <3>3, <3>4, Zenon
  <2>3. CASE ~UNCHANGED <<sending, sAttempt>>
    <3>1. sending' = [sending EXCEPT ![p] = d] /\ UNCHANGED fate
      BY <1>2, <2>3, Zenon DEF deliverToConnector
    <3>2. ConnectorShape'
      BY <2>1, <3>1, Zenon DEF ConnectorShape
    <3>3. \A e \in SiemEvents, c \in Connectors, q \in Pipes : Owing(e, c, q) => Owing(e, c, q)'
      BY <2>1, <3>1, Zenon DEF Owing, ConnectorShape
    <3> QED BY <3>1, <3>2, <3>3, Zenon DEF OwedIsDue
  <2> QED BY <2>2, <2>3, Zenon
<1>3. CASE sendSucceeds(p) \/ sendFails(p)
  <2>1. /\ sending[p] # Nil /\ sending' = [sending EXCEPT ![p] = Nil]
        /\ UNCHANGED <<active, cached, batch, pc, todo>>
    BY <1>3, Zenon DEF sendSucceeds, sendFails, Sending, storeVars, cacheVars
  <2>2. PICK outcome \in {"success", "dead_letter"} : Record(p, {sending[p]}, outcome)
    BY <1>3, Zenon DEF sendSucceeds, sendFails
  <2>3. sending[p] \in Connectors
    BY <2>1, Zenon DEF ConnectorShape
  <2>4. ConnectorShape'
    BY <2>1, Zenon DEF ConnectorShape
  <2>5. OwedIsDue'
    BY <2>1, <2>2, <2>3, RecordOwed, Zenon DEF ConnectorShape
  <2> QED BY <2>4, <2>5, Zenon
<1>4. CASE sendBacksOff(p)
  <2>1. UNCHANGED <<active, cached, batch, pc, todo, sending, fate>>
    BY <1>4, Zenon DEF sendBacksOff, storeVars, cacheVars
  <2> QED BY <2>1, Zenon DEF ConnectorShape, OwedIsDue, Owing
<1>5. CASE sleepCtx(p)
  <2>1. sending[p] # Nil /\ UNCHANGED <<active, cached, batch, pc, todo>>
    BY <1>5, Zenon DEF sleepCtx, storeVars, cacheVars
  <2>2. CASE UNCHANGED <<sending, fate>>
    BY <2>1, <2>2, Zenon DEF ConnectorShape, OwedIsDue, Owing
  <2>3. CASE Record(p, {sending[p]}, "dead_letter") /\ sending' = [sending EXCEPT ![p] = Nil]
    <3>1. sending[p] \in Connectors
      BY <2>1, Zenon DEF ConnectorShape
    <3>2. ConnectorShape'
      BY <2>1, <2>3, Zenon DEF ConnectorShape
    <3>3. OwedIsDue'
      BY <2>1, <2>3, <3>1, RecordOwed, Zenon DEF ConnectorShape
    <3> QED BY <3>2, <3>3, Zenon
  <2> QED BY <1>5, <2>2, <2>3, Zenon DEF sleepCtx
<1>6. CASE Delivered(p)
  <2>1. /\ sending[p] = Nil /\ todo[p] = {}
        /\ UNCHANGED <<active, cached, todo, sending, fate>>
        /\ \A q \in Pipes \ {p} : pc'[q] = pc[q] /\ batch'[q] = batch[q]
    BY <1>6, Zenon DEF Delivered, storeVars, cacheVars, sendVars, PipeInv, Shape
  <2>2. \A e \in SiemEvents, c \in Connectors, q \in Pipes : Owing(e, c, q) => Owing(e, c, q)'
    BY <2>1, Zenon DEF Owing
  <2> QED BY <2>1, <2>2, Zenon DEF ConnectorShape, OwedIsDue
<1> QED BY <1>1, <1>2, <1>3, <1>4, <1>5, <1>6, Zenon DEF Flushing, ConnectorStep, SendStep

(* Every step of the exporter keeps the accounts.                          *)
LEMMA AccountStepKeeps ==
  ASSUME Nil \notin Connectors, PipeInv, AccountInv, [SiemNext]_siemVars
  PROVE  AccountInv'
<1> USE DEF AccountInv
<1>1. CASE UNCHANGED siemVars
  <2>1. UNCHANGED <<sEvPc, ch, batch, pc, active, cached, todo, sending, fate>>
    BY <1>1, Zenon DEF siemVars, storeVars, submitVars, queueVars, cacheVars, sendVars
  <2>2. Placed'
    BY <2>1, PlacedFrame, Zenon DEF PipeInv
  <2> QED BY <2>1, <2>2, Zenon DEF ConnectorShape, OwedIsDue, Owing
<1>2. ASSUME NEW c \in Connectors, RegisterConnector(c) \/ DeleteConnector(c) PROVE AccountInv'
  <2>1. /\ UNCHANGED <<sEvPc, ch, batch, pc, cached, todo, sending, fate>>
        /\ active' \in {active \cup {c}, active \ {c}}
    BY <1>2, Zenon DEF RegisterConnector, DeleteConnector, submitVars, queueVars, cacheVars, sendVars
  <2>2. Placed'
    BY <2>1, PlacedFrame, Zenon DEF PipeInv
  <2> QED BY <2>1, <2>2, Zenon DEF ConnectorShape, OwedIsDue, Owing
<1>3. ASSUME NEW e \in SiemEvents, SubmitStep(e) PROVE AccountInv'
  <2>1. Placed'
    BY <1>3, SubmitPlaced, Zenon
  <2>2. /\ UNCHANGED <<active, cached, todo, sending, fate, batch>>
        /\ \A p \in Pipes : pc[p] # "none" => pc'[p] = pc[p]
    <3>1. CASE SiemSubmit(e) \/ enqueue(e) \/ SubmitRetries(e)
      BY <3>1, Zenon DEF SiemSubmit, enqueue, SubmitRetries, storeVars, cacheVars, sendVars
    <3>2. CASE getOrCreate(e)
      BY <3>2, Zenon DEF getOrCreate, storeVars, cacheVars, sendVars, PipeInv, Shape
    <3> QED BY <1>3, <3>1, <3>2, Zenon DEF SubmitStep
  <2>3. OwedIsDue'
    <3> DEFINE S == {p \in Pipes : pc[p] = "none"}
    <3>1. S \in SUBSET Pipes /\ \A p \in S : pc[p] \notin {"batch", "last_batch"}
      BY Zenon
    <3>2. \A p \in Pipes \ S : pc'[p] = pc[p] /\ batch'[p] = batch[p]
      BY <2>2, Zenon
    <3> HIDE DEF S
    <3> QED BY <2>2, <3>1, <3>2, OwedFrame, Zenon
  <2> QED BY <2>1, <2>2, <2>3, Zenon DEF ConnectorShape
<1>4. ASSUME NEW p \in Pipes, PipeStep(p) PROVE AccountInv'
  <2>1. /\ UNCHANGED <<sEvPc, active, cached, todo, sending, fate>>
        /\ pc[p] \notin {"batch", "last_batch"}
        /\ \A q \in Pipes \ {p} : pc'[q] = pc[q] /\ batch'[q] = batch[q]
    BY <1>4, Zenon DEF PipeStep, Receive, Tick, tryClose, Reaped, Quit, Drained, storeVars, submitVars, cacheVars,
         sendVars, PipeInv, Shape
  <2>2. Placed'
    <3>1. CASE Receive(p)
      BY <3>1, ReceivePlaced, Zenon
    <3>2. CASE ~Receive(p)
      <4>1. UNCHANGED <<ch, batch>>
        BY <1>4, <3>2, Zenon DEF PipeStep, Tick, tryClose, Reaped, Quit, Drained, queueVars
      <4> QED BY <2>1, <4>1, PlacedFrame, Zenon DEF PipeInv
    <3> QED BY <3>1, <3>2, Zenon
  <2>3. OwedIsDue'
    <3>1. {p} \in SUBSET Pipes
      BY Zenon
    <3> QED BY <2>1, <3>1, OwedFrame, Zenon
  <2> QED BY <2>1, <2>2, <2>3, Zenon DEF ConnectorShape
<1>5. ASSUME NEW p \in Pipes, Flushing(p) PROVE AccountInv'
  <2>1. ConnectorShape' /\ OwedIsDue'
    BY <1>5, FlushOwed, Zenon
  <2>2. CASE UNCHANGED <<sEvPc, ch, batch>>
    BY <2>1, <2>2, PlacedFrame, Zenon DEF PipeInv
  <2>3. CASE ~UNCHANGED <<sEvPc, ch, batch>>
    <3>1. CASE deliver(p)
      BY <2>1, <2>3, <3>1, SettlePlaced, Zenon DEF deliver, queueVars
    <3>2. CASE Delivered(p)
      BY <2>1, <3>2, SettlePlaced, Zenon DEF Delivered, queueVars
    <3>3. deliver(p) \/ Delivered(p)
      BY <1>5, <2>3, Zenon DEF Flushing, ConnectorStep, SendStep, deliverToConnector, sendSucceeds, sendFails,
           sendBacksOff, sleepCtx, submitVars, queueVars
    <3> QED BY <3>1, <3>2, <3>3, Zenon
  <2> QED BY <2>2, <2>3, Zenon
<1>6. ASSUME NEW p \in Pipes, Clocks(p) PROVE AccountInv'
  <2>1. UNCHANGED <<sEvPc, ch, batch, pc, active, cached, todo, sending, fate>>
    BY <1>6, Zenon DEF Clocks, CacheExpires, SiemBreakerResets, storeVars, submitVars, queueVars, cacheVars, sendVars
  <2>2. Placed'
    BY <2>1, PlacedFrame, Zenon DEF PipeInv
  <2> QED BY <2>1, <2>2, Zenon DEF ConnectorShape, OwedIsDue, Owing
<1>7. CASE SiemStop \/ signalStop \/ StopReturns
  <2>1. UNCHANGED <<sEvPc, ch, batch, pc, active, cached, todo, sending, fate>>
    BY <1>7, Zenon DEF SiemStop, signalStop, StopReturns, storeVars, submitVars, queueVars, cacheVars, sendVars
  <2>2. Placed'
    BY <2>1, PlacedFrame, Zenon DEF PipeInv
  <2> QED BY <2>1, <2>2, Zenon DEF ConnectorShape, OwedIsDue, Owing
<1> QED BY <1>1, <1>2, <1>3, <1>4, <1>5, <1>6, <1>7, Zenon DEF SiemNext

(* Every event is in one place, and what it is owed is still due.          *)
THEOREM AccountInvariant ==
  ASSUME Nil \notin Pipes, Nil \notin Connectors PROVE SiemSpec => []AccountInv
<1>1. SiemInit => AccountInv
  BY DEF SiemInit, AccountInv, Placed, QueuedOnce, QueuesApart, QueueOrBatch, InHandIsAccepted, NoRepeats,
         Range, ConnectorShape, OwedIsDue
<1>2. PipeInv /\ AccountInv /\ [SiemNext]_siemVars => AccountInv'
  BY AccountStepKeeps, Zenon
<1> QED BY <1>1, <1>2, PipeInvariant, PTL DEF SiemSpec

(* A settled event was delivered or counted at every connector that its    *)
(* batch was meant for (deliverToConnector, sleepCtx).                     *)
THEOREM AccountSafety ==
  ASSUME Nil \notin Pipes, Nil \notin Connectors PROVE SiemSpec => []BatchAccounted
<1>1. AccountInv => BatchAccounted
  <2> SUFFICES ASSUME AccountInv, NEW e \in SiemEvents, NEW c \in Connectors,
                      sEvPc[e] = "settled", fate[e][c] = "owed"
               PROVE  FALSE
    BY Zenon DEF BatchAccounted
  <2>1. PICK p \in Pipes : e \in Range(batch[p])
    BY Zenon DEF AccountInv, OwedIsDue, Owing
  <2> QED BY <2>1, Zenon DEF AccountInv, Placed, InHandIsAccepted
<1> QED BY <1>1, AccountInvariant, PTL
=============================================================================
