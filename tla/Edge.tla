-------------------------------- MODULE Edge --------------------------------
(***************************************************************************)
(* The edge of the API: authn, the token bucket of a tenant in Redis, and  *)
(* SubmitTelemetry with its cache of known apps, its quota per window and  *)
(* its publication of events one by one.  Calls run on replicas that share *)
(* Redis but neither clock nor cache; Redis and the registry may fail.     *)
(*                                                                         *)
(* Both scripts are given a time that the replica read before it sent them *)
(* off, so they may run late and out of order.  now is the time of Redis,  *)
(* by which keys expire; a replica's clock is at most Ahead of it.         *)
(***************************************************************************)
EXTENDS Access, FiniteSetsExt

CONSTANTS Slots,        \* slots of calls under way, 1..n
          Offered,      \* the requests that they may make
          KeyRing,      \* key -> the principal that validating it yields
          Replicas, Skew, Ahead, \* replicas, how far each one's clock is ahead, and at most
          Apps,         \* <<tenant, app>> that may be registered
          KnownAtStart, \* those registered from the start
          Rate, Capacity, \* tokens per second, and at most
          PerMinute, Window, \* events per window, seconds of a window
          AppTTL, NegTTL, MaxEntries, \* of the cache of apps
          MaxNow, MaxEdgeFaults, MaxRequests

VARIABLES now,        \* seconds
          bucket,     \* tenant -> tokens, last refill and expiry, or Nil
          quota,      \* <<tenant, window>> -> events counted and expiry, or Nil
          registered, \* apps in the registry
          appCache,   \* replica -> app -> validity and expiry, or Nil
          request,    \* what each call has come to
          granted,    \* tenant -> calls that the bucket let through (history)
          late,       \* tenant -> seconds that the times given to its bucket were behind (history)
          admitted,   \* <<tenant, window>> -> events that the quota let through in time (history)
          critical,   \* tenant -> fail-closed calls handled (history)
          requests, edgeFaults

edgeVars == <<now, bucket, quota, registered, appCache, request, granted, late, admitted, critical,
              requests, edgeFaults>>

Callers == {app[1] : app \in Apps}
Windows == 0..((MaxNow + Ahead) \div Window)
Clock(r) == now + Skew[r]

\* The kinds of events that a batch may decode to.
EventKinds == {"ok", "unspecified"}

\* A request names a procedure, a key, an app and the kinds of the events
\* that its batch decodes to (Nil when it does not decode).
Request(procedure, key, app, batch) == [procedure |-> procedure, key |-> key, app |-> app, batch |-> batch]

\* What the constants are: whole tokens and seconds, clocks that differ by a
\* bounded amount, requests that name apps of tenants.
EdgeConstantsOK ==
    /\ Slots \subseteq Nat /\ IsFiniteSet(Slots)
    /\ Ahead \in Nat /\ Skew \in [Replicas -> 0..Ahead]
    /\ Rate \in Nat \ {0} /\ Capacity \in Nat /\ PerMinute \in Nat /\ Window \in Nat \ {0}
    /\ KnownAtStart \subseteq Apps /\ NoId \notin Callers
    /\ \A q \in Offered : q.app \in Apps /\ q.batch \in {Nil} \cup Seq(EventKinds)
    /\ Nil \notin [tokens : Int, ts : Int, expires : Int] \cup [n : Int, expires : Int]

NotCalled == [pc |-> "none", at |-> Nil, req |-> Nil, clock |-> 0, code |-> "none",
              accepted |-> 0, rejected |-> 0, published |-> {}]

EdgeInit ==
    /\ now = 0 /\ edgeFaults = 0
    /\ bucket = [t \in Callers |-> Nil] /\ quota = [k \in Callers \X Windows |-> Nil]
    /\ registered = KnownAtStart
    /\ appCache = [r \in Replicas |-> [a \in Apps |-> Nil]]
    /\ request = [c \in Slots |-> NotCalled]
    /\ granted = [t \in Callers |-> 0] /\ late = [t \in Callers |-> 0]
    /\ admitted = [k \in Callers \X Windows |-> 0]
    /\ critical = [t \in Callers |-> 0] /\ requests = 0

EdgeFault == edgeFaults < MaxEdgeFaults /\ edgeFaults' = edgeFaults + 1
NoEdgeFault == UNCHANGED edgeFaults

EdgeTick ==
    /\ now < MaxNow /\ now' = now + 1
    /\ UNCHANGED <<bucket, quota, registered, appCache, request, granted, late, admitted, critical, requests, edgeFaults>>

CreateApp(a) ==
    /\ a \notin registered /\ registered' = registered \cup {a}
    /\ UNCHANGED <<now, bucket, quota, appCache, request, granted, late, admitted, critical, requests, edgeFaults>>

Principals(key) == IF key = NoId THEN Nil ELSE KeyRing[key]
Answer(c, code) == request' = [request EXCEPT ![c] = [@ EXCEPT !.pc = "done", !.code = code, !.clock = 0]]
Move(c, pc) == request' = [request EXCEPT ![c] = [@ EXCEPT !.pc = pc, !.clock = 0]]

\* The chain's first part: a request arrives and is authenticated, and AllowN
\* reads the clock for the script that it is about to send.
Arrive(c, r, q) ==
    LET code == authn(q.procedure, q.key, Principals(q.key), q.app[1])
        ok == code = "ok"
    IN  /\ requests < MaxRequests /\ requests' = requests + 1
        /\ request[c].pc \in {"none", "done"} /\ \A b \in 1..(c - 1) : request[b].pc \notin {"none", "done"}
        /\ request' = [request EXCEPT ![c] = [NotCalled EXCEPT
                          !.pc = IF ok THEN "limit" ELSE "done", !.at = r, !.req = q,
                          !.clock = IF ok THEN Clock(r) ELSE 0, !.code = code]]
        /\ UNCHANGED <<now, bucket, quota, registered, appCache, granted, late, admitted, critical, edgeFaults>>

-----------------------------------------------------------------------------
(* The limiter.                                                            *)

\* Mutant: the last token of the bucket may be taken twice.
tokenBucketScriptLoose(b, clock) ==
    LET held == IF b = Nil \/ now >= b.expires THEN [tokens |-> Capacity, ts |-> clock] ELSE b
        refilled == Min({Capacity, held.tokens + Max({0, clock - held.ts}) * Rate})
    IN  [allowed |-> refilled >= 0,
         bucket |-> [tokens |-> refilled - 1, ts |-> clock, expires |-> now + (Capacity + Rate - 1) \div Rate + 1]]

\* One call of the script: refill by the caller's clock, take a token if
\* there is one, and keep the bucket for as long as it takes to fill.
tokenBucketScript(b, clock) ==
    LET held == IF b = Nil \/ now >= b.expires THEN [tokens |-> Capacity, ts |-> clock] ELSE b
        refilled == Min({Capacity, held.tokens + Max({0, clock - held.ts}) * Rate})
    IN  [allowed |-> refilled >= 1,
         bucket |-> [tokens |-> IF refilled >= 1 THEN refilled - 1 ELSE refilled, ts |-> clock,
                     expires |-> now + (Capacity + Rate - 1) \div Rate + 1]]

\* The script runs for tenant t; its time was behind by what has passed since
\* it was read, and by what the clock lacks to the fastest one.
RunBucket(t, clock) ==
    /\ bucket' = [bucket EXCEPT ![t] = tokenBucketScript(bucket[t], clock).bucket]
    /\ late' = [late EXCEPT ![t] = @ + (now + Ahead - clock)]

\* Only a procedure marked fail-closed is refused.
LimiterFails(c) ==
    IF policyFor(request[c].req.procedure).failClosed THEN Answer(c, "resource_exhausted") ELSE Move(c, "handle")

\* Redis fails before the script has run, or its answer is lost.
rateLimit(c) ==
    LET t == Principals(request[c].req.key).tenant
        clock == request[c].clock
        allowed == tokenBucketScript(bucket[t], clock).allowed
    IN  /\ request[c].pc = "limit"
        /\ \/ /\ RunBucket(t, clock)
              /\ granted' = IF allowed THEN [granted EXCEPT ![t] = @ + 1] ELSE granted
              /\ IF allowed THEN Move(c, "handle") ELSE Answer(c, "resource_exhausted")
              /\ NoEdgeFault
           \/ /\ EdgeFault /\ LimiterFails(c) /\ UNCHANGED granted
              /\ UNCHANGED <<bucket, late>> \/ RunBucket(t, clock)
        /\ UNCHANGED <<now, quota, registered, appCache, admitted, critical, requests>>

-----------------------------------------------------------------------------
(* SubmitTelemetry.                                                        *)

Reject(c, code, n) ==
    request' = [request EXCEPT ![c] = [@ EXCEPT !.pc = "done", !.code = code, !.clock = 0, !.rejected = n]]

\* The live entry of the app, if the cache has one.
Cached(r, a) == IF appCache[r][a] # Nil /\ Clock(r) < appCache[r][a].expires THEN appCache[r][a] ELSE Nil

\* Any other procedure's handler is reached and answers; a cached app is known
\* or refused at once; a miss goes to the registry without the lock.
Valid(c) ==
    LET r == request[c].at
        q == request[c].req
    IN  /\ request[c].pc = "handle"
        /\ IF q.procedure # "SubmitTelemetry" THEN Answer(c, "ok")
           ELSE IF ~EnforceTenant(Principals(q.key), q.app[1]) THEN Answer(c, "unauthenticated")
           ELSE IF Cached(r, q.app) = Nil THEN Move(c, "lookup")
           ELSE IF Cached(r, q.app).valid THEN Move(c, "decode") ELSE Reject(c, "unknown_app", 1)
        /\ critical' = IF policyFor(q.procedure).failClosed THEN [critical EXCEPT ![Principals(q.key).tenant] = @ + 1] ELSE critical
        /\ UNCHANGED <<now, bucket, quota, registered, appCache, granted, late, admitted, requests, edgeFaults>>

\* GetApp's answer; it is cached under the lock, later.
GetApp(c) ==
    /\ request[c].pc = "lookup"
    /\ \/ NoEdgeFault /\ Move(c, IF request[c].req.app \in registered THEN "found" ELSE "missing")
       \/ EdgeFault /\ Answer(c, "internal")
    /\ UNCHANGED <<now, bucket, quota, registered, appCache, granted, late, admitted, critical, requests>>

\* Over the cap the expired go first, then any others, never the new one.
put(c) ==
    LET r == request[c].at
        a == request[c].req.app
        valid == request[c].pc = "found"
        filled == [appCache[r] EXCEPT ![a] = [valid |-> valid, expires |-> Clock(r) + (IF valid THEN AppTTL ELSE NegTTL)]]
        held == {b \in Apps : filled[b] # Nil}
        live == {b \in held : b = a \/ Clock(r) < filled[b].expires}
    IN  \E keep \in SUBSET held :
            /\ a \in keep
            /\ IF Cardinality(held) <= MaxEntries THEN keep = held
               ELSE keep \subseteq live /\ Cardinality(keep) = Min({MaxEntries, Cardinality(live)})
            /\ appCache' = [appCache EXCEPT ![r] = [b \in Apps |-> IF b \in keep THEN filled[b] ELSE Nil]]

Remember(c) ==
    /\ request[c].pc \in {"found", "missing"}
    /\ put(c)
    /\ IF request[c].pc = "found" THEN Move(c, "decode") ELSE Reject(c, "unknown_app", 1)
    /\ UNCHANGED <<now, bucket, quota, registered, granted, late, admitted, critical, requests, edgeFaults>>

\* The window of tenant and time that a batch is charged to.
WindowOf(c) == <<request[c].req.app[1], request[c].clock \div Window>>

\* A batch that does not decode counts as one rejection, an empty one as
\* none; for any other one Allow reads the clock.
decompress(c) ==
    LET b == request[c].req.batch
    IN  /\ request[c].pc = "decode"
        /\ \/ b = Nil /\ Reject(c, "undecodable", 1)
           \/ b = <<>> /\ Answer(c, "ok")
           \/ b \notin {Nil, <<>>} /\ request' = [request EXCEPT ![c] = [@ EXCEPT !.pc = "quota", !.clock = Clock(request[c].at)]]
        /\ UNCHANGED <<now, bucket, quota, registered, appCache, granted, late, admitted, critical, requests, edgeFaults>>

\* One call of the script: the batch fits the window's budget as a whole or
\* not at all; the counter lives a second longer than the window.
quotaScript(k, cost) ==
    LET current == IF quota[k] = Nil \/ now >= quota[k].expires THEN 0 ELSE quota[k].n
    IN  [fits |-> current + cost <= PerMinute,
         entry |-> [n |-> current + cost, expires |-> IF current = 0 THEN now + Window + 1 ELSE quota[k].expires]]

\* The script still runs in its window, or in the second after it.
InTime(k) == now + Ahead <= (k[2] + 1) * Window

\* The quota is charged for the whole batch; when Redis fails the batch goes
\* on, charged or not.
Allow(c) ==
    LET k == WindowOf(c)
        cost == Len(request[c].req.batch)
        res == quotaScript(k, cost)
    IN  /\ request[c].pc = "quota"
        /\ \/ /\ res.fits /\ Move(c, "publish") /\ NoEdgeFault
              /\ quota' = [quota EXCEPT ![k] = res.entry]
              /\ admitted' = IF InTime(k) THEN [admitted EXCEPT ![k] = @ + cost] ELSE admitted
           \/ ~res.fits /\ Reject(c, "quota_exceeded", cost) /\ NoEdgeFault /\ UNCHANGED <<quota, admitted>>
           \/ /\ EdgeFault /\ Move(c, "publish") /\ UNCHANGED admitted
              /\ UNCHANGED quota \/ (res.fits /\ quota' = [quota EXCEPT ![k] = res.entry])
        /\ UNCHANGED <<now, bucket, registered, appCache, granted, late, critical, requests>>

\* Mutant: an event that the broker sheds counts as accepted.
SubmitTelemetryShed(c) ==
    LET b == request[c].req.batch
        fit == {i \in DOMAIN b : b[i] # "unspecified"}
    IN  /\ request[c].pc = "publish"
        /\ \E sent \in SUBSET fit :
             request' = [request EXCEPT ![c] = [@ EXCEPT !.pc = "done", !.published = sent,
                            !.accepted = Cardinality(fit), !.rejected = Cardinality(DOMAIN b \ fit)]]
        /\ UNCHANGED <<now, bucket, quota, registered, appCache, granted, late, admitted, critical, requests, edgeFaults>>

\* Each event by itself: without a type it is rejected, and so it is when
\* the broker sheds it; the quota is not given back.
SubmitTelemetry(c) ==
    LET b == request[c].req.batch
        fit == {i \in DOMAIN b : b[i] # "unspecified"}
    IN  /\ request[c].pc = "publish"
        /\ \E sent \in SUBSET fit :
             request' = [request EXCEPT ![c] = [@ EXCEPT !.pc = "done", !.published = sent,
                            !.accepted = Cardinality(sent), !.rejected = Cardinality(DOMAIN b \ sent)]]
        /\ UNCHANGED <<now, bucket, quota, registered, appCache, granted, late, admitted, critical, requests, edgeFaults>>

-----------------------------------------------------------------------------

Step(c) == \/ rateLimit(c) \/ Valid(c) \/ GetApp(c) \/ Remember(c)
           \/ decompress(c) \/ Allow(c) \/ SubmitTelemetry(c)

EdgeNext ==
    \/ EdgeTick
    \/ \E a \in Apps : CreateApp(a)
    \/ \E c \in Slots, r \in Replicas, q \in Offered : Arrive(c, r, q)
    \/ \E c \in Slots : Step(c)

EdgeSpec == EdgeInit /\ [][EdgeNext]_edgeVars

-----------------------------------------------------------------------------

\* However the calls of a tenant spread over replicas and time, the bucket
\* lets through its capacity, what the elapsed seconds refill, and what a
\* script that ran behind lets it refill again: a time that is behind sets the
\* bucket back, so that seconds already counted are counted once more.
RateBound == \A t \in Callers : granted[t] <= Capacity + Rate * (now + late[t])

\* A fail-closed procedure is answered only within the bucket, though Redis
\* may fail at any call: no outage opens the trust path.
FailClosedHeld == \A t \in Callers : critical[t] <= granted[t]

\* Of the batches that the quota weighed in time, those let through in one
\* window of a tenant stay within the budget: the counter outlives its window,
\* whichever replica has started it.
QuotaHeld == \A k \in Callers \X Windows : admitted[k] <= PerMinute

\* The limits of the edge hold: the bucket lets through its capacity and what
\* time refills, a window of batches stays within its budget, and an outage of
\* Redis opens no fail-closed procedure (tokenBucketScript, quotaScript, rateLimit).
LimitsHeld == RateBound /\ QuotaHeld /\ FailClosedHeld

\* An answered batch is accounted for event by event: what it reports as
\* accepted was published and what it reports as rejected was not.
AnsweredInFull == \A c \in Slots :
    request[c].pc = "done" /\ request[c].req.procedure = "SubmitTelemetry" /\ request[c].code = "ok" =>
        /\ request[c].accepted = Cardinality(request[c].published)
        /\ request[c].accepted + request[c].rejected = Len(request[c].req.batch)

\* What reaches the broker names the caller's own tenant and an app that the
\* tenant registered, whatever the caches of the replicas remember.
PublishedForCaller == \A c \in Slots : request[c].published # {} =>
    request[c].req.app \in registered /\ request[c].req.app[1] = KeyRing[request[c].req.key].tenant

\* A batch is answered event by event with what was done, and what is published
\* names the caller's tenant and a registered app (SubmitTelemetry, CachedAppValidator.Valid).
BatchAnswered == AnsweredInFull /\ PublishedForCaller
=============================================================================
