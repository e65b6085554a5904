------------------------------ MODULE EdgeProofs ------------------------------
(***************************************************************************)
(* Proofs that the limits of the edge hold and that batches are answered   *)
(* with what was done, for any rate, capacity, budget and window, any      *)
(* number of replicas whose clocks differ by a bounded amount, scripts     *)
(* that run late and out of order, and any failures of Redis and registry. *)
(***************************************************************************)
EXTENDS Edge, FiniteSetTheorems, TLAPS

\* The answers that a call may be given, and how far it may have come.
Codes == {"none", "ok", "permission_denied", "unauthenticated", "resource_exhausted",
          "unknown_app", "undecodable", "quota_exceeded", "internal"}
Stages == {"none", "limit", "handle", "lookup", "found", "missing", "decode", "quota", "publish", "done"}

CallShape == [pc : Stages, at : {Nil} \cup Replicas, req : {Nil} \cup Offered, clock : Nat, code : Codes,
              accepted : Nat, rejected : Nat, published : SUBSET Nat]

\* What is known of a call: the time it carries is no later than the fastest
\* clock, past the guard it names its own tenant, past the cache a registered
\* app, and what it answers is what it published.
CallOK(d) ==
    /\ d.pc # "none" => d.at \in Replicas /\ d.req \in Offered
    /\ d.pc \in {"limit", "quota"} => d.clock \in 0..(now + Ahead)
    /\ d.pc # "done" => d.accepted = 0 /\ d.rejected = 0 /\ d.published = {}
    /\ d.pc \in {"lookup", "found", "missing", "decode", "quota", "publish"} =>
           EnforceTenant(Principals(d.req.key), d.req.app[1])
    /\ d.pc \in {"found", "decode", "quota", "publish"} => d.req.app \in registered
    /\ d.pc \in {"quota", "publish"} => d.req.batch \in Seq(EventKinds) \ {<<>>}
    /\ d.pc = "done" /\ d.req.procedure = "SubmitTelemetry" /\ d.code = "ok" =>
           /\ d.accepted = Cardinality(d.published)
           /\ d.accepted + d.rejected = Len(d.req.batch)
    /\ d.published # {} => d.req.app \in registered /\ d.req.app[1] = KeyRing[d.req.key].tenant

\* The seconds that an empty bucket takes to fill.
Fill == (Capacity + Rate - 1) \div Rate

\* A bucket b that has let g calls through, of times that were l behind: what it
\* has let through and what it still holds was there at the start or has been
\* refilled, and it is kept until time alone would have filled it.
BucketOK(b, g, l) ==
    \/ b = Nil /\ g = 0
    \/ /\ b # Nil /\ b \in [tokens : Nat, ts : Int, expires : Int]
       /\ b.ts <= now + Ahead /\ b.ts + Fill + 1 <= b.expires + Ahead
       /\ g + b.tokens <= Capacity + Rate * (b.ts - Ahead + l)

\* The counter e of window w, m events of which were admitted in time: it has
\* counted them all as long as a batch may still come in time.
QuotaOK(e, m, w) ==
    /\ m <= PerMinute
    /\ \/ e = Nil /\ m = 0
       \/ /\ e # Nil /\ e \in [n : Nat, expires : Int] /\ e.n <= PerMinute
          /\ (w + 1) * Window < e.expires + Ahead
          /\ now + Ahead <= (w + 1) * Window => m <= e.n

\* The calls of tenant t that the limiter has let through to a fail-closed
\* procedure and that are yet to be handled.
Awaits(d, t) ==
    /\ d.pc = "handle" /\ Principals(d.req.key).tenant = t
    /\ policyFor(d.req.procedure).failClosed
Awaiting(t) == {c \in Slots : Awaits(request[c], t)}

EdgeTyped ==
    /\ now \in Nat /\ registered \subseteq Apps
    /\ DOMAIN bucket = Callers /\ granted \in [Callers -> Nat] /\ late \in [Callers -> Nat] /\ critical \in [Callers -> Nat]
    /\ DOMAIN quota = Callers \X Windows /\ admitted \in [Callers \X Windows -> Nat]
    /\ DOMAIN appCache = Replicas /\ \A r \in Replicas : DOMAIN appCache[r] = Apps
    /\ request \in [Slots -> CallShape]

CallsSound == \A c \in Slots : CallOK(request[c])
AppsSound == \A r \in Replicas, a \in Apps : appCache[r][a] # Nil /\ appCache[r][a].valid => a \in registered
BucketsSound == \A t \in Callers : BucketOK(bucket[t], granted[t], late[t])
CountersSound == \A t \in Callers, w \in Windows : QuotaOK(quota[<<t, w>>], admitted[<<t, w>>], w)
AwaitSound == \A t \in Callers : critical[t] + Cardinality(Awaiting(t)) <= granted[t]

\* The inductive invariant of the edge.
EdgeInv == EdgeTyped /\ CallsSound /\ AppsSound /\ BucketsSound /\ CountersSound /\ AwaitSound

\* Rounded down division (the window of a time).
LEMMA DivFloor == ASSUME NEW x \in Nat, NEW d \in Nat \ {0} PROVE x \div d \in Int /\ d * (x \div d) <= x /\ x < d * (x \div d) + d
  BY SMT

\* An empty bucket is full once Fill seconds have passed.
LEMMA FillFills == ASSUME NEW x \in Nat, NEW d \in Nat \ {0} PROVE (x + d - 1) \div d \in Nat /\ x <= d * ((x + d - 1) \div d)
  BY SMT

\* The lesser of two numbers is one of them, and no more than either.
LEMMA MinOfTwo == ASSUME NEW x \in Int, NEW y \in Int PROVE Min({x, y}) \in {x, y} /\ Min({x, y}) <= x /\ Min({x, y}) <= y
  BY SMT DEF Min

\* A difference cut off at zero (the seconds that a script refills for).
LEMMA AtLeastZero == ASSUME NEW y \in Int PROVE Max({0, y}) \in {0, y} /\ Max({0, y}) \in Nat
  BY SMT DEF Max

\* One run of the bucket's script, whatever the order that the runs come in: it
\* keeps the books of the bucket, with the call that it lets through or without
\* it, when the answer is lost (tokenBucketScript).
LEMMA BucketRuns ==
  ASSUME EdgeConstantsOK, now \in Nat, NEW g \in Nat, NEW l \in Nat, NEW b, BucketOK(b, g, l),
         NEW x \in Int, x <= now + Ahead
  PROVE  /\ BucketOK(tokenBucketScript(b, x).bucket, g, l + (now + Ahead - x))
         /\ tokenBucketScript(b, x).allowed =>
                BucketOK(tokenBucketScript(b, x).bucket, g + 1, l + (now + Ahead - x))
<1> DEFINE held == IF b = Nil \/ now >= b.expires THEN [tokens |-> Capacity, ts |-> x] ELSE b
           refilled == Min({Capacity, held.tokens + Max({0, x - held.ts}) * Rate})
           kept == [tokens |-> IF refilled >= 1 THEN refilled - 1 ELSE refilled, ts |-> x,
                    expires |-> now + Fill + 1]
           l2 == l + (now + Ahead - x)
<1>1. Capacity \in Nat /\ Rate \in Nat /\ Rate # 0 /\ Ahead \in Nat
  BY DEF EdgeConstantsOK
<1>2. Fill \in Nat /\ Capacity <= Rate * Fill
  BY <1>1, FillFills, SMT DEF Fill
<1>3. /\ held.tokens \in Nat /\ held.ts \in Int
      /\ held.ts <= now + Ahead
      /\ held.tokens + Max({0, x - held.ts}) * Rate \in Nat
  <2>1. CASE b = Nil \/ now >= b.expires
    <3>1. held.tokens = Capacity /\ held.ts = x BY <2>1
    <3>2. x - held.ts = 0 BY <3>1, SMT
    <3>3. Max({0, 0}) = 0 BY AtLeastZero, SMT
    <3> HIDE DEF held
    <3> QED BY <3>1, <3>2, <3>3, <1>1, SMT
  <2>2. CASE ~(b = Nil \/ now >= b.expires)
    <3>1. held = b BY <2>2
    <3>2. b.tokens \in Nat /\ b.ts \in Int /\ b.ts <= now + Ahead BY <2>2, SMT DEF BucketOK
    <3> DEFINE y == x - b.ts
    <3>4. y \in Int BY <3>2, SMT
    <3> HIDE DEF y
    <3>5. Max({0, y}) \in Nat BY <3>4, AtLeastZero, SMT
    <3>3. Max({0, x - b.ts}) \in Nat BY <3>5 DEF y
    <3> HIDE DEF held
    <3> QED BY <3>1, <3>2, <3>3, <1>1, SMT
  <2> QED BY <2>1, <2>2
<1>4. refilled \in Nat /\ refilled <= Capacity /\ refilled <= held.tokens + Max({0, x - held.ts}) * Rate
  <2> DEFINE y == held.tokens + Max({0, x - held.ts}) * Rate
  <2>1. y \in Nat BY <1>3
  <2> HIDE DEF y
  <2>2. Min({Capacity, y}) \in Nat /\ Min({Capacity, y}) <= Capacity /\ Min({Capacity, y}) <= y
    BY <2>1, <1>1, MinOfTwo, SMTT(30)
  <2> QED BY <2>2 DEF y
<1>5. g + refilled <= Capacity + Rate * (now + l)
  <2>1. CASE b = Nil
    <3>1. g = 0 BY <2>1 DEF BucketOK
    <3>2. Rate * (now + l) >= 0 BY <1>1, SMT
    <3> HIDE DEF refilled
    <3> QED BY <3>1, <3>2, <1>4, <1>1, SMT
  <2>2. CASE b # Nil
    <3>0. /\ b.tokens \in Nat /\ b.ts \in Int /\ b.expires \in Int
          /\ b.ts <= now + Ahead /\ b.ts + Fill + 1 <= b.expires + Ahead
          /\ g + b.tokens <= Capacity + Rate * (b.ts - Ahead + l)
      BY <2>2, SMT DEF BucketOK
    <3>1. CASE now >= b.expires
      <4>1. Fill <= now - b.ts + Ahead BY <3>0, <3>1, <1>1, <1>2, SMT
      <4>2. Rate * Fill <= Rate * (now - b.ts + Ahead) BY <4>1, <1>1, <1>2, <3>0, SMT
      <4>3. Rate * (now + l) = Rate * (b.ts - Ahead + l) + Rate * (now - b.ts + Ahead) BY <1>1, <3>0, SMT
      <4> HIDE DEF refilled
      <4> QED BY <4>2, <4>3, <1>1, <1>2, <1>4, <3>0, SMT
    <3>2. CASE ~(now >= b.expires)
      <4>1. held = b BY <2>2, <3>2
      <4> DEFINE more == Max({0, x - b.ts})
      <4>2. more \in Nat /\ more <= now - b.ts + Ahead
        <5> DEFINE y == x - b.ts
        <5>1. y \in Int /\ y <= now - b.ts + Ahead BY <3>0, <1>1, SMT
        <5> HIDE DEF y
        <5>2. Max({0, y}) \in Nat /\ Max({0, y}) \in {0, y} BY <5>1, AtLeastZero, SMT
        <5>3. 0 <= now - b.ts + Ahead BY <3>0, <1>1, SMT
        <5> QED BY <5>1, <5>2, <5>3 DEF y
      <4> HIDE DEF more
      <4>3. more * Rate <= Rate * (now - b.ts + Ahead) BY <4>2, <1>1, <3>0, SMT
      <4>4. Rate * (now + l) = Rate * (b.ts - Ahead + l) + Rate * (now - b.ts + Ahead) BY <1>1, <3>0, SMT
      <4>5. refilled <= b.tokens + more * Rate BY <4>1, <1>4, Zenon DEF more
      <4> HIDE DEF refilled
      <4> QED BY <4>3, <4>4, <4>5, <1>1, <1>4, <3>0, <4>2, SMT
    <3> QED BY <3>1, <3>2
  <2> QED BY <2>1, <2>2
<1>6. tokenBucketScript(b, x).bucket = kept /\ tokenBucketScript(b, x).allowed = (refilled >= 1)
  BY Zenon DEF tokenBucketScript, Fill
<1> HIDE DEF refilled
<1>7. /\ kept \in [tokens : Nat, ts : Int, expires : Int]
      /\ kept.tokens = (IF refilled >= 1 THEN refilled - 1 ELSE refilled) /\ kept.ts = x /\ kept.expires = now + Fill + 1
  BY <1>2, <1>4, SMT
<1>8. kept # Nil BY <1>7 DEF EdgeConstantsOK
<1>9. x - Ahead + l2 = now + l BY <1>1, SMT
<1> HIDE DEF kept, l2
<1>10. BucketOK(kept, g, l2)
  BY <1>1, <1>2, <1>4, <1>5, <1>7, <1>8, <1>9, SMT DEF BucketOK
<1>11. refilled >= 1 => BucketOK(kept, g + 1, l2)
  BY <1>1, <1>2, <1>4, <1>5, <1>7, <1>8, <1>9, SMT DEF BucketOK
<1> QED BY <1>6, <1>10, <1>11, Zenon DEF l2

\* One run of the quota's script, with the batch it lets through or without it,
\* when the answer is lost: a batch that comes in time finds the counter that
\* every earlier one was counted in (quotaScript).
LEMMA QuotaRuns ==
  ASSUME EdgeConstantsOK, now \in Nat, NEW k, NEW w \in Int, NEW m \in Nat, QuotaOK(quota[k], m, w),
         NEW cost \in Nat \ {0}, NEW x \in Nat, x <= now + Ahead, w = x \div Window, quotaScript(k, cost).fits
  PROVE  /\ QuotaOK(quotaScript(k, cost).entry, m, w)
         /\ now + Ahead <= (w + 1) * Window => QuotaOK(quotaScript(k, cost).entry, m + cost, w)
<1> DEFINE lapsed == quota[k] = Nil \/ now >= quota[k].expires
           current == IF lapsed THEN 0 ELSE quota[k].n
           entry == [n |-> current + cost, expires |-> IF current = 0 THEN now + Window + 1 ELSE quota[k].expires]
<1>1. Window \in Nat /\ Window # 0 /\ Ahead \in Nat /\ PerMinute \in Nat
  BY DEF EdgeConstantsOK
<1>2. w * Window <= now + Ahead /\ (w + 1) * Window = w * Window + Window
  <2>1. Window * w <= x BY <1>1, DivFloor, SMT
  <2> QED BY <2>1, <1>1, SMT
<1>3. quotaScript(k, cost).entry = entry /\ (quotaScript(k, cost).fits = (current + cost <= PerMinute))
  BY Zenon DEF quotaScript
<1>4. quota[k] # Nil => /\ quota[k].n \in Nat /\ quota[k].expires \in Int
                        /\ (w + 1) * Window < quota[k].expires + Ahead
                        /\ now + Ahead <= (w + 1) * Window => m <= quota[k].n
  BY SMT DEF QuotaOK
<1>5. current \in Nat /\ (now + Ahead <= (w + 1) * Window => m <= current)
  <2>1. CASE quota[k] = Nil
    <3>1. m = 0 BY <2>1 DEF QuotaOK
    <3> QED BY <2>1, <3>1, SMT
  <2>2. CASE quota[k] # Nil /\ now >= quota[k].expires
    <3>1. ~(now + Ahead <= (w + 1) * Window) BY <2>2, <1>1, <1>4, SMT
    <3>2. current = 0 BY <2>2
    <3> QED BY <3>1, <3>2
  <2>3. CASE quota[k] # Nil /\ ~(now >= quota[k].expires)
    <3>1. current = quota[k].n BY <2>3
    <3> QED BY <3>1, <2>3, <1>4
  <2> QED BY <2>1, <2>2, <2>3
<1>6. current # 0 => quota[k] # Nil BY SMT
<1> HIDE DEF current
<1>7. /\ entry \in [n : Nat, expires : Int] /\ entry.n = current + cost
      /\ (w + 1) * Window < entry.expires + Ahead
  <2>1. CASE current = 0
    <3>1. entry.expires = now + Window + 1 /\ entry.n = current + cost BY <2>1
    <3>2. (w + 1) * Window < entry.expires + Ahead BY <3>1, <1>1, <1>2, SMT
    <3> QED BY <2>1, <3>1, <3>2, <1>1, <1>5, SMT
  <2>2. CASE current # 0
    <3>1. entry.expires = quota[k].expires /\ entry.n = current + cost BY <2>2
    <3> QED BY <2>2, <3>1, <1>4, <1>5, <1>6, SMT
  <2> QED BY <2>1, <2>2
<1>8. entry # Nil BY <1>7 DEF EdgeConstantsOK
<1> HIDE DEF entry
<1>9. m <= PerMinute /\ current + cost <= PerMinute BY <1>3, Zenon DEF QuotaOK
<1>10. QuotaOK(entry, m, w)
  BY <1>5, <1>7, <1>8, <1>9, SMT DEF QuotaOK
<1>11. ASSUME now + Ahead <= (w + 1) * Window PROVE QuotaOK(entry, m + cost, w)
  <2>1. m <= current BY <1>5, <1>11
  <2>2. m + cost <= current + cost /\ m + cost <= PerMinute BY <2>1, <1>1, <1>5, <1>9, SMT
  <2> QED BY <2>2, <1>7, <1>8, <1>9, Zenon DEF QuotaOK
<1> QED BY <1>3, <1>10, <1>11

\* As time passes and apps are registered, a bucket, a counter and a call stay
\* as they were.
LEMMA TimePasses ==
  ASSUME EdgeConstantsOK, now \in Nat, NEW later \in Nat, now' = later, now <= later, registered \subseteq registered'
  PROVE  /\ \A b, g, l : BucketOK(b, g, l) => BucketOK(b, g, l)'
         /\ \A e, m : \A w \in Int : QuotaOK(e, m, w) => QuotaOK(e, m, w)'
         /\ \A d \in CallShape : CallOK(d) => CallOK(d)'
<1>1. Ahead \in Nat /\ Window \in Nat BY DEF EdgeConstantsOK
<1>5. ASSUME NEW y \in Int, now' + Ahead <= y PROVE now + Ahead <= y BY <1>1, <1>5, SMT
<1>2. ASSUME NEW b, NEW g, NEW l, BucketOK(b, g, l) PROVE BucketOK(b, g, l)'
  BY <1>1, <1>2, SMT DEF BucketOK
<1>3. ASSUME NEW e, NEW m, NEW w \in Int, QuotaOK(e, m, w) PROVE QuotaOK(e, m, w)'
  <2> DEFINE end == (w + 1) * Window
  <2>1. end \in Int BY <1>1, SMT
  <2> HIDE DEF end
  <2>2. now' + Ahead <= end => now + Ahead <= end BY <2>1, <1>5, Zenon
  <2> QED BY <1>3, <2>2, Zenon DEF QuotaOK, end
<1>4. ASSUME NEW d \in CallShape, CallOK(d) PROVE CallOK(d)'
  <2>1. d.clock \in Int BY DEF CallShape
  <2>2. d.clock \in 0..(now + Ahead) => d.clock \in 0..(now' + Ahead) BY <1>1, <2>1, SMT
  <2> QED BY <1>4, <2>2, Zenon DEF CallOK
<1> QED BY <1>2, <1>3, <1>4

\* A call that goes on, is answered, or is rejected (Move, Answer, Reject).
Moving(o, pc) == [o EXCEPT !.pc = pc, !.clock = 0]
Answering(o, code) == [o EXCEPT !.pc = "done", !.code = code, !.clock = 0]
Rejecting(o, code, n) == [o EXCEPT !.pc = "done", !.code = code, !.clock = 0, !.rejected = n]

\* It stays the same request on the same replica.
LEMMA MovingShape ==
  ASSUME NEW o \in CallShape, NEW pc \in Stages
  PROVE  /\ Moving(o, pc) \in CallShape
         /\ Moving(o, pc).pc = pc /\ Moving(o, pc).at = o.at /\ Moving(o, pc).req = o.req /\ Moving(o, pc).code = o.code
         /\ Moving(o, pc).accepted = o.accepted /\ Moving(o, pc).rejected = o.rejected
         /\ Moving(o, pc).published = o.published
BY Zenon DEF CallShape, Stages, Moving

\* An answer changes neither the request nor what became of its events.
LEMMA AnsweringShape ==
  ASSUME NEW o \in CallShape, NEW code \in Codes
  PROVE  /\ Answering(o, code) \in CallShape
         /\ Answering(o, code).pc = "done" /\ Answering(o, code).at = o.at /\ Answering(o, code).req = o.req
         /\ Answering(o, code).code = code /\ Answering(o, code).accepted = o.accepted
         /\ Answering(o, code).rejected = o.rejected /\ Answering(o, code).published = o.published
BY Zenon DEF CallShape, Stages, Answering

\* A refusal only adds the count of what it refuses.
LEMMA RejectingShape ==
  ASSUME NEW o \in CallShape, NEW code \in Codes, NEW m \in Nat
  PROVE  /\ Rejecting(o, code, m) \in CallShape
         /\ Rejecting(o, code, m).pc = "done" /\ Rejecting(o, code, m).at = o.at /\ Rejecting(o, code, m).req = o.req
         /\ Rejecting(o, code, m).code = code /\ Rejecting(o, code, m).published = o.published
BY Zenon DEF CallShape, Stages, Rejecting

\* What the three ways to go on do to a call (Move, Answer, Reject).
LEMMA HelpersAre ==
  ASSUME request \in [Slots -> CallShape], NEW c \in Slots
  PROVE  /\ \A pc : Move(c, pc) => request' = [request EXCEPT ![c] = Moving(request[c], pc)]
         /\ \A code : Answer(c, code) => request' = [request EXCEPT ![c] = Answering(request[c], code)]
         /\ \A code, m : Reject(c, code, m) => request' = [request EXCEPT ![c] = Rejecting(request[c], code, m)]
<1>1. ASSUME NEW pc, Move(c, pc) PROVE request' = [request EXCEPT ![c] = Moving(request[c], pc)]
  BY <1>1, Zenon DEF Move, Moving
<1>2. ASSUME NEW code, Answer(c, code) PROVE request' = [request EXCEPT ![c] = Answering(request[c], code)]
  BY <1>2, Zenon DEF Answer, Answering
<1>3. ASSUME NEW code, NEW m, Reject(c, code, m) PROVE request' = [request EXCEPT ![c] = Rejecting(request[c], code, m)]
  BY <1>3, Zenon DEF Reject, Rejecting
<1> QED BY <1>1, <1>2, <1>3

\* A step of call c alone keeps what is known of every call.
LEMMA OneCalls ==
  ASSUME request \in [Slots -> CallShape], \A o \in Slots : CallOK(request[o]), now' = now, registered' = registered,
         NEW c \in Slots, NEW n \in CallShape, CallOK(n), request' = [request EXCEPT ![c] = n]
  PROVE  /\ request' \in [Slots -> CallShape] /\ \A o \in Slots : CallOK(request[o])'
         /\ request'[c] = n /\ \A o \in Slots \ {c} : request'[o] = request[o]
<1>1. /\ request' \in [Slots -> CallShape]
      /\ request'[c] = n /\ \A o \in Slots \ {c} : request'[o] = request[o]
  OBVIOUS
<1>2. ASSUME NEW d, CallOK(d) PROVE CallOK(d)'
  BY <1>2, Zenon DEF CallOK
<1>3. \A o \in Slots : CallOK(request'[o]) BY <1>1, Zenon
<1>4. \A o \in Slots : CallOK(request[o])' BY <1>2, <1>3, Zenon
<1> QED BY <1>1, <1>4

\* Who waits for a fail-closed handler, as call c goes from one state to another.
LEMMA AwaitSame ==
  ASSUME request \in [Slots -> CallShape], NEW c \in Slots, NEW n \in CallShape, request' = [request EXCEPT ![c] = n],
         NEW t, Awaits(n, t) <=> Awaits(request[c], t)
  PROVE  Awaiting(t)' = Awaiting(t)
<1>1. request'[c] = n /\ \A o \in Slots \ {c} : request'[o] = request[o]
  OBVIOUS
<1>2. \A o \in Slots : Awaits(request'[o], t) <=> Awaits(request[o], t)
  BY <1>1, Zenon
<1>3. Awaiting(t)' = {o \in Slots : Awaits(request'[o], t)}
  BY Zenon DEF Awaiting, Awaits
<1> QED BY <1>2, <1>3 DEF Awaiting

\* One call that changes adds at most one to those that await handling.
LEMMA AwaitMore ==
  ASSUME EdgeConstantsOK, request \in [Slots -> CallShape], NEW c \in Slots, NEW n \in CallShape,
         request' = [request EXCEPT ![c] = n], NEW t
  PROVE  /\ Cardinality(Awaiting(t)) \in Nat /\ Cardinality(Awaiting(t)') \in Nat
         /\ Cardinality(Awaiting(t)') <= Cardinality(Awaiting(t)) + 1
<1>1. IsFiniteSet(Slots) BY DEF EdgeConstantsOK
<1>2. IsFiniteSet(Awaiting(t)) /\ IsFiniteSet(Awaiting(t)')
  BY <1>1, FS_Subset, Zenon DEF Awaiting
<1>3. Awaiting(t)' \subseteq Awaiting(t) \cup {c}
  <2>1. \A o \in Slots \ {c} : request'[o] = request[o] OBVIOUS
  <2>2. Awaiting(t)' = {o \in Slots : Awaits(request'[o], t)}
    BY Zenon DEF Awaiting, Awaits
  <2> QED BY <2>1, <2>2 DEF Awaiting
<1> DEFINE A == Awaiting(t)
           B == Awaiting(t)'
<1> HIDE DEF A, B
<1>4. IsFiniteSet(A \cup {c}) /\ Cardinality(A \cup {c}) = IF c \in A THEN Cardinality(A) ELSE Cardinality(A) + 1
  BY <1>2, FS_AddElement DEF A
<1>5. Cardinality(A) \in Nat /\ Cardinality(B) \in Nat
  BY <1>2, FS_CardinalityType DEF A, B
<1>6. Cardinality(B) <= Cardinality(A \cup {c})
  BY <1>3, <1>4, FS_Subset DEF A, B
<1>7. Cardinality(B) <= Cardinality(A) + 1 BY <1>4, <1>5, <1>6, SMT
<1> QED BY <1>5, <1>7 DEF A, B

\* A call that is handled awaits handling no more.
LEMMA AwaitLess ==
  ASSUME EdgeConstantsOK, request \in [Slots -> CallShape], NEW c \in Slots, NEW n \in CallShape,
         request' = [request EXCEPT ![c] = n], NEW t, Awaits(request[c], t), ~Awaits(n, t)
  PROVE  /\ Cardinality(Awaiting(t)) \in Nat /\ Cardinality(Awaiting(t)') \in Nat
         /\ Cardinality(Awaiting(t)) = Cardinality(Awaiting(t)') + 1
<1>1. IsFiniteSet(Slots) BY DEF EdgeConstantsOK
<1>2. IsFiniteSet(Awaiting(t)) /\ IsFiniteSet(Awaiting(t)')
  BY <1>1, FS_Subset, Zenon DEF Awaiting
<1>3. c \in Awaiting(t) /\ Awaiting(t)' = Awaiting(t) \ {c}
  <2>1. request'[c] = n /\ \A o \in Slots \ {c} : request'[o] = request[o] OBVIOUS
  <2>2. Awaiting(t)' = {o \in Slots : Awaits(request'[o], t)}
    BY Zenon DEF Awaiting, Awaits
  <2> QED BY <2>1, <2>2 DEF Awaiting
<1> DEFINE A == Awaiting(t)
           B == Awaiting(t)'
<1> HIDE DEF A, B
<1>4. Cardinality(A \ {c}) = IF c \in A THEN Cardinality(A) - 1 ELSE Cardinality(A)
  BY <1>2, FS_RemoveElement, Zenon DEF A
<1>5. Cardinality(A) \in Nat /\ Cardinality(B) \in Nat
  BY <1>2, FS_CardinalityType DEF A, B
<1>6. B = A \ {c} /\ c \in A BY <1>3 DEF A, B
<1>7. Cardinality(A) = Cardinality(B) + 1 BY <1>4, <1>5, <1>6, SMT
<1> QED BY <1>5, <1>7 DEF A, B

\* What a call must know to go on, to be answered, and to be rejected.
LEMMA MovesOK ==
  ASSUME NEW o \in CallShape, CallOK(o), o.pc \notin {"none", "done"},
         NEW pc \in {"handle", "lookup", "found", "missing", "decode", "publish"},
         pc # "handle" => EnforceTenant(Principals(o.req.key), o.req.app[1]),
         pc \in {"found", "decode", "publish"} => o.req.app \in registered,
         pc = "publish" => o.req.batch \in Seq(EventKinds) \ {<<>>}
  PROVE  Moving(o, pc) \in CallShape /\ CallOK(Moving(o, pc)) /\ Moving(o, pc).pc = pc /\ Moving(o, pc).req = o.req
<1> DEFINE n == Moving(o, pc)
<1>1. pc \in Stages BY DEF Stages
<1>2. /\ n \in CallShape /\ n.pc = pc /\ n.at = o.at /\ n.req = o.req
      /\ n.accepted = o.accepted /\ n.rejected = o.rejected /\ n.published = o.published
  BY <1>1, MovingShape
<1>3. o.at \in Replicas /\ o.req \in Offered /\ o.accepted = 0 /\ o.rejected = 0 /\ o.published = {}
  BY DEF CallOK
<1> HIDE DEF n
<1>4. CallOK(n)
  BY <1>2, <1>3 DEF CallOK
<1> QED BY <1>2, <1>4 DEF n

\* An answer other than to a batch, or to an empty one, has nothing to account for.
LEMMA AnswersOK ==
  ASSUME NEW o \in CallShape, CallOK(o), o.pc \notin {"none", "done"}, NEW code \in Codes,
         code = "ok" => o.req.procedure # "SubmitTelemetry" \/ o.req.batch = <<>>
  PROVE  Answering(o, code) \in CallShape /\ CallOK(Answering(o, code)) /\ Answering(o, code).pc = "done"
<1> DEFINE n == Answering(o, code)
<1>1. /\ n \in CallShape /\ n.pc = "done" /\ n.at = o.at /\ n.req = o.req /\ n.code = code
      /\ n.accepted = o.accepted /\ n.rejected = o.rejected /\ n.published = o.published
  BY AnsweringShape
<1>2. o.at \in Replicas /\ o.req \in Offered /\ o.accepted = 0 /\ o.rejected = 0 /\ o.published = {}
  BY DEF CallOK
<1>3. Cardinality({}) = 0 /\ Len(<<>>) = 0 /\ 0 + 0 = 0 BY FS_EmptySet
<1> HIDE DEF n
<1>4. n.code = "ok" /\ n.req.procedure = "SubmitTelemetry" =>
          n.accepted = Cardinality(n.published) /\ n.accepted + n.rejected = Len(n.req.batch)
  BY <1>1, <1>2, <1>3, Zenon
<1>5. CallOK(n)
  BY <1>1, <1>2, <1>4 DEF CallOK
<1> QED BY <1>1, <1>5 DEF n

\* A refused call has published nothing.
LEMMA RejectsOK ==
  ASSUME NEW o \in CallShape, CallOK(o), o.pc \notin {"none", "done"}, NEW code \in Codes, code # "ok", NEW m \in Nat
  PROVE  Rejecting(o, code, m) \in CallShape /\ CallOK(Rejecting(o, code, m)) /\ Rejecting(o, code, m).pc = "done"
<1> DEFINE n == Rejecting(o, code, m)
<1>1. /\ n \in CallShape /\ n.pc = "done" /\ n.at = o.at /\ n.req = o.req /\ n.code = code /\ n.published = o.published
  BY RejectingShape
<1>2. o.at \in Replicas /\ o.req \in Offered /\ o.published = {}
  BY DEF CallOK
<1> HIDE DEF n
<1>3. CallOK(n)
  BY <1>1, <1>2 DEF CallOK
<1> QED BY <1>1, <1>3 DEF n

\* What a step leaves alone stays as it was.
LEMMA BucketsKept ==
  ASSUME BucketsSound, now' = now, bucket' = bucket, granted' = granted, late' = late
  PROVE  BucketsSound'
  BY Zenon DEF BucketsSound, BucketOK

\* A step that touches neither the counters nor the time keeps their books.
LEMMA CountersKept ==
  ASSUME CountersSound, now' = now, quota' = quota, admitted' = admitted
  PROVE  CountersSound'
  BY Zenon DEF CountersSound, QuotaOK

\* A step of a call that neither awaits handling nor will.
LEMMA AwaitKept ==
  ASSUME AwaitSound, critical' = critical, granted' = granted, request \in [Slots -> CallShape],
         NEW c \in Slots, NEW n \in CallShape, request' = [request EXCEPT ![c] = n], n.pc # "handle", request[c].pc # "handle"
  PROVE  AwaitSound'
<1>1. \A t : ~Awaits(n, t) /\ ~Awaits(request[c], t) BY Zenon DEF Awaits
<1>2. \A t : Awaiting(t)' = Awaiting(t) BY <1>1, AwaitSame, Zenon
<1> QED BY <1>2, Zenon DEF AwaitSound

\* A step of one call that touches neither the limiter's nor the quota's state,
\* and lets nothing through to a fail-closed handler.
LEMMA OneKeeps ==
  ASSUME EdgeInv, now' = now, registered' = registered, appCache' = appCache, bucket' = bucket, granted' = granted,
         late' = late, quota' = quota, admitted' = admitted, critical' = critical,
         NEW c \in Slots, NEW n \in CallShape, CallOK(n), request' = [request EXCEPT ![c] = n],
         n.pc # "handle", request[c].pc # "handle"
  PROVE  EdgeInv'
<1>1. request \in [Slots -> CallShape] /\ CallsSound /\ AppsSound /\ BucketsSound /\ CountersSound /\ AwaitSound
  BY DEF EdgeInv, EdgeTyped
<1>2. request' \in [Slots -> CallShape] /\ CallsSound'
  BY <1>1, OneCalls, Zenon DEF CallsSound
<1>3. BucketsSound' /\ CountersSound' /\ AwaitSound'
  BY <1>1, BucketsKept, CountersKept, AwaitKept, Zenon
<1>4. EdgeTyped' BY <1>2, Zenon DEF EdgeInv, EdgeTyped
<1>5. AppsSound' BY <1>1, Zenon DEF AppsSound
<1> QED BY <1>2, <1>3, <1>4, <1>5, Zenon DEF EdgeInv

\* The chain answers with one of its codes (authn).
LEMMA AuthnCodes == ASSUME NEW p, NEW k, NEW pr, NEW b PROVE authn(p, k, pr, b) \in Codes
  BY DEF authn, Codes

\* Nothing has happened yet.
LEMMA EdgeStart == ASSUME EdgeConstantsOK, EdgeInit PROVE EdgeInv
<1>1. Capacity \in Nat /\ Rate \in Nat /\ PerMinute \in Nat BY ZenonT(40) DEF EdgeConstantsOK
<1>2. NotCalled \in CallShape /\ CallOK(NotCalled) /\ NotCalled.pc = "none"
  BY ZenonT(40) DEF NotCalled, CallShape, CallOK, Stages, Codes
<1>3. EdgeTyped
  <2>1. now \in Nat /\ registered \subseteq Apps BY DEF EdgeInit, EdgeConstantsOK
  <2>2. DOMAIN bucket = Callers /\ granted \in [Callers -> Nat] /\ late \in [Callers -> Nat] /\ critical \in [Callers -> Nat]
    BY DEF EdgeInit
  <2>3. DOMAIN quota = Callers \X Windows /\ admitted \in [Callers \X Windows -> Nat] BY DEF EdgeInit
  <2>4. DOMAIN appCache = Replicas /\ \A r \in Replicas : DOMAIN appCache[r] = Apps BY DEF EdgeInit
  <2>5. request \in [Slots -> CallShape] BY <1>2 DEF EdgeInit
  <2> QED BY <2>1, <2>2, <2>3, <2>4, <2>5 DEF EdgeTyped
<1>4. CallsSound BY <1>2, SMT DEF EdgeInit, CallsSound
<1>5. AppsSound BY SMT DEF EdgeInit, AppsSound
<1>6. BucketsSound BY SMT DEF EdgeInit, BucketsSound, BucketOK
<1>7. CountersSound
  <2>1. \A k \in Callers \X Windows : quota[k] = Nil /\ admitted[k] = 0 BY SMT DEF EdgeInit
  <2>2. \A t \in Callers, w \in Windows : quota[<<t, w>>] = Nil /\ admitted[<<t, w>>] = 0 BY <2>1
  <2>3. 0 <= PerMinute BY <1>1
  <2> QED BY <2>2, <2>3, Zenon DEF CountersSound, QuotaOK
<1>8. AwaitSound
  <2>1. \A t : Awaiting(t) = {} BY <1>2, SMT DEF EdgeInit, Awaiting, Awaits
  <2>2. Cardinality({}) = 0 BY FS_EmptySet
  <2>3. \A t \in Callers : critical[t] = 0 /\ granted[t] = 0 BY SMT DEF EdgeInit
  <2>4. 0 + 0 <= 0 OBVIOUS
  <2> QED BY <2>1, <2>2, <2>3, <2>4, Zenon DEF AwaitSound
<1> QED BY <1>3, <1>4, <1>5, <1>6, <1>7, <1>8 DEF EdgeInv

\* Time passes, or an app is registered (CreateApp).
LEMMA OthersKeep ==
  ASSUME EdgeConstantsOK, EdgeInv, NEW later \in Nat, now' = later, now <= later,
         registered \subseteq registered', registered' \subseteq Apps,
         bucket' = bucket, quota' = quota, appCache' = appCache, request' = request, granted' = granted,
         late' = late, admitted' = admitted, critical' = critical
  PROVE  EdgeInv'
<1>1. now \in Nat /\ request \in [Slots -> CallShape] BY DEF EdgeInv, EdgeTyped
<1>2. /\ \A b, g, l : BucketOK(b, g, l) => BucketOK(b, g, l)'
      /\ \A e, m : \A w \in Int : QuotaOK(e, m, w) => QuotaOK(e, m, w)'
      /\ \A d \in CallShape : CallOK(d) => CallOK(d)'
  BY <1>1, TimePasses, Zenon
<1>3. EdgeTyped' BY SMT DEF EdgeInv, EdgeTyped
<1>4. CallsSound'
  <2>1. \A c \in Slots : request[c] \in CallShape /\ CallOK(request[c]) BY <1>1, Zenon DEF EdgeInv, CallsSound
  <2> QED BY <1>2, <2>1, Zenon DEF CallsSound
<1>5. AppsSound' BY Zenon DEF EdgeInv, AppsSound
<1>6. BucketsSound' BY <1>2, Zenon DEF EdgeInv, BucketsSound
<1>7. CountersSound'
  <2>1. \A w \in Windows : w \in Int BY DEF Windows
  <2> QED BY <1>2, <2>1, Zenon DEF EdgeInv, CountersSound
<1>8. AwaitSound'
  <2>1. \A t : Awaiting(t)' = Awaiting(t) BY Zenon DEF Awaiting, Awaits
  <2> QED BY <2>1, Zenon DEF EdgeInv, AwaitSound
<1> QED BY <1>3, <1>4, <1>5, <1>6, <1>7, <1>8 DEF EdgeInv

\* A clock is at most Ahead of the time of Redis.
LEMMA ClockBound ==
  ASSUME EdgeConstantsOK, now \in Nat, NEW r \in Replicas
  PROVE  Clock(r) \in Nat /\ Clock(r) \in 0..(now + Ahead)
<1>1. Skew[r] \in 0..Ahead /\ Ahead \in Nat BY DEF EdgeConstantsOK
<1> QED BY <1>1, SMT DEF Clock

\* A call that arrives carries the time of its replica, or is answered at once (Arrive, authn).
LEMMA ArriveKeeps ==
  ASSUME EdgeConstantsOK, EdgeInv, NEW c \in Slots, NEW r \in Replicas, NEW q \in Offered, Arrive(c, r, q)
  PROVE  EdgeInv'
<1> DEFINE code == authn(q.procedure, q.key, Principals(q.key), q.app[1])
           ok == code = "ok"
           clock == IF ok THEN Clock(r) ELSE 0
           pc == IF ok THEN "limit" ELSE "done"
           n == [NotCalled EXCEPT !.pc = pc, !.at = r, !.req = q, !.clock = clock, !.code = code]
<1>1. code \in Codes BY AuthnCodes
<1>2. now \in Nat /\ request \in [Slots -> CallShape] BY DEF EdgeInv, EdgeTyped
<1>3. clock \in Nat /\ (ok => clock \in 0..(now + Ahead)) BY <1>2, ClockBound
<1>4. pc \in {"limit", "done"} /\ (pc = "done" => code # "ok") /\ (pc = "limit" => ok) OBVIOUS
<1>5. /\ request' = [request EXCEPT ![c] = n] /\ request[c].pc \in {"none", "done"}
      /\ now' = now /\ registered' = registered /\ appCache' = appCache /\ bucket' = bucket /\ granted' = granted
      /\ late' = late /\ quota' = quota /\ admitted' = admitted /\ critical' = critical
  BY Zenon DEF Arrive
<1> HIDE DEF code, ok, clock, pc
<1>6. /\ n \in CallShape /\ n.pc = pc /\ n.at = r /\ n.req = q /\ n.clock = clock /\ n.code = code
      /\ n.accepted = 0 /\ n.rejected = 0 /\ n.published = {}
  BY <1>1, <1>3, <1>4, ZenonT(40) DEF NotCalled, CallShape, Stages
<1> HIDE DEF n
<1>7. CallOK(n) BY <1>3, <1>4, <1>6 DEF CallOK
<1> QED BY <1>4, <1>5, <1>6, <1>7, OneKeeps, Zenon

\* The bucket of t after a run of the script, for which the call is let through
\* or not (RunBucket).
LEMMA RunKeeps ==
  ASSUME EdgeConstantsOK, EdgeTyped, BucketsSound, now' = now, NEW t, NEW x \in Nat, x <= now + Ahead, RunBucket(t, x),
         \/ granted' = granted
         \/ tokenBucketScript(bucket[t], x).allowed /\ granted' = [granted EXCEPT ![t] = @ + 1]
  PROVE  BucketsSound' /\ DOMAIN bucket' = Callers /\ late' \in [Callers -> Nat] /\ granted' \in [Callers -> Nat]
<1> DEFINE new == tokenBucketScript(bucket[t], x).bucket
           more == now + Ahead - x
<1>1. /\ now \in Nat /\ Ahead \in Nat /\ DOMAIN bucket = Callers
      /\ granted \in [Callers -> Nat] /\ late \in [Callers -> Nat]
  BY DEF EdgeTyped, EdgeConstantsOK
<1>2. more \in Nat BY <1>1, SMT
<1>3. bucket' = [bucket EXCEPT ![t] = new] /\ late' = [late EXCEPT ![t] = @ + more]
  BY Zenon DEF RunBucket
<1>4. ASSUME t \in Callers
      PROVE  /\ BucketOK(new, granted[t], late[t] + more)
             /\ tokenBucketScript(bucket[t], x).allowed => BucketOK(new, granted[t] + 1, late[t] + more)
  <2>1. granted[t] \in Nat /\ late[t] \in Nat /\ BucketOK(bucket[t], granted[t], late[t]) /\ x \in Int
    BY <1>1, <1>4 DEF BucketsSound
  <2> QED BY <1>1, <2>1, BucketRuns, Zenon
<1> HIDE DEF new, more
<1>5. DOMAIN bucket' = Callers /\ late' \in [Callers -> Nat] /\ granted' \in [Callers -> Nat]
  <2>1. DOMAIN bucket' = Callers BY <1>1, <1>3
  <2>2. ASSUME NEW f \in [Callers -> Nat], NEW i \in Nat PROVE [f EXCEPT ![t] = @ + i] \in [Callers -> Nat]
    <3>1. CASE t \in Callers
      <4>1. f[t] + i \in Nat BY <3>1
      <4> QED BY <4>1, Zenon
    <3>2. CASE t \notin Callers
      <4>1. [f EXCEPT ![t] = @ + i] = f BY <3>2
      <4> QED BY <4>1, Zenon
    <3> QED BY <3>1, <3>2
  <2>3. late' \in [Callers -> Nat] BY <1>1, <1>2, <1>3, <2>2
  <2>4. [granted EXCEPT ![t] = @ + 1] \in [Callers -> Nat] BY <1>1, <2>2
  <2> QED BY <1>1, <2>1, <2>3, <2>4
<1>6. ASSUME NEW u \in Callers PROVE BucketOK(bucket'[u], granted'[u], late'[u])
  <2>1. CASE u = t
    <3>1. bucket'[u] = new /\ late'[u] = late[t] + more BY <1>1, <1>3, <2>1
    <3>2. granted'[u] = granted[t] \/ (tokenBucketScript(bucket[t], x).allowed /\ granted'[u] = granted[t] + 1)
      BY <1>1, <2>1
    <3> QED BY <1>4, <2>1, <3>1, <3>2, Zenon
  <2>2. CASE u # t
    <3>1. bucket'[u] = bucket[u] /\ late'[u] = late[u] /\ granted'[u] = granted[u] BY <1>1, <1>3, <2>2
    <3> QED BY <3>1, Zenon DEF BucketsSound
  <2> QED BY <2>1, <2>2
<1>7. ASSUME NEW b, NEW g, NEW l, BucketOK(b, g, l) PROVE BucketOK(b, g, l)'
  BY <1>7, Zenon DEF BucketOK
<1>8. BucketsSound' BY <1>6, <1>7, Zenon DEF BucketsSound
<1> QED BY <1>5, <1>8

\* A call that the limiter lets through is counted in its bucket; one that it
\* lets through without having asked Redis is not fail-closed (rateLimit).
LEMMA LimitKeeps == ASSUME EdgeConstantsOK, EdgeInv, NEW c \in Slots, rateLimit(c) PROVE EdgeInv'
<1> DEFINE o == request[c]
           t == Principals(o.req.key).tenant
           allowed == tokenBucketScript(bucket[t], o.clock).allowed
           closed == policyFor(o.req.procedure).failClosed
<1>1. /\ EdgeTyped /\ CallsSound /\ AppsSound /\ BucketsSound /\ CountersSound /\ AwaitSound
      /\ request \in [Slots -> CallShape]
  BY DEF EdgeInv, EdgeTyped
<1>2. /\ o \in CallShape /\ CallOK(o) /\ o.pc = "limit"
      /\ now' = now /\ quota' = quota /\ registered' = registered /\ appCache' = appCache /\ admitted' = admitted
      /\ critical' = critical
  BY <1>1, Zenon DEF CallsSound, rateLimit
<1>3. o.clock \in Nat /\ o.clock <= now + Ahead
  <2>1. o.clock \in Nat BY <1>2 DEF CallShape
  <2>2. o.clock \in 0..(now + Ahead) BY <1>2, Zenon DEF CallOK
  <2> QED BY <2>1, <2>2
<1>4. \/ RunBucket(t, o.clock) /\ allowed /\ granted' = [granted EXCEPT ![t] = @ + 1] /\ Move(c, "handle")
      \/ RunBucket(t, o.clock) /\ granted' = granted /\ Answer(c, "resource_exhausted")
      \/ /\ UNCHANGED <<bucket, late>> \/ RunBucket(t, o.clock)
         /\ granted' = granted
         /\ \/ closed /\ Answer(c, "resource_exhausted")
            \/ ~closed /\ Move(c, "handle")
  BY Zenon DEF rateLimit, LimiterFails
<1>5. BucketsSound' /\ DOMAIN bucket' = Callers /\ late' \in [Callers -> Nat] /\ granted' \in [Callers -> Nat]
  <2>1. CASE UNCHANGED <<bucket, late>> /\ granted' = granted
    <3>1. BucketsSound' BY <2>1, <1>1, <1>2, BucketsKept, Zenon
    <3> QED BY <2>1, <3>1, <1>1 DEF EdgeTyped
  <2>2. CASE RunBucket(t, o.clock) /\ (granted' = granted \/ (allowed /\ granted' = [granted EXCEPT ![t] = @ + 1]))
    <3> HIDE DEF o, t
    <3> QED BY <2>2, <1>1, <1>2, <1>3, RunKeeps, Zenon DEF allowed
  <2> QED BY <2>1, <2>2, <1>4, Zenon
<1> DEFINE A == Answering(o, "resource_exhausted")
           M == Moving(o, "handle")
<1>6. A \in CallShape /\ CallOK(A) /\ A.pc = "done"
  <2>1. "resource_exhausted" \in Codes /\ "resource_exhausted" # "ok" /\ o.pc \notin {"none", "done"} BY <1>2 DEF Codes
  <2> HIDE DEF o
  <2> QED BY <2>1, <1>2, AnswersOK, Zenon
<1>7. M \in CallShape /\ CallOK(M) /\ M.pc = "handle" /\ M.req = o.req
  <2>1. /\ "handle" \in {"handle", "lookup", "found", "missing", "decode", "publish"}
        /\ "handle" \notin {"found", "decode", "publish"} /\ "handle" # "publish" /\ o.pc \notin {"none", "done"}
    BY <1>2
  <2> HIDE DEF o
  <2> QED BY <2>1, <1>2, MovesOK, Zenon
<1>8. /\ \A pc : Move(c, pc) => request' = [request EXCEPT ![c] = Moving(o, pc)]
      /\ \A code : Answer(c, code) => request' = [request EXCEPT ![c] = Answering(o, code)]
  BY <1>1, HelpersAre, Zenon
<1>9. \/ request' = [request EXCEPT ![c] = A] /\ granted' = granted
      \/ request' = [request EXCEPT ![c] = M] /\ granted' = granted /\ ~closed
      \/ request' = [request EXCEPT ![c] = M] /\ granted' = [granted EXCEPT ![t] = @ + 1]
  BY <1>4, <1>8, Zenon
<1> HIDE DEF A, M, allowed
<1>10. \A u : ~Awaits(o, u) /\ ~Awaits(A, u) /\ (Awaits(M, u) => u = t /\ closed)
  BY <1>2, <1>6, <1>7, Zenon DEF Awaits
<1>11. request' \in [Slots -> CallShape] /\ CallsSound'
  BY <1>1, <1>2, <1>6, <1>7, <1>9, OneCalls, Zenon DEF CallsSound
<1>12. CountersSound' BY <1>1, <1>2, CountersKept, Zenon
<1>13. AppsSound' BY <1>1, <1>2, Zenon DEF AppsSound
<1>14. EdgeTyped' BY <1>1, <1>2, <1>5, <1>11, ZenonT(40) DEF EdgeTyped
<1>15. AwaitSound'
  <2>1. CASE request' = [request EXCEPT ![c] = A] /\ granted' = granted
    BY <2>1, <1>1, <1>2, <1>6, AwaitKept, Zenon
  <2>2. CASE request' = [request EXCEPT ![c] = M] /\ granted' = granted /\ ~closed
    <3>1. \A u : Awaiting(u)' = Awaiting(u) BY <2>2, <1>1, <1>7, <1>10, AwaitSame, Zenon
    <3> QED BY <3>1, <2>2, <1>1, <1>2, Zenon DEF AwaitSound
  <2>3. CASE request' = [request EXCEPT ![c] = M] /\ granted' = [granted EXCEPT ![t] = @ + 1]
    <3> HIDE DEF t, o
    <3> SUFFICES ASSUME NEW u \in Callers PROVE critical'[u] + Cardinality(Awaiting(u)') <= granted'[u]
      BY Zenon DEF AwaitSound
    <3>1. critical[u] \in Nat /\ granted \in [Callers -> Nat] /\ granted[u] \in Nat BY <1>1 DEF EdgeTyped
    <3>2. critical[u] + Cardinality(Awaiting(u)) <= granted[u] BY <1>1, ZenonT(40) DEF AwaitSound
    <3>3. CASE u = t
      <4>1. granted'[u] = granted[u] + 1 BY <2>3, <3>1, <3>3
      <4>2. /\ Cardinality(Awaiting(u)) \in Nat /\ Cardinality(Awaiting(u)') \in Nat
            /\ Cardinality(Awaiting(u)') <= Cardinality(Awaiting(u)) + 1
        BY <2>3, <1>1, <1>7, AwaitMore, Zenon
      <4>3. critical'[u] = critical[u] BY <1>2, Zenon
      <4> QED BY <4>1, <4>2, <4>3, <3>1, <3>2
    <3>4. CASE u # t
      <4>1. granted'[u] = granted[u] BY <2>3, <3>1, <3>4
      <4>2. Awaits(M, u) <=> Awaits(request[c], u) BY <3>4, <1>10 DEF o
      <4>3. Awaiting(u)' = Awaiting(u) BY <4>2, <2>3, <1>1, <1>7, AwaitSame, Zenon
      <4> QED BY <4>1, <4>3, <3>2, <1>2, Zenon
    <3> QED BY <3>3, <3>4
  <2> QED BY <2>1, <2>2, <2>3, <1>9
<1> QED BY <1>5, <1>11, <1>12, <1>13, <1>14, <1>15, Zenon DEF EdgeInv

\* The handler is reached: a fail-closed call is handled once, and a batch goes
\* on only for its own tenant and, on a hit, for an app that was found
\* (Valid, EnforceTenant).
LEMMA ValidKeeps == ASSUME EdgeConstantsOK, EdgeInv, NEW c \in Slots, Valid(c) PROVE EdgeInv'
<1> DEFINE o == request[c]
           t == Principals(o.req.key).tenant
           closed == policyFor(o.req.procedure).failClosed
<1>1. /\ EdgeTyped /\ CallsSound /\ AppsSound /\ BucketsSound /\ CountersSound /\ AwaitSound
      /\ request \in [Slots -> CallShape]
  BY DEF EdgeInv, EdgeTyped
<1>2. /\ o \in CallShape /\ CallOK(o) /\ o.pc = "handle"
      /\ now' = now /\ bucket' = bucket /\ quota' = quota /\ registered' = registered /\ appCache' = appCache
      /\ granted' = granted /\ late' = late /\ admitted' = admitted
  BY <1>1, Zenon DEF CallsSound, Valid
<1>3. critical' = IF closed THEN [critical EXCEPT ![t] = @ + 1] ELSE critical
  BY Zenon DEF Valid
<1>4. o.at \in Replicas /\ o.req \in Offered /\ o.req.app \in Apps /\ o.pc \notin {"none", "done"}
  <2>1. o.at \in Replicas /\ o.req \in Offered /\ o.pc \notin {"none", "done"} BY <1>2 DEF CallOK
  <2> QED BY <2>1, ZenonT(40) DEF EdgeConstantsOK
<1>5. /\ \A pc : Move(c, pc) => request' = [request EXCEPT ![c] = Moving(o, pc)]
      /\ \A code : Answer(c, code) => request' = [request EXCEPT ![c] = Answering(o, code)]
      /\ \A code, m : Reject(c, code, m) => request' = [request EXCEPT ![c] = Rejecting(o, code, m)]
  BY <1>1, HelpersAre, ZenonT(40)
<1>6. \E n \in CallShape : CallOK(n) /\ n.pc # "handle" /\ request' = [request EXCEPT ![c] = n]
  <2> DEFINE hit == Cached(o.at, o.req.app)
             own == EnforceTenant(Principals(o.req.key), o.req.app[1])
  <2>0. \/ o.req.procedure # "SubmitTelemetry" /\ Answer(c, "ok")
        \/ Answer(c, "unauthenticated")
        \/ own /\ Move(c, "lookup")
        \/ own /\ hit # Nil /\ hit.valid /\ Move(c, "decode")
        \/ Reject(c, "unknown_app", 1)
    BY Zenon DEF Valid
  <2>1. hit # Nil /\ hit.valid => o.req.app \in registered
    BY <1>1, <1>4, Zenon DEF Cached, AppsSound
  <2> HIDE DEF o, hit, own
  <2>2. CASE o.req.procedure # "SubmitTelemetry" /\ Answer(c, "ok")
    <3> DEFINE n == Answering(o, "ok")
    <3>1. "ok" \in Codes BY DEF Codes
    <3>2. n \in CallShape /\ CallOK(n) /\ n.pc = "done" BY <3>1, <2>2, <1>2, <1>4, AnswersOK, Zenon
    <3>3. request' = [request EXCEPT ![c] = n] BY <2>2, <1>5, Zenon
    <3> HIDE DEF n
    <3> QED BY <3>2, <3>3, Zenon
  <2>3. CASE Answer(c, "unauthenticated")
    <3> DEFINE n == Answering(o, "unauthenticated")
    <3>1. "unauthenticated" \in Codes /\ "unauthenticated" # "ok" BY DEF Codes
    <3>2. n \in CallShape /\ CallOK(n) /\ n.pc = "done" BY <3>1, <1>2, <1>4, AnswersOK, Zenon
    <3>3. request' = [request EXCEPT ![c] = n] BY <2>3, <1>5, Zenon
    <3> HIDE DEF n
    <3> QED BY <3>2, <3>3, Zenon
  <2>4. CASE own /\ Move(c, "lookup")
    <3> DEFINE n == Moving(o, "lookup")
    <3>1. /\ "lookup" \in {"handle", "lookup", "found", "missing", "decode", "publish"}
          /\ "lookup" \notin {"found", "decode", "publish"} /\ "lookup" # "publish"
      OBVIOUS
    <3>2. n \in CallShape /\ CallOK(n) /\ n.pc = "lookup" BY <3>1, <2>4, <1>2, <1>4, MovesOK, Zenon DEF own
    <3>3. request' = [request EXCEPT ![c] = n] BY <2>4, <1>5, Zenon
    <3> HIDE DEF n
    <3> QED BY <3>2, <3>3, Zenon
  <2>5. CASE own /\ hit # Nil /\ hit.valid /\ Move(c, "decode")
    <3> DEFINE n == Moving(o, "decode")
    <3>1. "decode" \in {"handle", "lookup", "found", "missing", "decode", "publish"} /\ "decode" # "publish"
      OBVIOUS
    <3>2. n \in CallShape /\ CallOK(n) /\ n.pc = "decode" BY <3>1, <2>1, <2>5, <1>2, <1>4, MovesOK, Zenon DEF own
    <3>3. request' = [request EXCEPT ![c] = n] BY <2>5, <1>5, Zenon
    <3> HIDE DEF n
    <3> QED BY <3>2, <3>3, Zenon
  <2>6. CASE Reject(c, "unknown_app", 1)
    <3> DEFINE n == Rejecting(o, "unknown_app", 1)
    <3>1. "unknown_app" \in Codes /\ "unknown_app" # "ok" /\ 1 \in Nat BY DEF Codes
    <3>2. n \in CallShape /\ CallOK(n) /\ n.pc = "done" BY <3>1, <1>2, <1>4, RejectsOK, Zenon
    <3>3. request' = [request EXCEPT ![c] = n] BY <2>6, <1>5, Zenon
    <3> HIDE DEF n
    <3> QED BY <3>2, <3>3, Zenon
  <2> QED BY <2>0, <2>2, <2>3, <2>4, <2>5, <2>6
<1>7. PICK n \in CallShape : CallOK(n) /\ n.pc # "handle" /\ request' = [request EXCEPT ![c] = n] BY <1>6, Zenon
<1>8. \A u : ~Awaits(n, u) /\ (Awaits(o, u) <=> u = t /\ closed)
  BY <1>2, <1>7, Zenon DEF Awaits
<1>9. request' \in [Slots -> CallShape] /\ CallsSound'
  BY <1>1, <1>2, <1>7, OneCalls, Zenon DEF CallsSound
<1>10. BucketsSound' /\ CountersSound' BY <1>1, <1>2, BucketsKept, CountersKept, Zenon
<1>11. AppsSound' BY <1>1, <1>2, ZenonT(40) DEF AppsSound
<1>12. critical \in [Callers -> Nat] /\ granted \in [Callers -> Nat] BY <1>1 DEF EdgeTyped
<1>13. critical' \in [Callers -> Nat]
  <2> HIDE DEF t, closed
  <2>1. CASE closed /\ t \in Callers
    <3>1. critical[t] + 1 \in Nat BY <1>12, <2>1
    <3> QED BY <3>1, <2>1, <1>3, <1>12
  <2>2. CASE ~(closed /\ t \in Callers)
    <3>1. critical' = critical BY <2>2, <1>3, <1>12
    <3> QED BY <3>1, <1>12
  <2> QED BY <2>1, <2>2
<1>14. EdgeTyped' BY <1>1, <1>2, <1>9, <1>13, ZenonT(40) DEF EdgeTyped
<1>15. AwaitSound'
  <2> SUFFICES ASSUME NEW u \in Callers PROVE critical'[u] + Cardinality(Awaiting(u)') <= granted'[u]
    BY Zenon DEF AwaitSound
  <2>1. critical[u] \in Nat /\ granted[u] \in Nat /\ critical[u] + Cardinality(Awaiting(u)) <= granted[u]
    BY <1>1, <1>12 DEF AwaitSound
  <2>2. CASE u = t /\ closed
    <3>1. critical'[u] = critical[u] + 1 BY <2>2, <1>3, <1>12
    <3>2. Awaits(request[c], u) /\ ~Awaits(n, u) BY <2>2, <1>8
    <3>3. /\ Cardinality(Awaiting(u)) \in Nat /\ Cardinality(Awaiting(u)') \in Nat
          /\ Cardinality(Awaiting(u)) = Cardinality(Awaiting(u)') + 1
      BY <3>2, <1>1, <1>7, AwaitLess, Zenon
    <3> QED BY <3>1, <3>3, <2>1, <1>2, SMTT(30)
  <2>3. CASE ~(u = t /\ closed)
    <3>1. critical'[u] = critical[u] BY <2>3, <1>3, <1>12
    <3>2. Awaits(n, u) <=> Awaits(request[c], u) BY <2>3, <1>8
    <3>3. Awaiting(u)' = Awaiting(u) BY <3>2, <1>1, <1>7, AwaitSame, Zenon
    <3> QED BY <3>1, <3>3, <2>1, <1>2, ZenonT(40)
  <2> QED BY <2>2, <2>3
<1> QED BY <1>9, <1>10, <1>11, <1>14, <1>15, Zenon DEF EdgeInv

\* The registry answers, or it fails (GetApp).
LEMMA GetAppKeeps == ASSUME EdgeInv, NEW c \in Slots, GetApp(c) PROVE EdgeInv'
<1> DEFINE o == request[c]
<1>1. request \in [Slots -> CallShape] /\ o \in CallShape /\ CallOK(o)
  BY DEF EdgeInv, EdgeTyped, CallsSound
<1>2. /\ o.pc = "lookup" /\ o.pc \notin {"none", "done"}
      /\ now' = now /\ bucket' = bucket /\ quota' = quota /\ registered' = registered /\ appCache' = appCache
      /\ granted' = granted /\ late' = late /\ admitted' = admitted /\ critical' = critical
  BY DEF GetApp
<1>3. EnforceTenant(Principals(o.req.key), o.req.app[1]) BY <1>1, <1>2, Zenon DEF CallOK
<1>4. \/ o.req.app \in registered /\ Move(c, "found")
      \/ Move(c, "missing")
      \/ Answer(c, "internal")
  BY Zenon DEF GetApp
<1>5. /\ \A pc : Move(c, pc) => request' = [request EXCEPT ![c] = Moving(o, pc)]
      /\ \A code : Answer(c, code) => request' = [request EXCEPT ![c] = Answering(o, code)]
  BY <1>1, HelpersAre, Zenon
<1> HIDE DEF o
<1>6. "internal" \in Codes /\ "internal" # "ok" BY DEF Codes
<1>7. Answering(o, "internal") \in CallShape /\ CallOK(Answering(o, "internal")) /\ Answering(o, "internal").pc = "done"
  BY <1>1, <1>2, <1>6, AnswersOK, Zenon
<1>8. /\ {"found", "missing"} \subseteq {"handle", "lookup", "found", "missing", "decode", "publish"}
      /\ "missing" \notin {"found", "decode", "publish"} /\ "found" # "publish"
  OBVIOUS
<1>9. o.req.app \in registered =>
          Moving(o, "found") \in CallShape /\ CallOK(Moving(o, "found")) /\ Moving(o, "found").pc = "found"
  BY <1>1, <1>2, <1>3, <1>8, MovesOK, Zenon
<1>10. Moving(o, "missing") \in CallShape /\ CallOK(Moving(o, "missing")) /\ Moving(o, "missing").pc = "missing"
  BY <1>1, <1>2, <1>3, <1>8, MovesOK, Zenon
<1>11. \E n \in CallShape : CallOK(n) /\ n.pc \in {"done", "found", "missing"} /\ request' = [request EXCEPT ![c] = n]
  BY <1>4, <1>5, <1>7, <1>9, <1>10, Zenon
<1>12. PICK n \in CallShape : CallOK(n) /\ n.pc \in {"done", "found", "missing"} /\ request' = [request EXCEPT ![c] = n]
  BY <1>11, Zenon
<1>13. n.pc # "handle" /\ request[c].pc # "handle" BY <1>2, <1>12 DEF o
<1> QED BY <1>2, <1>12, <1>13, OneKeeps, ZenonT(40)

\* What a replica remembers of an app was so when it asked, and apps are not
\* taken back, whichever entries are dropped (put).
LEMMA PutSound ==
  ASSUME EdgeTyped, AppsSound, registered' = registered, NEW c \in Slots, put(c),
         request[c].at \in Replicas, request[c].req.app \in Apps,
         request[c].pc = "found" => request[c].req.app \in registered
  PROVE  AppsSound' /\ DOMAIN appCache' = Replicas /\ \A r \in Replicas : DOMAIN appCache'[r] = Apps
<1> DEFINE r == request[c].at
           a == request[c].req.app
           valid == request[c].pc = "found"
           entry == [valid |-> valid, expires |-> Clock(r) + (IF valid THEN AppTTL ELSE NegTTL)]
           filled == [appCache[r] EXCEPT ![a] = entry]
<1>1. \E keep : appCache' = [appCache EXCEPT ![r] = [b \in Apps |-> IF b \in keep THEN filled[b] ELSE Nil]]
  BY Zenon DEF put
<1>2. PICK keep : appCache' = [appCache EXCEPT ![r] = [b \in Apps |-> IF b \in keep THEN filled[b] ELSE Nil]]
  BY <1>1, Zenon
<1>3. DOMAIN appCache = Replicas /\ \A s \in Replicas : DOMAIN appCache[s] = Apps BY DEF EdgeTyped
<1>4. entry.valid = valid OBVIOUS
<1> HIDE DEF r, a, entry, valid
<1>5. r \in Replicas /\ a \in Apps /\ (valid => a \in registered) BY DEF r, a, valid
<1>6. \A b \in Apps : filled[b] = IF b = a THEN entry ELSE appCache[r][b] BY <1>3, <1>5
<1> HIDE DEF filled
<1>7. \A b \in Apps : appCache'[r][b] = IF b \in keep THEN filled[b] ELSE Nil BY <1>2, <1>3, <1>5
<1>8. \A s \in Replicas : s # r => appCache'[s] = appCache[s] BY <1>2, <1>3
<1>9. DOMAIN appCache' = Replicas /\ \A s \in Replicas : DOMAIN appCache'[s] = Apps
  <2>1. DOMAIN appCache'[r] = Apps BY <1>2, <1>3, <1>5
  <2>2. DOMAIN appCache' = Replicas BY <1>2, <1>3
  <2> QED BY <2>1, <2>2, <1>3, <1>8, Zenon
<1>10. ASSUME NEW s \in Replicas, NEW b \in Apps, appCache'[s][b] # Nil, appCache'[s][b].valid PROVE b \in registered
  <2>1. CASE s # r BY <2>1, <1>8, <1>10, Zenon DEF AppsSound
  <2>2. CASE s = r /\ b # a
    <3>1. appCache'[s][b] = appCache[r][b] BY <2>2, <1>6, <1>7, <1>10, Zenon
    <3> QED BY <3>1, <1>5, <1>10, Zenon DEF AppsSound
  <2>3. CASE s = r /\ b = a
    <3>1. appCache'[s][b] = entry BY <2>3, <1>6, <1>7, <1>10, Zenon
    <3> QED BY <3>1, <2>3, <1>4, <1>5, <1>10, Zenon
  <2> QED BY <2>1, <2>2, <2>3
<1>11. AppsSound' BY <1>10, Zenon DEF AppsSound
<1> QED BY <1>9, <1>11

\* The answer of the registry is cached under the lock, and the call goes on (Remember, put).
LEMMA RememberKeeps == ASSUME EdgeConstantsOK, EdgeInv, NEW c \in Slots, Remember(c) PROVE EdgeInv'
<1> DEFINE o == request[c]
<1>1. /\ EdgeTyped /\ CallsSound /\ AppsSound /\ BucketsSound /\ CountersSound /\ AwaitSound
      /\ request \in [Slots -> CallShape] /\ o \in CallShape /\ CallOK(o)
  BY DEF EdgeInv, EdgeTyped, CallsSound
<1>2. /\ o.pc \in {"found", "missing"} /\ put(c)
      /\ now' = now /\ bucket' = bucket /\ quota' = quota /\ registered' = registered
      /\ granted' = granted /\ late' = late /\ admitted' = admitted /\ critical' = critical
  BY ZenonT(40) DEF Remember
<1>3. o.pc \notin {"none", "done"} /\ o.at \in Replicas /\ o.req \in Offered
      /\ EnforceTenant(Principals(o.req.key), o.req.app[1]) /\ (o.pc = "found" => o.req.app \in registered)
  BY <1>1, <1>2 DEF CallOK
<1>4. o.req.app \in Apps BY <1>3, Zenon DEF EdgeConstantsOK
<1>5. AppsSound' /\ DOMAIN appCache' = Replicas /\ \A r \in Replicas : DOMAIN appCache'[r] = Apps
  BY <1>1, <1>2, <1>3, <1>4, PutSound, Zenon
<1>6. (o.pc = "found" /\ Move(c, "decode")) \/ Reject(c, "unknown_app", 1)
  BY Zenon DEF Remember
<1>7. /\ \A pc : Move(c, pc) => request' = [request EXCEPT ![c] = Moving(o, pc)]
      /\ \A code, m : Reject(c, code, m) => request' = [request EXCEPT ![c] = Rejecting(o, code, m)]
  BY <1>1, HelpersAre, Zenon
<1> HIDE DEF o
<1>8. "unknown_app" \in Codes /\ "unknown_app" # "ok" /\ 1 \in Nat BY DEF Codes
<1>9. /\ Rejecting(o, "unknown_app", 1) \in CallShape /\ CallOK(Rejecting(o, "unknown_app", 1))
      /\ Rejecting(o, "unknown_app", 1).pc = "done"
  BY <1>1, <1>3, <1>8, RejectsOK, Zenon
<1>10. "decode" \in {"handle", "lookup", "found", "missing", "decode", "publish"} /\ "decode" # "publish"
  OBVIOUS
<1>11. o.pc = "found" => Moving(o, "decode") \in CallShape /\ CallOK(Moving(o, "decode")) /\ Moving(o, "decode").pc = "decode"
  BY <1>1, <1>3, <1>10, MovesOK, Zenon
<1>12. \E n \in CallShape : CallOK(n) /\ n.pc \in {"done", "decode"} /\ request' = [request EXCEPT ![c] = n]
  BY <1>6, <1>7, <1>9, <1>11, Zenon
<1>13. PICK n \in CallShape : CallOK(n) /\ n.pc \in {"done", "decode"} /\ request' = [request EXCEPT ![c] = n]
  BY <1>12, Zenon
<1>14. n.pc # "handle" /\ request[c].pc # "handle" BY <1>2, <1>13 DEF o
<1>15. request' \in [Slots -> CallShape] /\ CallsSound'
  BY <1>1, <1>2, <1>13, OneCalls, Zenon DEF CallsSound
<1>16. BucketsSound' /\ CountersSound' BY <1>1, <1>2, BucketsKept, CountersKept, Zenon
<1>17. AwaitSound' BY <1>1, <1>2, <1>13, <1>14, AwaitKept, Zenon
<1>18. EdgeTyped' BY <1>1, <1>2, <1>5, <1>15, Zenon DEF EdgeTyped
<1> QED BY <1>5, <1>15, <1>16, <1>17, <1>18, ZenonT(40) DEF EdgeInv

\* A batch that decodes to events goes on with the time that Allow reads (decompress).
LEMMA DecompressKeeps == ASSUME EdgeConstantsOK, EdgeInv, NEW c \in Slots, decompress(c) PROVE EdgeInv'
<1> DEFINE o == request[c]
<1>1. now \in Nat /\ request \in [Slots -> CallShape] /\ o \in CallShape /\ CallOK(o)
  BY DEF EdgeInv, EdgeTyped, CallsSound
<1>2. /\ o.pc = "decode" /\ o.pc \notin {"none", "done"}
      /\ now' = now /\ bucket' = bucket /\ quota' = quota /\ registered' = registered /\ appCache' = appCache
      /\ granted' = granted /\ late' = late /\ admitted' = admitted /\ critical' = critical
  BY ZenonT(40) DEF decompress
<1>3. /\ o.at \in Replicas /\ o.req \in Offered /\ EnforceTenant(Principals(o.req.key), o.req.app[1])
      /\ o.req.app \in registered /\ o.accepted = 0 /\ o.rejected = 0 /\ o.published = {}
  BY <1>1, <1>2 DEF CallOK
<1>4. o.req.batch \in {Nil} \cup Seq(EventKinds) BY <1>3, Zenon DEF EdgeConstantsOK
<1> DEFINE x == Clock(o.at)
           q == [o EXCEPT !.pc = "quota", !.clock = x]
<1>5. \/ Reject(c, "undecodable", 1)
      \/ o.req.batch = <<>> /\ Answer(c, "ok")
      \/ o.req.batch \notin {Nil, <<>>} /\ request' = [request EXCEPT ![c] = q]
  BY Zenon DEF decompress
<1>6. /\ \A code : Answer(c, code) => request' = [request EXCEPT ![c] = Answering(o, code)]
      /\ \A code, m : Reject(c, code, m) => request' = [request EXCEPT ![c] = Rejecting(o, code, m)]
  BY <1>1, HelpersAre, ZenonT(40)
<1>7. x \in Nat /\ x \in 0..(now + Ahead) BY <1>1, <1>3, ClockBound
<1> HIDE DEF o, x
<1>8. /\ q \in CallShape /\ q.pc = "quota" /\ q.at = o.at /\ q.req = o.req /\ q.clock = x
      /\ q.accepted = o.accepted /\ q.rejected = o.rejected /\ q.published = o.published
  BY <1>1, <1>7, ZenonT(40) DEF CallShape, Stages
<1> HIDE DEF q
<1>9. o.req.batch \notin {Nil, <<>>} => CallOK(q)
  BY <1>3, <1>4, <1>7, <1>8, ZenonT(40) DEF CallOK
<1>10. {"undecodable", "ok"} \subseteq Codes /\ "undecodable" # "ok" /\ 1 \in Nat BY DEF Codes
<1>11. /\ Rejecting(o, "undecodable", 1) \in CallShape /\ CallOK(Rejecting(o, "undecodable", 1))
       /\ Rejecting(o, "undecodable", 1).pc = "done"
  BY <1>1, <1>2, <1>10, RejectsOK, Zenon
<1>12. o.req.batch = <<>> =>
           Answering(o, "ok") \in CallShape /\ CallOK(Answering(o, "ok")) /\ Answering(o, "ok").pc = "done"
  BY <1>1, <1>2, <1>10, AnswersOK, ZenonT(40)
<1>13. \E n \in CallShape : CallOK(n) /\ n.pc \in {"done", "quota"} /\ request' = [request EXCEPT ![c] = n]
  <2>1. CASE Reject(c, "undecodable", 1)
    <3>1. request' = [request EXCEPT ![c] = Rejecting(o, "undecodable", 1)] BY <2>1, <1>6, Zenon
    <3> QED BY <3>1, <1>11, Zenon
  <2>2. CASE o.req.batch = <<>> /\ Answer(c, "ok")
    <3>1. request' = [request EXCEPT ![c] = Answering(o, "ok")] BY <2>2, <1>6, Zenon
    <3> QED BY <2>2, <3>1, <1>12, Zenon
  <2>3. CASE o.req.batch \notin {Nil, <<>>} /\ request' = [request EXCEPT ![c] = q]
    BY <2>3, <1>8, <1>9, Zenon
  <2> QED BY <2>1, <2>2, <2>3, <1>5
<1>14. PICK n \in CallShape : CallOK(n) /\ n.pc \in {"done", "quota"} /\ request' = [request EXCEPT ![c] = n]
  BY <1>13, Zenon
<1>15. n.pc # "handle" /\ request[c].pc # "handle" BY <1>2, <1>14 DEF o
<1> QED BY <1>2, <1>14, <1>15, OneKeeps, ZenonT(40)

\* A batch is charged to the counter of its window, when it fits (Allow).
LEMMA AllowKeeps == ASSUME EdgeConstantsOK, EdgeInv, NEW c \in Slots, Allow(c) PROVE EdgeInv'
<1> DEFINE o == request[c]
           k == WindowOf(c)
           cost == Len(o.req.batch)
           res == quotaScript(k, cost)
<1>1. /\ EdgeTyped /\ CallsSound /\ AppsSound /\ BucketsSound /\ CountersSound /\ AwaitSound /\ now \in Nat
      /\ request \in [Slots -> CallShape] /\ o \in CallShape /\ CallOK(o)
  BY SMTT(30) DEF EdgeInv, EdgeTyped, CallsSound
<1>2. /\ o.pc = "quota" /\ o.pc \notin {"none", "done"}
      /\ now' = now /\ bucket' = bucket /\ registered' = registered /\ appCache' = appCache
      /\ granted' = granted /\ late' = late /\ critical' = critical
  BY DEF Allow
<1>3. /\ EnforceTenant(Principals(o.req.key), o.req.app[1]) /\ o.req.app \in registered
      /\ o.req.batch \in Seq(EventKinds) \ {<<>>} /\ o.clock \in 0..(now + Ahead)
  BY <1>1, <1>2, Zenon DEF CallOK
<1>4. cost \in Nat \ {0} BY <1>3
<1>5. o.clock \in Nat /\ o.clock <= now + Ahead /\ Ahead \in Nat /\ Window \in Nat \ {0}
  <2> DEFINE x == o.clock
  <2>1. Ahead \in Nat /\ Window \in Nat \ {0} BY DEF EdgeConstantsOK
  <2>2. x \in 0..(now + Ahead) /\ now \in Nat BY <1>1, <1>3, Zenon
  <2> HIDE DEF x
  <2>3. x \in Nat /\ x <= now + Ahead BY <2>1, <2>2
  <2> QED BY <2>1, <2>3 DEF x
<1>6. k = <<o.req.app[1], o.clock \div Window>> BY DEF WindowOf
<1>7. \/ /\ res.fits /\ Move(c, "publish") /\ quota' = [quota EXCEPT ![k] = res.entry]
         /\ admitted' = IF InTime(k) THEN [admitted EXCEPT ![k] = @ + cost] ELSE admitted
      \/ Reject(c, "quota_exceeded", cost) /\ quota' = quota /\ admitted' = admitted
      \/ Move(c, "publish") /\ quota' = quota /\ admitted' = admitted
      \/ res.fits /\ Move(c, "publish") /\ quota' = [quota EXCEPT ![k] = res.entry] /\ admitted' = admitted
  BY ZenonT(40) DEF Allow
<1>8. DOMAIN quota = Callers \X Windows /\ admitted \in [Callers \X Windows -> Nat] BY <1>1, SMTT(30) DEF EdgeTyped
<1>9. ASSUME quota' = [quota EXCEPT ![k] = res.entry], res.fits,
             \/ admitted' = admitted
             \/ InTime(k) /\ admitted' = [admitted EXCEPT ![k] = @ + cost]
      PROVE  CountersSound' /\ DOMAIN quota' = Callers \X Windows /\ admitted' \in [Callers \X Windows -> Nat]
  <2> DEFINE v == o.clock \div Window
  <2>1. v \in Int BY <1>5, DivFloor
  <2>2. ASSUME k \in Callers \X Windows
        PROVE  /\ QuotaOK(res.entry, admitted[k], v)
               /\ InTime(k) => QuotaOK(res.entry, admitted[k] + cost, v)
    <3>1. k[2] = v /\ k = <<k[1], v>> /\ k[1] \in Callers /\ v \in Windows BY <2>2, <1>6
    <3>2. QuotaOK(quota[k], admitted[k], v) BY <3>1, <1>1, Zenon DEF CountersSound
    <3>3. admitted[k] \in Nat BY <1>8, <2>2
    <3>4. InTime(k) => now + Ahead <= (v + 1) * Window BY <3>1, Zenon DEF InTime
    <3> HIDE DEF k, cost, o
    <3> QED BY <3>2, <3>3, <3>4, <2>1, <1>1, <1>4, <1>5, <1>9, QuotaRuns, ZenonT(40) DEF res
  <2> DEFINE entry == res.entry
  <2> HIDE DEF res, k, v, cost, entry
  <2>3. quota' = [quota EXCEPT ![k] = entry] BY <1>9 DEF entry
  <2>4. DOMAIN quota' = Callers \X Windows BY <2>3, <1>8
  <2>5. admitted' \in [Callers \X Windows -> Nat]
    <3>1. CASE k \in Callers \X Windows
      <4>1. admitted[k] + cost \in Nat BY <3>1, <1>4, <1>8
      <4> QED BY <4>1, <1>8, <1>9
    <3>2. CASE k \notin Callers \X Windows
      <4>1. [admitted EXCEPT ![k] = @ + cost] = admitted BY <3>2, <1>8, SMTT(30)
      <4> QED BY <4>1, <1>8, <1>9
    <3> QED BY <3>1, <3>2
  <2>6. ASSUME NEW t \in Callers, NEW w \in Windows PROVE QuotaOK(quota'[<<t, w>>], admitted'[<<t, w>>], w)
    <3> DEFINE j == <<t, w>>
    <3>1. j \in Callers \X Windows BY <2>6
    <3>2. QuotaOK(quota[j], admitted[j], w) BY <1>1, <2>6, Zenon DEF CountersSound
    <3>3. j = k => w = v BY <1>6 DEF v
    <3> HIDE DEF j
    <3>4. CASE j = k
      <4>1. quota'[j] = entry BY <3>1, <3>4, <2>3, <1>8
      <4>2. admitted'[j] = admitted[k] \/ (InTime(k) /\ admitted'[j] = admitted[k] + cost)
        BY <3>1, <3>4, <1>8, <1>9, SMTT(30)
      <4>3. QuotaOK(entry, admitted[k], v) /\ (InTime(k) => QuotaOK(entry, admitted[k] + cost, v))
        BY <2>2, <3>1, <3>4 DEF entry
      <4> QED BY <4>1, <4>2, <4>3, <3>3, <3>4, Zenon DEF j
    <3>5. CASE j # k
      <4>1. quota'[j] = quota[j] /\ admitted'[j] = admitted[j] BY <3>1, <3>5, <2>3, <1>8, <1>9
      <4> QED BY <4>1, <3>2, Zenon DEF j
    <3> QED BY <3>4, <3>5
  <2>7. ASSUME NEW e, NEW m, NEW w, QuotaOK(e, m, w) PROVE QuotaOK(e, m, w)'
    BY <2>7, <1>2, Zenon DEF QuotaOK
  <2>8. CountersSound' BY <2>6, <2>7, Zenon DEF CountersSound
  <2> QED BY <2>4, <2>5, <2>8
<1>10. CountersSound' /\ DOMAIN quota' = Callers \X Windows /\ admitted' \in [Callers \X Windows -> Nat]
  <2>1. CASE quota' = quota /\ admitted' = admitted
    <3>1. CountersSound' BY <2>1, <1>1, <1>2, CountersKept, Zenon
    <3> QED BY <2>1, <3>1, <1>8
  <2>2. CASE res.fits /\ quota' = [quota EXCEPT ![k] = res.entry]
             /\ (admitted' = admitted \/ (InTime(k) /\ admitted' = [admitted EXCEPT ![k] = @ + cost]))
    BY <2>2, <1>9, Zenon
  <2> QED BY <2>1, <2>2, <1>7, Zenon
<1>11. /\ \A pc : Move(c, pc) => request' = [request EXCEPT ![c] = Moving(o, pc)]
       /\ \A code, m : Reject(c, code, m) => request' = [request EXCEPT ![c] = Rejecting(o, code, m)]
  BY <1>1, HelpersAre, Zenon
<1>12. Move(c, "publish") \/ Reject(c, "quota_exceeded", cost) BY <1>7, Zenon
<1> HIDE DEF o, cost
<1>13. "quota_exceeded" \in Codes /\ "quota_exceeded" # "ok" /\ cost \in Nat BY <1>4 DEF Codes
<1>14. /\ Rejecting(o, "quota_exceeded", cost) \in CallShape /\ CallOK(Rejecting(o, "quota_exceeded", cost))
       /\ Rejecting(o, "quota_exceeded", cost).pc = "done"
  BY <1>1, <1>2, <1>13, RejectsOK, Zenon
<1>15. "publish" \in {"handle", "lookup", "found", "missing", "decode", "publish"} OBVIOUS
<1>16. Moving(o, "publish") \in CallShape /\ CallOK(Moving(o, "publish")) /\ Moving(o, "publish").pc = "publish"
  BY <1>1, <1>2, <1>3, <1>15, MovesOK, Zenon
<1>17. \E n \in CallShape : CallOK(n) /\ n.pc \in {"done", "publish"} /\ request' = [request EXCEPT ![c] = n]
  BY <1>11, <1>12, <1>14, <1>16, Zenon
<1>18. PICK n \in CallShape : CallOK(n) /\ n.pc \in {"done", "publish"} /\ request' = [request EXCEPT ![c] = n]
  BY <1>17, Zenon
<1>19. n.pc # "handle" /\ request[c].pc # "handle" BY <1>2, <1>18 DEF o
<1>20. request' \in [Slots -> CallShape] /\ CallsSound'
  BY <1>1, <1>2, <1>18, OneCalls, Zenon DEF CallsSound
<1>21. BucketsSound' BY <1>1, <1>2, BucketsKept, Zenon
<1>22. AwaitSound' BY <1>1, <1>2, <1>18, <1>19, AwaitKept, Zenon
<1>23. AppsSound' BY <1>1, <1>2, Zenon DEF AppsSound
<1>24. EdgeTyped' BY <1>1, <1>2, <1>10, <1>20, Zenon DEF EdgeTyped
<1> QED BY <1>10, <1>20, <1>21, <1>22, <1>23, <1>24, ZenonT(40) DEF EdgeInv

\* The events of a batch are published one by one, and the batch is answered
\* with what became of them (SubmitTelemetry).
LEMMA SubmitKeeps == ASSUME EdgeConstantsOK, EdgeInv, NEW c \in Slots, SubmitTelemetry(c) PROVE EdgeInv'
<1> DEFINE o == request[c]
           b == o.req.batch
<1>1. /\ request \in [Slots -> CallShape] /\ o \in CallShape /\ CallOK(o) /\ registered \subseteq Apps
  BY DEF EdgeInv, EdgeTyped, CallsSound
<1>2. /\ o.pc = "publish"
      /\ now' = now /\ bucket' = bucket /\ quota' = quota /\ registered' = registered /\ appCache' = appCache
      /\ granted' = granted /\ late' = late /\ admitted' = admitted /\ critical' = critical
  BY DEF SubmitTelemetry
<1>3. /\ EnforceTenant(Principals(o.req.key), o.req.app[1]) /\ o.req.app \in registered
      /\ b \in Seq(EventKinds) \ {<<>>} /\ o.at \in Replicas /\ o.req \in Offered
  BY <1>1, <1>2, Zenon DEF CallOK
<1>4. PICK sent \in SUBSET (DOMAIN b) :
        request' = [request EXCEPT ![c] = [@ EXCEPT !.pc = "done", !.published = sent,
                      !.accepted = Cardinality(sent), !.rejected = Cardinality(DOMAIN b \ sent)]]
  BY Zenon DEF SubmitTelemetry
<1> DEFINE acc == Cardinality(sent)
           rej == Cardinality(DOMAIN b \ sent)
           n == [o EXCEPT !.pc = "done", !.published = sent, !.accepted = acc, !.rejected = rej]
<1>5. request' = [request EXCEPT ![c] = n] BY <1>4, Zenon
<1>6. /\ acc \in Nat /\ rej \in Nat /\ acc + rej = Len(b)
  <2>1. DOMAIN b = 1..Len(b) /\ Len(b) \in Nat BY <1>3
  <2> DEFINE all == DOMAIN b
  <2>2. IsFiniteSet(all) /\ Cardinality(all) = Len(b) BY <2>1, FS_Interval
  <2> HIDE DEF all
  <2>3. sent \subseteq all BY <1>4 DEF all
  <2>4. IsFiniteSet(sent) BY <2>2, <2>3, FS_Subset
  <2>5. Cardinality(sent) \in Nat BY <2>4, FS_CardinalityType
  <2>6. all \cap sent = sent BY <2>3
  <2>7. IsFiniteSet(all \ sent) /\ Cardinality(all \ sent) = Cardinality(all) - Cardinality(all \cap sent)
    BY <2>2, <2>4, FS_Difference, Zenon
  <2>8. Cardinality(all \ sent) \in Nat BY <2>7, FS_CardinalityType
  <2>9. acc \in Nat /\ rej \in Nat /\ rej = Cardinality(all) - acc
    BY <2>5, <2>6, <2>7, <2>8, Zenon DEF all
  <2> HIDE DEF acc, rej
  <2> QED BY <2>1, <2>2, <2>9
<1>7. o.req.app[1] = KeyRing[o.req.key].tenant
  <2>1. o.req.app[1] \in Callers BY <1>1, <1>3 DEF Callers
  <2>2. o.req.app[1] # NoId BY <2>1 DEF EdgeConstantsOK
  <2>3. Principals(o.req.key) # Nil => Principals(o.req.key) = KeyRing[o.req.key] BY Zenon DEF Principals
  <2> QED BY <1>3, <2>2, <2>3, ZenonT(40) DEF EnforceTenant
<1>8. sent \in SUBSET Nat
  <2>1. DOMAIN b = 1..Len(b) BY <1>3
  <2> QED BY <1>4, <2>1
<1> HIDE DEF o, acc, rej
<1>9. /\ n \in CallShape /\ n.pc = "done" /\ n.at = o.at /\ n.req = o.req /\ n.accepted = acc /\ n.rejected = rej
      /\ n.published = sent
  BY <1>1, <1>6, <1>8, ZenonT(40) DEF CallShape, Stages
<1> HIDE DEF n
<1>10. CallOK(n)
  <2>1. n.accepted = Cardinality(n.published) /\ n.accepted + n.rejected = Len(n.req.batch)
    BY <1>6, <1>9 DEF acc
  <2>2. n.req.app \in registered /\ n.req.app[1] = KeyRing[n.req.key].tenant BY <1>3, <1>7, <1>9
  <2>3. n.at \in Replicas /\ n.req \in Offered BY <1>3, <1>9
  <2>4. n.pc = "done" BY <1>9
  <2> QED BY <2>1, <2>2, <2>3, <2>4 DEF CallOK
<1>11. n.pc # "handle" /\ request[c].pc # "handle" BY <1>2, <1>9 DEF o
<1> QED BY <1>2, <1>5, <1>9, <1>10, <1>11, OneKeeps, ZenonT(40)

\* Every step of the edge keeps the invariant.
LEMMA EdgeStep == ASSUME EdgeConstantsOK, EdgeInv, [EdgeNext]_edgeVars PROVE EdgeInv'
<1>1. now \in Nat /\ registered \subseteq Apps BY DEF EdgeInv, EdgeTyped
<1>2. CASE EdgeTick
  <2> DEFINE later == now + 1
  <2>1. later \in Nat /\ now <= later BY <1>1
  <2>2. /\ now' = later /\ registered' = registered
        /\ bucket' = bucket /\ quota' = quota /\ appCache' = appCache /\ request' = request /\ granted' = granted
        /\ late' = late /\ admitted' = admitted /\ critical' = critical
    BY <1>2 DEF EdgeTick
  <2>3. registered \subseteq registered' /\ registered' \subseteq Apps BY <1>1, <2>2
  <2> HIDE DEF later
  <2> QED BY <2>1, <2>2, <2>3, OthersKeep, Zenon
<1>3. CASE \E a \in Apps : CreateApp(a)
  <2>1. /\ now' = now /\ registered \subseteq registered' /\ registered' \subseteq Apps
        /\ bucket' = bucket /\ quota' = quota /\ appCache' = appCache /\ request' = request /\ granted' = granted
        /\ late' = late /\ admitted' = admitted /\ critical' = critical
    BY <1>1, <1>3 DEF CreateApp
  <2>2. now <= now BY <1>1
  <2> QED BY <1>1, <2>1, <2>2, OthersKeep, Zenon
<1>4. CASE \E c \in Slots, r \in Replicas, q \in Offered : Arrive(c, r, q)
  BY <1>4, ArriveKeeps, Zenon
<1>5. CASE \E c \in Slots : Step(c)
  <2>1. PICK c \in Slots : Step(c) BY <1>5
  <2> QED BY <2>1, LimitKeeps, ValidKeeps, GetAppKeeps, RememberKeeps, DecompressKeeps, AllowKeeps, SubmitKeeps, Zenon DEF Step
<1>6. CASE UNCHANGED edgeVars
  <2>1. /\ now' = now /\ registered' = registered
        /\ bucket' = bucket /\ quota' = quota /\ appCache' = appCache /\ request' = request /\ granted' = granted
        /\ late' = late /\ admitted' = admitted /\ critical' = critical
    BY <1>6 DEF edgeVars
  <2>2. now <= now /\ registered \subseteq registered' /\ registered' \subseteq Apps BY <1>1, <2>1
  <2> QED BY <1>1, <2>1, <2>2, OthersKeep, Zenon
<1> QED BY <1>2, <1>3, <1>4, <1>5, <1>6, ZenonT(40) DEF EdgeNext

\* The invariant of the edge holds throughout, whatever the order in which the
\* scripts of the replicas run and whatever Redis and the registry fail.
THEOREM EdgeInvariant == ASSUME EdgeConstantsOK PROVE EdgeSpec => []EdgeInv
<1>1. EdgeInit => EdgeInv BY EdgeStart
<1>2. EdgeInv /\ [EdgeNext]_edgeVars => EdgeInv' BY EdgeStep
<1> QED BY <1>1, <1>2, PTL DEF EdgeSpec

\* The limits of the edge hold, for every rate, capacity, budget, number of
\* replicas and skew of their clocks: the bucket lets through its capacity and
\* what time refills, a window of batches stays within its budget, and no
\* outage opens a fail-closed procedure (rateLimit, Allow).
THEOREM EdgeLimits == ASSUME EdgeConstantsOK PROVE EdgeSpec => []LimitsHeld
<1>1. ASSUME EdgeInv PROVE LimitsHeld
  <2>1. now \in Nat /\ granted \in [Callers -> Nat] /\ late \in [Callers -> Nat] /\ critical \in [Callers -> Nat]
        /\ request \in [Slots -> CallShape]
    BY <1>1 DEF EdgeInv, EdgeTyped
  <2>2. Capacity \in Nat /\ Rate \in Nat /\ Ahead \in Nat /\ IsFiniteSet(Slots) BY DEF EdgeConstantsOK
  <2>3. RateBound
    <3>1. ASSUME NEW t \in Callers PROVE granted[t] <= Capacity + Rate * (now + late[t])
      <4> DEFINE b == bucket[t]
                 g == granted[t]
                 l == late[t]
      <4>1. g \in Nat /\ l \in Nat BY <2>1
      <4>2. BucketOK(b, g, l) BY <1>1 DEF EdgeInv, BucketsSound
      <4> HIDE DEF b, g, l
      <4>3. Rate * (now + l) \in Nat BY <2>1, <2>2, <4>1
      <4>4. CASE g = 0 BY <4>1, <4>3, <4>4, <2>2 DEF g, l
      <4>5. CASE /\ b \in [tokens : Nat, ts : Int, expires : Int] /\ b.ts <= now + Ahead
                 /\ g + b.tokens <= Capacity + Rate * (b.ts - Ahead + l)
        <5> DEFINE x == b.ts - Ahead + l
                   y == now + l
        <5>1. x \in Int /\ y \in Int /\ x <= y /\ b.tokens \in Nat BY <2>1, <2>2, <4>1, <4>5
        <5>2. g + b.tokens <= Capacity + Rate * x BY <4>5
        <5> HIDE DEF x, y
        <5>3. Rate * x <= Rate * y /\ Rate * x \in Int /\ Rate * y \in Int BY <5>1, <2>2
        <5>4. g <= Capacity + Rate * y BY <5>1, <5>2, <5>3, <4>1, <2>2
        <5> QED BY <5>4 DEF y, g, l
      <4> QED BY <4>2, <4>4, <4>5, Zenon DEF BucketOK
    <3> QED BY <3>1 DEF RateBound
  <2>4. QuotaHeld
    <3>1. ASSUME NEW k \in Callers \X Windows PROVE admitted[k] <= PerMinute
      <4>1. k = <<k[1], k[2]>> /\ k[1] \in Callers /\ k[2] \in Windows BY <3>1
      <4> QED BY <4>1, <1>1, Zenon DEF EdgeInv, CountersSound, QuotaOK
    <3> QED BY <3>1 DEF QuotaHeld
  <2>5. FailClosedHeld
    <3>1. ASSUME NEW t \in Callers PROVE critical[t] <= granted[t]
      <4>1. IsFiniteSet(Awaiting(t)) BY <2>2, FS_Subset DEF Awaiting
      <4>2. Cardinality(Awaiting(t)) \in Nat BY <4>1, FS_CardinalityType
      <4>3. critical[t] + Cardinality(Awaiting(t)) <= granted[t] BY <1>1, Zenon DEF EdgeInv, AwaitSound
      <4>4. critical[t] \in Nat /\ granted[t] \in Nat BY <2>1
      <4> QED BY <4>2, <4>3, <4>4
    <3> QED BY <3>1 DEF FailClosedHeld
  <2> QED BY <2>3, <2>4, <2>5 DEF LimitsHeld
<1>2. EdgeInv => LimitsHeld BY <1>1
<1> QED BY <1>2, EdgeInvariant, PTL

\* A batch is answered event by event with what was done, and what is published
\* names the caller's tenant and an app that it registered, whatever the caches
\* of the replicas remember (SubmitTelemetry, CachedAppValidator.Valid).
THEOREM BatchesAnswered == ASSUME EdgeConstantsOK PROVE EdgeSpec => []BatchAnswered
<1>1. EdgeInv => AnsweredInFull BY Zenon DEF EdgeInv, CallsSound, CallOK, AnsweredInFull
<1>2. EdgeInv => PublishedForCaller BY Zenon DEF EdgeInv, CallsSound, CallOK, PublishedForCaller
<1>3. EdgeInv => BatchAnswered BY <1>1, <1>2 DEF BatchAnswered
<1> QED BY <1>3, EdgeInvariant, PTL
====
