------------------------------ MODULE KeysProofs ------------------------------
(***************************************************************************)
(* The two caches behind keys, for any number of tenants, keys and calls:  *)
(* Sealing, the domain a tenant's secrets are sealed in, and Attestation,  *)
(* the provider's keys that verdicts are checked against.                  *)
(***************************************************************************)
EXTENDS Sealing, Attestation, TLAPS

-----------------------------------------------------------------------------
(* Sealing.                                                                *)

Rows == [cmk : KeyURIs \cup {None}, dedicated : BOOLEAN]
ValuesOf(kind) == IF kind = "cmk" THEN KeyURIs \cup {None} ELSE {TRUE, None}
Entries(kind) == [value : ValuesOf(kind), expiresAt : Nat]
Values == ValuesOf("cmk") \cup ValuesOf("dedicated") \cup Domains \cup Envelopes
Endings == {"sealed", "opened", "lookup_failed", "kms_failed", "kms_refused", "not_dedicated_envelope",
            "dedicated_disabled", "not_cmk_envelope", "cmk_disabled", "not_decrypted"}
Ops == [stage : {"idle", "lookup", "query", "put", "crypt", "done"}, what : SignedKeyOps \cup {None},
        tenant : Tenants \cup {None}, kind : Kinds \cup {None}, now : Nat, began : Nat,
        value : Values, answer : Endings \cup {None}]

StateTyped ==
    /\ tiers \subseteq Kinds /\ row \in [Tenants -> Rows]
    /\ DOMAIN cache = Kinds
    /\ \A k \in Kinds : cache[k] \in [Tenants -> Entries(k) \cup {None}]
    /\ lastSweep \in [Kinds -> Nat]
    /\ setter # None => setter \in Kinds \X Tenants
    /\ secret \in [Tenants -> Envelopes \cup {None}]
    /\ changed \in [Tenants -> Nat] /\ time \in Nat

\* An entry is what the row says, or was read before the row changed.
CacheSound ==
    \A k \in Kinds, t \in Tenants :
        LET entry == cache[k][t]
        IN  entry # None => /\ entry.expiresAt <= time + TTL
                            /\ entry.value = Selected(k, t) \/ entry.expiresAt <= changed[t] + TTL

\* What was sealed while the row stood is in the domain that the row names.
EnvelopeSound(t, envelope) ==
    envelope.began <= time /\ (Settled(t, envelope.began) => envelope.sealed = Configured(t))

SecretSound == \A t \in Tenants : secret[t] \in Envelopes => EnvelopeSound(t, secret[t])

\* What is known of an operation under way.
Working(o) ==
    /\ o.tenant \in Tenants /\ o.what \in SignedKeyOps /\ o.began <= time
    /\ o.what = "open" => secret[o.tenant] \in Envelopes

\* The dedicated tier is not the tenant's, or not the server's.
Passed(o) == "dedicated" \in tiers /\ Settled(o.tenant, o.began) => Selected("dedicated", o.tenant) = None

\* A resolver that the server has is asked, and for a customer's key only if the
\* dedicated tier did not answer.
Asking(o) == o.kind \in tiers /\ o.kind \in Kinds /\ (o.kind = "cmk" => Passed(o))

\* The answer of the database may be older than the last change of the row.
Answered(o) ==
    /\ o.value \in ValuesOf(o.kind)
    /\ o.value = Selected(o.kind, o.tenant) \/ o.now <= changed[o.tenant]

Choosing(o) == o.value \in Domains /\ (Settled(o.tenant, o.began) => o.value = Configured(o.tenant))

\* An operation that is over, by how it ended.
Ended(o) ==
    /\ o.answer \in {"sealed", "opened"} =>
          /\ o.tenant \in Tenants /\ o.value \in Envelopes /\ o.began <= time
          /\ Settled(o.tenant, o.began) => o.value.sealed = Configured(o.tenant)
    /\ o.what = "open" /\ o.value # None =>
          /\ o.tenant \in Tenants /\ o.value \in Envelopes /\ o.began <= time /\ o.value.began <= time
          /\ Settled(o.tenant, o.began) /\ Settled(o.tenant, o.value.began) => o.answer = "opened"

OpSound(o) ==
    /\ o.stage \in {"lookup", "query", "put", "crypt"} => Working(o)
    /\ o.stage \in {"lookup", "query", "put"} => Asking(o)
    /\ o.stage \in {"query", "put"} => o.began <= o.now /\ o.now <= time
    /\ o.stage = "put" => Answered(o)
    /\ o.stage = "crypt" => Choosing(o)
    /\ o.stage = "done" => Ended(o)
    /\ o.stage # "done" => o.answer = None

SealInv ==
    /\ StateTyped /\ CacheSound /\ SecretSound
    /\ call \in [Calls -> Ops]
    /\ \A c \in Calls : OpSound(call[c])

\* An envelope opens exactly in its own domain.
LEMMA OpensOwn ==
    ASSUME NEW r \in Domains, NEW s \in Domains
    PROVE  OpenForTenant(r, s) \in Endings /\ (OpenForTenant(r, s) = "opened" <=> s = r)
<1>1. ASSUME NEW d \in Domains
      PROVE  /\ d = [domain |-> d.domain, uri |-> d.uri] /\ d.domain \in {"platform", "dedicated", "cmk"}
             /\ d.domain # "cmk" => d.uri = None
  BY DEF Domains, Platform, Dedicated, encodeCMKEnvelope
<1>2. /\ r = [domain |-> r.domain, uri |-> r.uri] /\ r.domain \in {"platform", "dedicated", "cmk"}
      /\ r.domain # "cmk" => r.uri = None
  BY <1>1, Zenon
<1>3. /\ s = [domain |-> s.domain, uri |-> s.uri] /\ s.domain \in {"platform", "dedicated", "cmk"}
      /\ s.domain # "cmk" => s.uri = None
  BY <1>1, Zenon
<1>4. s = r <=> s.domain = r.domain /\ s.uri = r.uri
  BY <1>2, <1>3, Zenon
<1>5. OpenForTenant(r, s) \in Endings
  BY DEF OpenForTenant, Endings
<1>6. OpenForTenant(r, s) = "opened" <=> s.domain = r.domain /\ s.uri = r.uri
  BY ONLY <1>2, <1>3 DEF OpenForTenant, hasDedicatedMagic, hasCMKMagic
<1>7. QED
  BY <1>4, <1>5, <1>6, Zenon

\* What the row says to each resolver is a value of its kind, and the two
\* answers together name the domain.
LEMMA RowChoice ==
    ASSUME NEW t \in Tenants, row[t] \in Rows
    PROVE  /\ \A k \in Kinds : Selected(k, t) \in ValuesOf(k)
           /\ "dedicated" \in tiers /\ Selected("dedicated", t) = TRUE => Configured(t) = Dedicated
           /\ ("dedicated" \in tiers => Selected("dedicated", t) = None) /\ ("cmk" \in tiers => Selected("cmk", t) = None)
                  => Configured(t) = Platform
           /\ "cmk" \in tiers /\ Selected("cmk", t) # None => Configured(t) = encodeCMKEnvelope(Selected("cmk", t))
           /\ Configured(t) \in Domains
<1>1. row[t].cmk \in KeyURIs \cup {None} /\ row[t].dedicated \in BOOLEAN
  BY DEF Rows
<1>2. TRUE # None
  BY NoneAssumption
<1>3. QED
  BY <1>1, <1>2, Zenon DEF Selected, ValuesOf, Kinds, Configured, Domains

\* Time that passes changes nothing of what is known of an operation, as long
\* as the row stands and no secret is lost.
LEMMA OpKept ==
    ASSUME NEW o, OpSound(o), row' = row, tiers' = tiers, changed' = changed, time \in Nat, time' \in Nat, time <= time',
           \A t \in Tenants : secret[t] \in Envelopes => secret'[t] \in Envelopes,
           o \in Ops
    PROVE  OpSound(o)'
<1>1. \A t, b : /\ Settled(t, b)' <=> Settled(t, b)
                /\ Configured(t)' = Configured(t)
  BY Zenon DEF Settled, Configured
<1>2. \A k, t : Selected(k, t)' = Selected(k, t)
  BY Zenon DEF Selected
<1>3. \A n \in Nat : n <= time => n <= time'
  OBVIOUS
<1>4. o.began \in Nat /\ o.now \in Nat /\ (o.value \in Envelopes => o.value.began \in Nat)
  BY DEF Ops, Envelopes
<1>5. Working(o) => Working(o)'
  BY <1>3, <1>4, Zenon DEF Working
<1>6. Asking(o) => Asking(o)'
  BY <1>1, <1>2, Zenon DEF Asking, Passed
<1>7. Answered(o) => Answered(o)'
  BY <1>2, Zenon DEF Answered
<1>8. Choosing(o) => Choosing(o)'
  BY <1>1, Zenon DEF Choosing
<1>9. Ended(o) => Ended(o)'
  BY <1>1, <1>3, <1>4, Zenon DEF Ended
<1>10. QED
  BY <1>3, <1>4, <1>5, <1>6, <1>7, <1>8, <1>9, Zenon DEF OpSound

\* A step that leaves the row, the clock's past and the sealed secrets alone,
\* and moves one operation.
LEMMA OneMoves ==
    ASSUME SealInv, row' = row, tiers' = tiers, changed' = changed, secret' = secret, time' = time,
           NEW c \in Calls, NEW n \in Ops, OpSound(n), call' = [call EXCEPT ![c] = n]
    PROVE  call' \in [Calls -> Ops] /\ SecretSound' /\ \A d \in Calls : OpSound(call[d])'
<1>1. call \in [Calls -> Ops] /\ time \in Nat
  BY Zenon DEF SealInv, StateTyped
<1>2. time <= time
  BY <1>1
<1>3. \A o \in Ops : OpSound(o) => OpSound(o)'
  BY <1>1, <1>2, OpKept, Zenon
<1>4. \A d \in Calls : call'[d] \in Ops /\ OpSound(call'[d])
  BY <1>1, Zenon DEF SealInv
<1>5. \A d \in Calls : OpSound(call[d])'
  BY <1>3, <1>4, Zenon
<1>6. SecretSound'
  BY Zenon DEF SealInv, SecretSound, EnvelopeSound, Settled, Configured
<1>7. QED
  BY <1>1, <1>5, <1>6, Zenon

\* The cache and the types of the state, when a step leaves them alone.
LEMMA StateKept ==
    ASSUME SealInv, row' = row, tiers' = tiers, changed' = changed, time' = time, cache' = cache, lastSweep' = lastSweep,
           setter' = setter
    PROVE  CacheSound' /\ (secret' \in [Tenants -> Envelopes \cup {None}] => StateTyped')
BY Zenon DEF SealInv, StateTyped, CacheSound, Selected

\* Past the dedicated tier the key is asked for, or the platform key serves.
LEMMA FallbackSound ==
    ASSUME SealInv, NEW o \in Ops, Working(o), Passed(o), o.answer = None
    PROVE  Fallback(o) \in Ops /\ OpSound(Fallback(o))
<1> DEFINE n == Fallback(o)
<1>1. o.tenant \in Tenants /\ row[o.tenant] \in Rows /\ None \in Values /\ Platform \in Values /\ "cmk" \in Kinds
  BY Zenon DEF Working, SealInv, StateTyped, Values, ValuesOf, Domains, Kinds
<1>2. CASE "cmk" \in tiers
  <2>1. n = [o EXCEPT !.stage = "lookup", !.kind = "cmk", !.value = None, !.now = 0]
    BY <1>2, Zenon DEF Fallback
  <2> HIDE DEF n
  <2>2. /\ n \in Ops /\ n.stage = "lookup" /\ n.kind = "cmk" /\ n.tenant = o.tenant /\ n.began = o.began
        /\ n.what = o.what /\ n.answer = o.answer
    BY <1>1, <2>1 DEF Ops
  <2>3. Working(n) /\ Asking(n)
    BY <1>1, <1>2, <2>2, Zenon DEF Working, Asking, Passed
  <2>4. QED
    BY <2>2, <2>3 DEF OpSound, n
<1>3. CASE "cmk" \notin tiers
  <2>1. n = [o EXCEPT !.stage = "crypt", !.value = Platform, !.now = 0]
    BY <1>3, Zenon DEF Fallback
  <2>2. Settled(o.tenant, o.began) => Platform = Configured(o.tenant)
    BY <1>1, <1>3, RowChoice, Zenon DEF Passed
  <2> HIDE DEF n
  <2>3. /\ n \in Ops /\ n.stage = "crypt" /\ n.value = Platform /\ n.tenant = o.tenant /\ n.began = o.began
        /\ n.what = o.what /\ n.answer = o.answer
    BY <1>1, <2>1 DEF Ops
  <2>4. Working(n) /\ Choosing(n)
    BY <2>2, <2>3, Zenon DEF Working, Choosing, Domains
  <2>5. QED
    BY <2>3, <2>4 DEF OpSound, n
<1>4. QED
  BY <1>2, <1>3, Zenon

\* An answer of the resolver, of the cache or of the database, that is as the
\* row says if the row stood, takes the operation on.
LEMMA ResolvedSound ==
    ASSUME SealInv, NEW o \in Ops, Working(o), Asking(o), o.answer = None,
           NEW value \in ValuesOf(o.kind), Settled(o.tenant, o.began) => value = Selected(o.kind, o.tenant)
    PROVE  Resolved(o, value) \in Ops /\ OpSound(Resolved(o, value))
<1> DEFINE n == Resolved(o, value)
           domain == IF o.kind = "dedicated" THEN Dedicated
                     ELSE IF value = None THEN Platform ELSE encodeCMKEnvelope(value)
<1>1. o.tenant \in Tenants /\ o.kind \in Kinds /\ row[o.tenant] \in Rows /\ TRUE # None
  BY NoneAssumption, Zenon DEF Working, Asking, SealInv, StateTyped
<1>2. CASE o.kind = "dedicated" /\ value = None
  <2>1. Passed(o)
    BY <1>2, Zenon DEF Passed
  <2>2. n = Fallback(o)
    BY <1>2, Zenon DEF Resolved
  <2>3. QED
    BY <2>1, <2>2, FallbackSound, Zenon
<1>3. CASE ~(o.kind = "dedicated" /\ value = None)
  <2>1. n = [o EXCEPT !.stage = "crypt", !.now = 0, !.value = domain]
    BY <1>3, Zenon DEF Resolved
  <2>2. domain \in Domains
    BY <1>1, Zenon DEF Domains, ValuesOf, Kinds
  <2>3. Settled(o.tenant, o.began) => domain = Configured(o.tenant)
    <3> SUFFICES ASSUME Settled(o.tenant, o.began) PROVE domain = Configured(o.tenant)
      BY Zenon
    <3>1. value = Selected(o.kind, o.tenant)
      BY Zenon
    <3>2. CASE o.kind = "dedicated"
      BY <1>1, <1>3, <3>1, <3>2, RowChoice, Zenon DEF ValuesOf, Asking
    <3>3. CASE o.kind = "cmk"
      BY <1>1, <3>1, <3>3, RowChoice, Zenon DEF Asking, Passed
    <3>4. QED
      BY <1>1, <3>2, <3>3, Zenon DEF Kinds
  <2> HIDE DEF domain, n
  <2>4. /\ n \in Ops /\ n.stage = "crypt" /\ n.value = domain /\ n.tenant = o.tenant /\ n.began = o.began
        /\ n.what = o.what /\ n.answer = o.answer
    BY <2>1, <2>2 DEF Ops, Values
  <2>5. Working(n) /\ Choosing(n)
    BY <2>2, <2>3, <2>4, Zenon DEF Working, Choosing
  <2>6. QED
    BY <2>4, <2>5 DEF OpSound, n
<1>4. QED
  BY <1>2, <1>3, Zenon

\* A call begins with the dedicated tier, or past it.
LEMMA BeginKeeps ==
    ASSUME SealInv, NEW c \in Calls, NEW what \in SignedKeyOps, NEW t \in Tenants, Begin(c, what, t)
    PROVE  SealInv'
<1> DEFINE o == [Idle EXCEPT !.what = what, !.tenant = t, !.began = time]
           first == [o EXCEPT !.stage = "lookup", !.kind = "dedicated"]
           n == IF "dedicated" \in tiers THEN first ELSE Fallback(o)
<1>1. time \in Nat /\ secret \in [Tenants -> Envelopes \cup {None}] /\ (what = "open" => secret[t] # None)
  BY Zenon DEF SealInv, StateTyped, Begin
<1>2. None \in Values /\ "dedicated" \in Kinds
  BY Zenon DEF Values, ValuesOf, Kinds
<1>3. o \in Ops /\ o.what = what /\ o.tenant = t /\ o.began = time /\ o.answer = None
  BY <1>1, <1>2 DEF Idle, Ops
<1>4. /\ call' = [call EXCEPT ![c] = n]
      /\ row' = row /\ tiers' = tiers /\ changed' = changed /\ secret' = secret /\ time' = time /\ cache' = cache
      /\ lastSweep' = lastSweep /\ setter' = setter
  BY Zenon DEF Begin
<1> HIDE DEF o
<1>5. time <= time
  BY <1>1
<1>6. Working(o)
  BY <1>1, <1>3, <1>5, Zenon DEF Working
<1>7. CASE "dedicated" \in tiers
  <2>1. n = first
    BY <1>7, Zenon
  <2>2. /\ first \in Ops /\ first.stage = "lookup" /\ first.kind = "dedicated" /\ first.what = o.what
        /\ first.tenant = o.tenant /\ first.began = o.began /\ first.answer = None
    BY <1>2, <1>3 DEF Ops
  <2> HIDE DEF n, first
  <2>3. Working(first)
    BY <1>6, <2>2, Zenon DEF Working
  <2>4. Asking(first)
    BY <1>2, <1>7, <2>2 DEF Asking
  <2>5. OpSound(first)
    BY <2>2, <2>3, <2>4 DEF OpSound
  <2>6. QED
    BY <1>4, <2>1, <2>2, <2>5, OneMoves, StateKept, Zenon DEF SealInv, StateTyped
<1>8. CASE "dedicated" \notin tiers
  <2>1. n = Fallback(o) /\ Passed(o)
    BY <1>8, Zenon DEF Passed
  <2>2. n \in Ops /\ OpSound(n)
    BY <1>3, <1>6, <2>1, FallbackSound, Zenon
  <2> HIDE DEF n
  <2>3. QED
    BY <1>4, <2>2, OneMoves, StateKept, Zenon DEF SealInv, StateTyped
<1>9. QED
  BY <1>7, <1>8, Zenon

\* A fresh entry answers; otherwise the database is asked.
LEMMA LookupKeeps == ASSUME SealInv, NEW c \in Calls, Lookup(c) PROVE SealInv'
<1> DEFINE o == call[c]
           entry == cache[o.kind][o.tenant]
           n == IF Fresh(entry, time) THEN Resolved(o, entry.value) ELSE [o EXCEPT !.stage = "query", !.now = time]
<1>1. /\ o \in Ops /\ OpSound(o) /\ o.stage = "lookup"
  BY Zenon DEF SealInv, Lookup
<1>2. Working(o) /\ Asking(o) /\ o.answer = None
  BY <1>1 DEF OpSound
<1>3. /\ call' = [call EXCEPT ![c] = n]
      /\ row' = row /\ tiers' = tiers /\ changed' = changed /\ secret' = secret /\ time' = time /\ cache' = cache
      /\ lastSweep' = lastSweep /\ setter' = setter
  BY Zenon DEF Lookup
<1>4. /\ time \in Nat /\ o.tenant \in Tenants /\ o.kind \in Kinds /\ o.began \in Nat /\ o.began <= time
      /\ changed[o.tenant] \in Nat
  BY <1>1, <1>2 DEF Working, Asking, SealInv, StateTyped, Ops
<1>5. n \in Ops /\ OpSound(n)
  <2>1. CASE Fresh(entry, time)
    <3>1. entry # None /\ time < entry.expiresAt
      BY <2>1, Zenon DEF Fresh
    <3>2. entry \in Entries(o.kind)
      BY <1>4, <3>1, Zenon DEF SealInv, StateTyped
    <3>3. entry.value \in ValuesOf(o.kind) /\ entry.expiresAt \in Nat
      BY <3>2 DEF Entries
    <3>4. entry.value = Selected(o.kind, o.tenant) \/ entry.expiresAt <= changed[o.tenant] + TTL
      BY <1>4, <3>1, Zenon DEF SealInv, CacheSound
    <3>5. Settled(o.tenant, o.began) => ~(entry.expiresAt <= changed[o.tenant] + TTL)
      <4> HIDE DEF o, entry
      <4>1. QED
        BY <1>4, <3>1, <3>3, TTLAssumption DEF Settled
    <3>6. QED
      BY <1>1, <1>2, <2>1, <3>3, <3>4, <3>5, ResolvedSound, Zenon
  <2>2. CASE ~Fresh(entry, time)
    <3>1. n = [o EXCEPT !.stage = "query", !.now = time]
      BY <2>2, Zenon
    <3> HIDE DEF o, n
    <3>2. /\ n \in Ops /\ n.stage = "query" /\ n.now = time /\ n.tenant = o.tenant /\ n.began = o.began
          /\ n.kind = o.kind /\ n.what = o.what /\ n.answer = o.answer
      BY <1>1, <1>4, <3>1 DEF Ops
    <3>3. Working(n) /\ Asking(n)
      BY <1>2, <3>2, Zenon DEF Working, Asking, Passed
    <3>4. time <= time
      BY <1>4
    <3>5. QED
      BY <1>2, <1>4, <3>2, <3>3, <3>4 DEF OpSound
  <2>3. QED
    BY <2>1, <2>2, Zenon
<1> HIDE DEF n
<1>6. QED
  BY <1>3, <1>5, OneMoves, StateKept, Zenon DEF SealInv, StateTyped

\* How an operation ends.
Over(o, answer, e) == [o EXCEPT !.stage = "done", !.answer = answer, !.kind = None, !.now = 0, !.value = e]

\* One that failed without an envelope claims nothing.
LEMMA FailureSound ==
    ASSUME NEW n \in Ops, n.stage = "done", n.answer \in {"lookup_failed", "kms_failed"}, n.value = None
    PROVE  OpSound(n)
BY DEF OpSound, Ended

\* The database answers with the row as it is.
LEMMA QueryKeeps == ASSUME SealInv, NEW c \in Calls, QueryRow(c) PROVE SealInv'
<1> DEFINE o == call[c]
<1>1. /\ o \in Ops /\ OpSound(o) /\ o.stage = "query"
      /\ row' = row /\ tiers' = tiers /\ changed' = changed /\ secret' = secret /\ time' = time /\ cache' = cache
      /\ lastSweep' = lastSweep /\ setter' = setter
  BY Zenon DEF SealInv, QueryRow
<1>2. \E n \in Ops : OpSound(n) /\ call' = [call EXCEPT ![c] = n]
  <2>1. CASE Ends(c, "lookup_failed", None)
    <3> DEFINE n == Over(o, "lookup_failed", None)
    <3>1. call' = [call EXCEPT ![c] = n]
      BY <2>1, Zenon DEF Ends, Over
    <3>2. "lookup_failed" \in Endings /\ None \in Values
      BY DEF Endings, Values, ValuesOf
    <3> HIDE DEF o
    <3>3. n \in Ops /\ n.stage = "done" /\ n.answer = "lookup_failed" /\ n.value = None
      BY <1>1, <3>2 DEF Ops, Over
    <3> HIDE DEF n
    <3>4. n.answer \in {"lookup_failed", "kms_failed"}
      BY <3>3
    <3>5. OpSound(n)
      BY <3>3, <3>4, FailureSound, Zenon
    <3>6. QED
      BY <3>1, <3>3, <3>5, Zenon
  <2>2. CASE call' = [call EXCEPT ![c].stage = "put", ![c].value = Selected(o.kind, o.tenant)]
    <3> DEFINE v == Selected(o.kind, o.tenant)
               n == [o EXCEPT !.stage = "put", !.value = v]
    <3>1. call' = [call EXCEPT ![c] = n]
      BY <2>2
    <3>2. Working(o) /\ Asking(o) /\ o.began <= o.now /\ o.now <= time /\ o.answer = None
      BY <1>1 DEF OpSound
    <3>3. v \in ValuesOf(o.kind)
      BY <3>2, RowChoice, Zenon DEF Working, Asking, SealInv, StateTyped
    <3>4. v \in Values
      BY <3>3, Zenon DEF Values, ValuesOf
    <3> HIDE DEF n, o, v
    <3>5. /\ n \in Ops /\ n.stage = "put" /\ n.value = v /\ n.tenant = o.tenant /\ n.began = o.began
          /\ n.kind = o.kind /\ n.what = o.what /\ n.answer = o.answer /\ n.now = o.now
      BY <1>1, <3>4 DEF Ops, n
    <3>6. Working(n) /\ Asking(n) /\ Answered(n)
      BY <3>2, <3>3, <3>5, Zenon DEF Working, Asking, Passed, Answered, v
    <3>7. OpSound(n)
      BY <3>2, <3>5, <3>6 DEF OpSound
    <3>8. QED
      BY <3>1, <3>5, <3>7, Zenon
  <2>3. QED
    BY <2>1, <2>2, Zenon DEF QueryRow
<1>3. QED
  BY <1>1, <1>2, OneMoves, StateKept, Zenon DEF SealInv, StateTyped

\* What was read before the row changed expires in time.
LEMMA PutKeeps == ASSUME SealInv, NEW c \in Calls, Put(c) PROVE SealInv'
<1> DEFINE o == call[c]
           entry == [value |-> o.value, expiresAt |-> Expiry(o)]
           filled == [cache[o.kind] EXCEPT ![o.tenant] = entry]
           swept == sweepLocked(filled, o.kind, o.now)
           n == Resolved(o, o.value)
<1>1. /\ o \in Ops /\ OpSound(o) /\ o.stage = "put"
      /\ call' = [call EXCEPT ![c] = n]
      /\ row' = row /\ tiers' = tiers /\ changed' = changed /\ secret' = secret /\ time' = time /\ setter' = setter
      /\ cache' = [cache EXCEPT ![o.kind] = swept]
  BY Zenon DEF SealInv, Put
<1>2. Working(o) /\ Asking(o) /\ Answered(o) /\ o.began <= o.now /\ o.now <= time /\ o.answer = None
  BY <1>1 DEF OpSound
<1>3. /\ o.tenant \in Tenants /\ o.kind \in Kinds /\ o.began \in Nat /\ o.now \in Nat /\ time \in Nat
      /\ changed[o.tenant] \in Nat /\ TTL \in Nat
  BY <1>1, <1>2, TTLAssumption DEF Working, Asking, SealInv, StateTyped, Ops
<1>4. Settled(o.tenant, o.began) => o.value = Selected(o.kind, o.tenant)
  <2> HIDE DEF o
  <2>1. Settled(o.tenant, o.began) => ~(o.now <= changed[o.tenant])
    BY <1>2, <1>3, TTLAssumption DEF Settled
  <2>2. QED
    BY <1>2, <2>1, Zenon DEF Answered
<1>5. n \in Ops /\ OpSound(n)
  BY <1>1, <1>2, <1>4, ResolvedSound, Zenon DEF Answered
<1>6. call' \in [Calls -> Ops] /\ SecretSound' /\ \A d \in Calls : OpSound(call[d])'
  <2> HIDE DEF n, o
  <2>1. QED
    BY <1>1, <1>5, OneMoves, Zenon
<1>7. /\ entry \in Entries(o.kind) /\ entry.expiresAt <= time + TTL
      /\ entry.value = Selected(o.kind, o.tenant) \/ entry.expiresAt <= changed[o.tenant] + TTL
  <2>1. /\ entry.value = o.value /\ entry.expiresAt = o.now + TTL /\ o.value \in ValuesOf(o.kind)
        /\ o.value = Selected(o.kind, o.tenant) \/ o.now <= changed[o.tenant]
    BY <1>2, Zenon DEF Expiry, Answered
  <2>2. entry \in Entries(o.kind)
    <3> HIDE DEF o
    <3>1. QED
      BY <1>3, <2>1 DEF Entries, Expiry
  <2> HIDE DEF entry, o
  <2>3. QED
    BY <1>2, <1>3, <2>1, <2>2
<1>8. /\ DOMAIN cache = Kinds
      /\ \A k \in Kinds : cache[k] \in [Tenants -> Entries(k) \cup {None}]
  BY Zenon DEF SealInv, StateTyped
<1>9. \A t \in Tenants : swept[t] = None \/ (t = o.tenant /\ swept[t] = entry) \/ swept[t] = cache[o.kind][t]
  <2>1. filled \in [Tenants -> Entries(o.kind) \cup {None}]
    BY <1>3, <1>7, <1>8, Zenon
  <2>2. \A t \in Tenants : (t = o.tenant /\ filled[t] = entry) \/ filled[t] = cache[o.kind][t]
    BY <1>3, <1>8, Zenon
  <2>3. \A t \in Tenants : swept[t] = None \/ swept[t] = filled[t]
    BY <1>3, Zenon DEF sweepLocked
  <2>4. QED
    BY <2>2, <2>3, Zenon
<1>10. swept \in [Tenants -> Entries(o.kind) \cup {None}]
  <2>1. filled \in [Tenants -> Entries(o.kind) \cup {None}]
    BY <1>3, <1>7, <1>8, Zenon
  <2> HIDE DEF filled
  <2>2. QED
    BY <2>1, Zenon DEF sweepLocked
<1> HIDE DEF swept, entry, o
<1>11. /\ DOMAIN cache' = Kinds
       /\ \A k \in Kinds : cache'[k] \in [Tenants -> Entries(k) \cup {None}]
  BY <1>1, <1>3, <1>8, <1>10, Zenon
<1>12. CacheSound'
  <2> SUFFICES ASSUME NEW k \in Kinds, NEW t \in Tenants, cache'[k][t] # None
               PROVE  /\ cache'[k][t].expiresAt <= time + TTL
                      /\ cache'[k][t].value = Selected(k, t) \/ cache'[k][t].expiresAt <= changed[t] + TTL
    BY <1>1, Zenon DEF CacheSound, Selected
  <2>1. cache'[k][t] = cache[k][t] \/ (k = o.kind /\ t = o.tenant /\ cache'[k][t] = entry)
    BY <1>1, <1>3, <1>8, <1>9, Zenon
  <2>2. QED
    BY <1>7, <2>1, Zenon DEF SealInv, CacheSound
<1>13. lastSweep' \in [Kinds -> Nat]
  BY <1>1, <1>3 DEF SealInv, StateTyped, Put, o
<1>14. StateTyped'
  BY <1>1, <1>11, <1>13, Zenon DEF SealInv, StateTyped
<1>15. QED
  BY <1>6, <1>12, <1>14, Zenon DEF SealInv

\* A KMS that fails leaves what was sealed as it was.
LEMMA KmsFails ==
    ASSUME SealInv, NEW c \in Calls, Ends(c, "kms_failed", None)
    PROVE  \E n \in Ops : OpSound(n) /\ call' = [call EXCEPT ![c] = n]
<1> DEFINE o == call[c]
           n == Over(o, "kms_failed", None)
<1>1. call' = [call EXCEPT ![c] = n] /\ o \in Ops
  BY Zenon DEF Ends, Over, SealInv
<1>2. "kms_failed" \in Endings /\ None \in Values
  BY DEF Endings, Values, ValuesOf
<1> HIDE DEF o
<1>3. n \in Ops /\ n.stage = "done" /\ n.answer = "kms_failed" /\ n.value = None
  BY <1>1, <1>2 DEF Ops, Over
<1> HIDE DEF n
<1>4. n.answer \in {"lookup_failed", "kms_failed"}
  BY <1>3
<1>5. QED
  BY <1>1, <1>3, <1>4, FailureSound, Zenon

\* The secret is sealed in the domain chosen, and the answer says so.
LEMMA SealKeeps == ASSUME SealInv, NEW c \in Calls, Crypt(c), call[c].what = "seal" PROVE SealInv'
<1> DEFINE o == call[c]
           e == [sealed |-> o.value, began |-> o.began]
<1>1. /\ o \in Ops /\ OpSound(o) /\ o.stage = "crypt" /\ SealForTenant(c)
      /\ row' = row /\ tiers' = tiers /\ changed' = changed /\ time' = time /\ cache' = cache
      /\ lastSweep' = lastSweep /\ setter' = setter
  BY Zenon DEF SealInv, Crypt
<1>2. Working(o) /\ Choosing(o) /\ o.answer = None
  BY <1>1 DEF OpSound
<1>3. CASE Ends(c, "kms_failed", None) /\ secret' = secret
  <2>1. \E n \in Ops : OpSound(n) /\ call' = [call EXCEPT ![c] = n]
    BY <1>3, KmsFails, Zenon
  <2>2. QED
    BY <1>1, <1>3, <2>1, OneMoves, StateKept, Zenon DEF SealInv, StateTyped
<1>4. CASE secret' = [secret EXCEPT ![o.tenant] = e] /\ Ends(c, "sealed", e)
  <2> DEFINE n == Over(o, "sealed", e)
  <2>1. call' = [call EXCEPT ![c] = n]
    BY <1>4, Zenon DEF Ends, Over
  <2>2. "sealed" \in Endings
    BY DEF Endings
  <2>3. o.value \in Domains /\ o.began \in Nat /\ o.tenant \in Tenants /\ o.began <= time
    BY <1>1, <1>2 DEF Working, Choosing, Ops
  <2> HIDE DEF o
  <2>4. e \in Envelopes /\ e.sealed = o.value /\ e.began = o.began
    BY <2>3 DEF Envelopes
  <2> HIDE DEF e
  <2>5. e \in Values
    BY <2>4, Zenon DEF Values
  <2>6. /\ n \in Ops /\ n.stage = "done" /\ n.answer = "sealed" /\ n.value = e /\ n.what = o.what
        /\ n.tenant = o.tenant /\ n.began = o.began
    BY <1>1, <2>2, <2>5 DEF Ops, Over
  <2>7. o.what = "seal"
    BY DEF o
  <2> HIDE DEF n
  <2>8. Settled(o.tenant, o.began) => e.sealed = Configured(o.tenant)
    BY <1>2, <2>4, Zenon DEF Choosing
  <2>9. Ended(n)
    BY <2>3, <2>4, <2>6, <2>7, <2>8 DEF Ended
  <2>10. OpSound(n)
    BY <2>6, <2>9 DEF OpSound
  <2>11. secret' \in [Tenants -> Envelopes \cup {None}]
    BY <1>4, <2>4, Zenon DEF SealInv, StateTyped
  <2>12. SecretSound'
    <3>1. EnvelopeSound(o.tenant, e)
      BY <2>3, <2>4, <2>8 DEF EnvelopeSound
    <3>2. \A t \in Tenants : secret'[t] = secret[t] \/ (t = o.tenant /\ secret'[t] = e)
      BY <1>4, Zenon DEF SealInv, StateTyped
    <3>3. \A t \in Tenants : secret'[t] \in Envelopes => EnvelopeSound(t, secret'[t])
      BY <3>1, <3>2, Zenon DEF SealInv, SecretSound
    <3>4. QED
      BY <1>1, <3>3, Zenon DEF SecretSound, EnvelopeSound, Settled, Configured
  <2>13. time \in Nat /\ time <= time
    BY DEF SealInv, StateTyped
  <2>14. \A t \in Tenants : secret[t] \in Envelopes => secret'[t] \in Envelopes
    BY <1>4, <2>4, Zenon DEF SealInv, StateTyped
  <2>15. \A p \in Ops : OpSound(p) => OpSound(p)'
    BY <1>1, <2>13, <2>14, OpKept, Zenon
  <2>16. call \in [Calls -> Ops] /\ \A d \in Calls : call'[d] \in Ops /\ OpSound(call'[d])
    BY <2>1, <2>6, <2>10, Zenon DEF SealInv
  <2>17. call' \in [Calls -> Ops] /\ \A d \in Calls : OpSound(call[d])'
    BY <2>1, <2>6, <2>15, <2>16, Zenon
  <2>18. QED
    BY <1>1, <2>11, <2>12, <2>17, StateKept, Zenon DEF SealInv
<1>5. QED
  BY <1>1, <1>3, <1>4, Zenon DEF SealForTenant

\* A stored secret opens exactly in the domain chosen.
LEMMA OpenKeeps == ASSUME SealInv, NEW c \in Calls, Crypt(c), call[c].what # "seal" PROVE SealInv'
<1> DEFINE o == call[c]
           e == secret[o.tenant]
           answer == OpenForTenant(o.value, e.sealed)
<1>1. /\ o \in Ops /\ OpSound(o) /\ o.stage = "crypt" /\ Open(c)
      /\ row' = row /\ tiers' = tiers /\ changed' = changed /\ time' = time /\ cache' = cache
      /\ lastSweep' = lastSweep /\ setter' = setter /\ secret' = secret
  BY Zenon DEF SealInv, Crypt, Open
<1>2. Working(o) /\ Choosing(o) /\ o.answer = None
  BY <1>1 DEF OpSound
<1>3. o.what = "open" /\ o.tenant \in Tenants /\ e \in Envelopes /\ EnvelopeSound(o.tenant, e) /\ o.value \in Domains
  BY <1>2, Zenon DEF Working, Choosing, SignedKeyOps, SealInv, SecretSound
<1>4. \E n \in Ops : OpSound(n) /\ call' = [call EXCEPT ![c] = n]
  <2>1. CASE Ends(c, "kms_failed", None)
    BY <2>1, KmsFails, Zenon
  <2>2. CASE Ends(c, answer, e)
    <3> DEFINE n == Over(o, answer, e)
    <3>1. call' = [call EXCEPT ![c] = n]
      BY <2>2, Zenon DEF Ends, Over
    <3> HIDE DEF o, e
    <3>2. e.sealed \in Domains /\ e \in Values
      BY <1>3 DEF Envelopes, Values
    <3>3. answer \in Endings /\ (answer = "opened" <=> e.sealed = o.value)
      BY <1>3, <3>2, OpensOwn, Zenon
    <3>4. answer # "sealed"
      BY DEF OpenForTenant
    <3> HIDE DEF answer
    <3>5. /\ n \in Ops /\ n.stage = "done" /\ n.answer = answer /\ n.value = e /\ n.what = o.what
          /\ n.tenant = o.tenant /\ n.began = o.began
      BY <1>1, <3>2, <3>3 DEF Ops, Over
    <3> HIDE DEF n
    <3>6. o.began <= time /\ e.began <= time
      BY <1>2, <1>3, Zenon DEF Working, EnvelopeSound
    <3>7. answer = "opened" /\ Settled(o.tenant, o.began) => e.sealed = Configured(o.tenant)
      BY <1>2, <3>3, Zenon DEF Choosing
    <3>8. Settled(o.tenant, o.began) /\ Settled(o.tenant, e.began) => answer = "opened"
      BY <1>2, <1>3, <3>3, Zenon DEF Choosing, EnvelopeSound
    <3>9. Ended(n)
      BY <1>3, <3>4, <3>5, <3>6, <3>7, <3>8 DEF Ended
    <3>10. OpSound(n)
      BY <3>5, <3>9 DEF OpSound
    <3>11. QED
      BY <3>1, <3>5, <3>10, Zenon
  <2>3. QED
    BY <1>1, <2>1, <2>2, Zenon DEF Open
<1>5. QED
  BY <1>1, <1>4, OneMoves, StateKept, Zenon DEF SealInv, StateTyped

\* A change of the row leaves nothing settled that had begun by then.
LEMMA SetRowKeeps ==
    ASSUME SealInv, NEW t \in Tenants, NEW kind \in Kinds, NEW new \in Rows, NEW here, SetRow(t, kind, new, here)
    PROVE  SealInv'
<1>1. /\ row' = [row EXCEPT ![t] = new] /\ changed' = [changed EXCEPT ![t] = time]
      /\ setter' = (IF here THEN <<kind, t>> ELSE None)
      /\ cache' = cache /\ lastSweep' = lastSweep /\ call' = call /\ secret' = secret /\ time' = time /\ tiers' = tiers
  BY Zenon DEF SetRow
<1>2. StateTyped /\ CacheSound /\ SecretSound /\ call \in [Calls -> Ops] /\ \A c \in Calls : OpSound(call[c])
  BY Zenon DEF SealInv
<1>3. time \in Nat /\ TTL \in Nat \ {0}
  BY <1>2, TTLAssumption, Zenon DEF StateTyped
<1>4. /\ \A s \in Tenants : s # t => row'[s] = row[s] /\ changed'[s] = changed[s]
      /\ row'[t] = new /\ changed'[t] = time
  BY <1>1, <1>2, Zenon DEF StateTyped
<1>5. /\ \A b : \A s \in Tenants : s # t => (Settled(s, b)' <=> Settled(s, b)) /\ Configured(s)' = Configured(s)
      /\ \A k, s : s \in Tenants /\ s # t => Selected(k, s)' = Selected(k, s)
  <2>1. tiers' = tiers
    BY <1>1, Zenon
  <2>2. ASSUME NEW s \in Tenants, s # t
        PROVE  /\ \A b : Settled(s, b)' <=> Settled(s, b)
               /\ Configured(s)' = Configured(s)
               /\ \A k : Selected(k, s)' = Selected(k, s)
    <3>1. row'[s] = row[s] /\ changed'[s] = changed[s]
      BY <1>4, <2>2, Zenon
    <3>2. \A b : Settled(s, b)' <=> Settled(s, b)
      BY <3>1, Zenon DEF Settled
    <3>3. Configured(s)' = Configured(s)
      BY <2>1, <3>1, Zenon DEF Configured
    <3>4. \A k : Selected(k, s)' = Selected(k, s)
      BY <3>1, Zenon DEF Selected
    <3>5. QED
      BY <3>2, <3>3, <3>4, Zenon
  <2>3. QED
    BY <2>2, Zenon
<1>6. \A b \in Nat : b <= time => ~Settled(t, b)'
  BY <1>3, <1>4 DEF Settled
<1>7. StateTyped'
  <2>1. row' \in [Tenants -> Rows] /\ changed' \in [Tenants -> Nat]
    BY <1>1, <1>2, <1>3, Zenon DEF StateTyped
  <2>2. setter' # None => setter' \in Kinds \X Tenants
    BY <1>1
  <2>3. QED
    BY <1>1, <1>2, <2>1, <2>2, Zenon DEF StateTyped
<1>8. CacheSound'
  <2> SUFFICES ASSUME NEW k \in Kinds, NEW s \in Tenants, cache[k][s] # None
               PROVE  /\ cache[k][s].expiresAt <= time + TTL
                      /\ cache[k][s].value = Selected(k, s)' \/ cache[k][s].expiresAt <= changed'[s] + TTL
    BY <1>1, Zenon DEF CacheSound
  <2>1. /\ cache[k][s].expiresAt <= time + TTL
        /\ cache[k][s].value = Selected(k, s) \/ cache[k][s].expiresAt <= changed[s] + TTL
    BY <1>2, Zenon DEF CacheSound
  <2>2. QED
    BY <1>4, <1>5, <2>1, Zenon
<1>9. SecretSound'
  <2> SUFFICES ASSUME NEW s \in Tenants, secret[s] \in Envelopes
               PROVE  EnvelopeSound(s, secret[s])'
    BY <1>1, Zenon DEF SecretSound
  <2>1. EnvelopeSound(s, secret[s]) /\ secret[s].began \in Nat
    BY <1>2 DEF SecretSound, Envelopes
  <2>2. QED
    BY <1>1, <1>5, <1>6, <2>1, Zenon DEF EnvelopeSound
<1>10. ASSUME NEW o \in Ops, OpSound(o) PROVE OpSound(o)'
  <2>1. o.began \in Nat /\ o.now \in Nat /\ (o.value \in Envelopes => o.value.began \in Nat)
    BY DEF Ops, Envelopes
  <2>2. Working(o) => Working(o)'
    BY <1>1, Zenon DEF Working
  <2>3. Working(o) /\ Asking(o) => Asking(o)'
    BY <1>1, <1>5, <1>6, <2>1, Zenon DEF Working, Asking, Passed
  <2>4. Working(o) /\ o.now <= time /\ Answered(o) => Answered(o)'
    BY <1>4, <1>5, Zenon DEF Working, Answered
  <2>5. Working(o) /\ Choosing(o) => Choosing(o)'
    BY <1>5, <1>6, <2>1, Zenon DEF Working, Choosing
  <2>6. Ended(o) => Ended(o)'
    BY <1>1, <1>5, <1>6, <2>1, Zenon DEF Ended
  <2>7. QED
    BY <1>1, <1>10, <2>2, <2>3, <2>4, <2>5, <2>6 DEF OpSound
<1>11. QED
  BY <1>1, <1>2, <1>7, <1>8, <1>9, <1>10, Zenon DEF SealInv

\* An entry that is dropped claims nothing.
LEMMA InvalidateKeeps == ASSUME SealInv, Invalidate PROVE SealInv'
<1>1. /\ cache' = [cache EXCEPT ![setter[1]][setter[2]] = None] /\ setter' = None
      /\ row' = row /\ tiers' = tiers /\ changed' = changed /\ lastSweep' = lastSweep /\ call' = call /\ secret' = secret /\ time' = time
  BY Zenon DEF Invalidate
<1>2. setter[1] \in Kinds /\ setter[2] \in Tenants
  BY DEF Invalidate, SealInv, StateTyped
<1>3. StateTyped /\ CacheSound /\ SecretSound /\ call \in [Calls -> Ops] /\ \A c \in Calls : OpSound(call[c])
  BY Zenon DEF SealInv
<1>4. \A k \in Kinds, t \in Tenants : cache'[k][t] = cache[k][t] \/ cache'[k][t] = None
  BY <1>1, <1>2, <1>3 DEF StateTyped
<1>5. DOMAIN cache' = Kinds /\ \A k \in Kinds : cache'[k] \in [Tenants -> Entries(k) \cup {None}]
  BY <1>1, <1>2, <1>3 DEF StateTyped
<1>6. StateTyped'
  BY <1>1, <1>3, <1>5, Zenon DEF StateTyped
<1>7. CacheSound'
  BY <1>1, <1>3, <1>4, Zenon DEF CacheSound, Selected
<1>8. SecretSound'
  BY <1>1, <1>3, Zenon DEF SecretSound, EnvelopeSound, Settled, Configured
<1>9. time \in Nat /\ time <= time
  BY <1>3 DEF StateTyped
<1>10. \A o \in Ops : OpSound(o) => OpSound(o)'
  BY <1>1, <1>9, OpKept, Zenon
<1>11. QED
  BY <1>1, <1>3, <1>6, <1>7, <1>8, <1>10, Zenon DEF SealInv

\* Time passes.
LEMMA TickKeeps == ASSUME SealInv, Tick PROVE SealInv'
<1>1. /\ time' = time + 1 /\ cache' = cache /\ setter' = setter
      /\ row' = row /\ tiers' = tiers /\ changed' = changed /\ lastSweep' = lastSweep /\ call' = call /\ secret' = secret
  BY Zenon DEF Tick
<1>2. StateTyped /\ CacheSound /\ SecretSound /\ call \in [Calls -> Ops] /\ \A c \in Calls : OpSound(call[c])
  BY Zenon DEF SealInv
<1>3. time \in Nat /\ time' \in Nat /\ time <= time' /\ TTL \in Nat
  BY <1>1, <1>2, TTLAssumption DEF StateTyped
<1>4. \A n \in Nat : /\ n <= time => n <= time'
                     /\ n <= time + TTL => n <= time' + TTL
  BY <1>1, <1>3
<1>5. StateTyped'
  BY <1>1, <1>2, <1>3, Zenon DEF StateTyped
<1>6. CacheSound'
  <2>1. \A k \in Kinds, t \in Tenants : cache[k][t] # None => cache[k][t].expiresAt \in Nat
    BY <1>2 DEF StateTyped, Entries
  <2>2. QED
    BY <1>1, <1>2, <1>4, <2>1, Zenon DEF CacheSound, Selected
<1>7. SecretSound'
  <2>1. \A t \in Tenants : secret[t] \in Envelopes => secret[t].began \in Nat
    BY DEF Envelopes
  <2>2. QED
    BY <1>1, <1>2, <1>4, <2>1, Zenon DEF SecretSound, EnvelopeSound, Settled, Configured
<1>8. \A o \in Ops : OpSound(o) => OpSound(o)'
  BY <1>1, <1>3, OpKept, Zenon
<1>9. QED
  BY <1>1, <1>2, <1>5, <1>6, <1>7, <1>8, Zenon DEF SealInv

\* A server that has just started, whatever the rows say.
LEMMA SealInit == Init => SealInv
<1> SUFFICES ASSUME Init PROVE SealInv
  BY Zenon
<1>1. Idle \in Ops /\ Idle.stage = "idle" /\ Idle.answer = None
  <2>1. None \in Values
    BY DEF Values, ValuesOf
  <2>2. QED
    BY <2>1 DEF Idle, Ops
<1>2. OpSound(Idle)
  BY <1>1 DEF OpSound
<1>3. call \in [Calls -> Ops] /\ \A c \in Calls : OpSound(call[c])
  BY <1>1, <1>2, Zenon DEF Init
<1>4. \A k \in Kinds, t \in Tenants : cache[k][t] = None
  BY Zenon DEF Init
<1>5. StateTyped
  <2>1. \A k \in Kinds : cache[k] \in [Tenants -> Entries(k) \cup {None}]
    BY Zenon DEF Init
  <2>2. time \in Nat /\ row \in [Tenants -> Rows] /\ changed \in [Tenants -> Nat] /\ lastSweep \in [Kinds -> Nat]
    BY TTLAssumption DEF Init, Rows
  <2>3. QED
    BY <2>1, <2>2, Zenon DEF Init, StateTyped
<1>6. CacheSound
  BY <1>4, Zenon DEF CacheSound
<1>7. SecretSound
  <2> SUFFICES ASSUME NEW t \in Tenants, secret[t] \in Envelopes PROVE EnvelopeSound(t, secret[t])
    BY Zenon DEF SecretSound
  <2>1. None \in Envelopes
    BY Zenon DEF Init
  <2>2. QED
    BY <2>1, NoneAssumption, Zenon
<1>8. QED
  BY <1>3, <1>5, <1>6, <1>7, Zenon DEF SealInv

\* Every step of the server, of another process or of the clock.
LEMMA SealStep == ASSUME SealInv, [Next]_vars PROVE SealInv'
<1>1. CASE UNCHANGED vars
  <2>1. /\ row' = row /\ tiers' = tiers /\ changed' = changed /\ time' = time /\ cache' = cache /\ lastSweep' = lastSweep
        /\ setter' = setter /\ call' = call /\ secret' = secret
    BY <1>1, Zenon DEF vars
  <2>2. time \in Nat /\ time <= time /\ call \in [Calls -> Ops] /\ \A c \in Calls : OpSound(call[c])
    BY DEF SealInv, StateTyped
  <2>3. \A o \in Ops : OpSound(o) => OpSound(o)'
    BY <2>1, <2>2, OpKept, Zenon
  <2>4. SecretSound'
    BY <2>1, Zenon DEF SealInv, SecretSound, EnvelopeSound, Settled, Configured
  <2>5. StateTyped' /\ CacheSound'
    BY <2>1, StateKept, Zenon DEF SealInv, StateTyped
  <2>6. QED
    BY <2>1, <2>2, <2>3, <2>4, <2>5, Zenon DEF SealInv
<1>2. ASSUME NEW t \in Tenants, NEW here \in Here,
             \/ \E uri \in KeyURIs \cup {None} : SetTenantCMKKeyURI(t, uri, here)
             \/ \E on \in BOOLEAN : SetTenantDedicatedIsolation(t, on, here)
      PROVE  SealInv'
  <2>1. row[t] \in Rows
    BY Zenon DEF SealInv, StateTyped
  <2>2. \A uri \in KeyURIs \cup {None} : [row[t] EXCEPT !.cmk = uri] \in Rows
    BY <2>1 DEF Rows
  <2>3. \A on \in BOOLEAN : [row[t] EXCEPT !.dedicated = on] \in Rows
    BY <2>1 DEF Rows
  <2>4. QED
    BY <1>2, <2>2, <2>3, SetRowKeeps, Zenon DEF SetTenantCMKKeyURI, SetTenantDedicatedIsolation, Kinds
<1>3. ASSUME NEW c \in Calls, Crypt(c) PROVE SealInv'
  BY <1>3, SealKeeps, OpenKeeps, Zenon
<1>4. QED
  BY <1>1, <1>2, <1>3, InvalidateKeeps, BeginKeeps, LookupKeeps, QueryKeeps, PutKeeps, TickKeeps, Zenon DEF Next

\* The invariant of the caches, the stored secrets and the calls in flight.
THEOREM SealInvariant == Spec => []SealInv
BY SealInit, SealStep, PTL DEF Spec

(* However calls interleave with each other, with the cache's expiry and   *)
(* with changes of the row by this or another process, a secret is sealed  *)
(* in the domain that a row standing for a TTL names, opens as long as it  *)
(* stands, and is shut after a change has stood for a TTL (SealForTenant,  *)
(* OpenForTenant, CMKResolver, DedicatedResolver).                         *)
THEOREM SealingSafety == Spec => []DomainFollowsRow
<1>1. SealInv => DomainFollowsRow
  <2> SUFFICES ASSUME SealInv PROVE DomainFollowsRow
    BY Zenon
  <2>1. ASSUME NEW c \in Calls, call[c].stage # "done" PROVE call[c].answer \notin {"sealed", "opened"}
    BY <2>1, NoneAssumption, Zenon DEF SealInv, OpSound
  <2>2. ASSUME NEW c \in Calls, call[c].stage = "done" PROVE Ended(call[c])
    BY <2>2, Zenon DEF SealInv, OpSound
  <2>3. SealedAsConfigured /\ OldDomainShut
    BY <2>1, <2>2, Zenon DEF SealedAsConfigured, OldDomainShut, Ended
  <2>4. SettledOpens
    BY <2>2, Zenon DEF SettledOpens, Ended
  <2>5. QED
    BY <2>3, <2>4, Zenon DEF DomainFollowsRow
<1>2. QED
  BY <1>1, SealInvariant, PTL

-----------------------------------------------------------------------------
(* Attestation.                                                            *)

RiskBits == {"AttestationFail", "AppTamper", "AppUnrecognized", "DeviceIntegrity", "RootJailbreak", "Emulator",
             "AccountRisk"}
Stages == {"idle", "lookup", "fetch", "store", "find", "done"}
VerificationSet == [stage : Stages, token : Tokens \cup {Absent}, stale : BOOLEAN, doc : SUBSET Kids, sent : Nat,
                    began : Nat, answer : {"accepted", "rejected", "unsupported", Absent},
                    bits : SUBSET RiskBits, failed : BOOLEAN]

ProviderTyped ==
    /\ published \subseteq Kids /\ since \in [Kids -> Nat] /\ until \in [Kids -> Nat]
    /\ keys \subseteq Kids /\ fetchedAt \in Nat \cup {Absent} /\ clock \in Nat
    /\ \A k \in Kids : since[k] <= clock /\ until[k] <= clock

\* The cache holds no key that was retired a fetch before it was filled, and
\* every readable key that had stood for one by then.
KeysSound ==
    fetchedAt # Absent =>
        /\ fetchedAt <= clock
        /\ \A k \in keys : k \in published \/ until[k] + Timeout >= fetchedAt
        /\ \A k \in published \cap Usable : since[k] + Timeout < fetchedAt => k \in keys

\* A document on its way is what the provider served when it was sent.
DocSound(o) ==
    /\ o.sent <= clock /\ clock <= o.sent + Timeout
    /\ \A k \in o.doc : k \in published \/ until[k] >= o.sent
    /\ \A k \in published : since[k] < o.sent => k \in o.doc

\* What a verification may have returned.
Concluded(o) ==
    /\ o.token \in Tokens
    /\ o.answer = "accepted" /\ o.token.platform = "android" /\ ~o.failed =>
          o.token.kid \in Kids /\ (o.token.kid \in published \/ until[o.token.kid] + KeyTTL + Timeout >= o.began)
    /\ /\ o.token.platform = "android" /\ ~o.failed /\ o.token.kid \in published \cap Usable
       /\ since[o.token.kid] + Timeout < o.began /\ o.token.nonce = "issued" /\ o.token.app = "expected"
       => o.answer = "accepted"
    /\ o.answer = "accepted" => o.token.nonce = "issued" /\ o.token.app # "other"
    /\ o.answer = "rejected" => o.bits = {"AttestationFail"}

VerificationSound(o) ==
    /\ o.began <= clock
    /\ o.stage \in {"lookup", "fetch", "store", "find"} => o.token \in Tokens /\ o.token.platform = "android" /\ ~o.failed
    /\ o.stage = "store" => DocSound(o)
    /\ o.stage = "find" => fetchedAt # Absent /\ o.began <= fetchedAt
    /\ o.stage = "done" => Concluded(o)
    /\ o.stage # "done" => o.answer = Absent

AttestInv ==
    /\ ProviderTyped /\ KeysSound
    /\ verification \in [Verifications -> VerificationSet]
    /\ \A c \in Verifications : VerificationSound(verification[c])

\* What a Play verdict or an App Attest object is worth.
LEMMA VerdictShape ==
    ASSUME NEW tok, NEW key
    PROVE  /\ PlayVerify(tok, key).answer \in {"accepted", "rejected"} /\ PlayVerify(tok, key).bits \subseteq RiskBits
           /\ AppAttestVerify(tok).answer \in {"accepted", "rejected"} /\ AppAttestVerify(tok).bits \subseteq RiskBits
           /\ rejected.answer = "rejected" /\ rejected.bits = {"AttestationFail"}
<1>1. AppBits(tok.recognition) \subseteq RiskBits
  BY DEF AppBits, RiskBits
<1>2. DeviceBits(tok.device) \subseteq RiskBits
  BY DEF DeviceBits, RiskBits
<1>3. AccountBits(tok.licensing) \subseteq RiskBits
  BY DEF AccountBits, RiskBits
<1>4. rejected.answer = "rejected" /\ rejected.bits = {"AttestationFail"} /\ {"AttestationFail"} \subseteq RiskBits
  BY DEF rejected, RiskBits
<1>5. \/ PlayVerify(tok, key) = rejected
      \/ PlayVerify(tok, key) = [answer |-> "accepted", bits |-> AppBits(tok.recognition)
             \cup DeviceBits(tok.device) \cup AccountBits(tok.licensing)]
  BY Zenon DEF PlayVerify
<1>6. PlayVerify(tok, key).answer \in {"accepted", "rejected"} /\ PlayVerify(tok, key).bits \subseteq RiskBits
  BY <1>1, <1>2, <1>3, <1>4, <1>5
<1>7. AppAttestVerify(tok) = rejected \/ AppAttestVerify(tok) = [answer |-> "accepted", bits |-> {}]
  BY Zenon DEF AppAttestVerify
<1>8. AppAttestVerify(tok).answer \in {"accepted", "rejected"} /\ AppAttestVerify(tok).bits \subseteq RiskBits
  BY <1>4, <1>7
<1>9. QED
  BY <1>4, <1>6, <1>8, Zenon

\* Both bind the nonce and the app, and a refusal carries its bit.
LEMMA VerdictBinds ==
    ASSUME AttestConstantsOK, NEW tok
    PROVE  /\ PlayVerify(tok, tok.kid).answer = "accepted" => tok.nonce = "issued" /\ tok.app # "other"
           /\ PlayVerify(tok, tok.kid).answer = "rejected" => PlayVerify(tok, tok.kid).bits = {"AttestationFail"}
           /\ tok.nonce = "issued" /\ tok.app = "expected" => PlayVerify(tok, tok.kid).answer = "accepted"
           /\ AppAttestVerify(tok).answer = "accepted" => tok.nonce = "issued" /\ tok.app # "other"
           /\ AppAttestVerify(tok).answer = "rejected" => AppAttestVerify(tok).bits = {"AttestationFail"}
BY DEF PlayVerify, AppAttestVerify, checkNonce, rejected, AttestConstantsOK

\* A verification that returns r.
Returned(o, r) == [o EXCEPT !.stage = "done", !.answer = r.answer, !.bits = r.bits, !.doc = {}, !.stale = FALSE, !.sent = 0]

LEMMA ReturnedShape ==
    ASSUME NEW o \in VerificationSet, NEW r, r.answer \in {"accepted", "rejected"}, r.bits \subseteq RiskBits
    PROVE  /\ Returned(o, r) \in VerificationSet /\ Returned(o, r).stage = "done" /\ Returned(o, r).answer = r.answer
           /\ Returned(o, r).bits = r.bits /\ Returned(o, r).token = o.token /\ Returned(o, r).began = o.began
           /\ Returned(o, r).failed = o.failed
BY DEF VerificationSet, Returned, Stages

\* Time that passes, and a newer cache, change nothing of what is known of a
\* verification; for a document on its way the clock must not pass its timeout.
LEMMA VerificationKept ==
    ASSUME NEW o \in VerificationSet, VerificationSound(o), ProviderTyped, KeysSound,
           published' = published, since' = since, until' = until, clock' \in Nat, clock <= clock',
           fetchedAt' = fetchedAt \/ fetchedAt' = clock, Absent \notin Nat,
           o.stage = "store" => clock' <= o.sent + Timeout
    PROVE  VerificationSound(o)'
<1>1. o.began \in Nat /\ o.sent \in Nat /\ clock \in Nat /\ fetchedAt \in Nat \cup {Absent}
  BY DEF VerificationSet, ProviderTyped
<1>2. \A n \in Nat : n <= clock => n <= clock'
  BY <1>1
<1>3. o.began <= clock /\ o.began <= clock'
  BY <1>1, <1>2, Zenon DEF VerificationSound
<1>4. o.stage = "store" => DocSound(o)'
  BY <1>1, <1>2, Zenon DEF VerificationSound, DocSound
<1>5. o.stage = "find" => fetchedAt' # Absent /\ o.began <= fetchedAt'
  BY <1>1, <1>3, Zenon DEF VerificationSound
<1>6. o.stage = "done" => Concluded(o)'
  BY Zenon DEF VerificationSound, Concluded
<1>7. QED
  BY <1>3, <1>4, <1>5, <1>6, Zenon DEF VerificationSound

\* A step that moves one verification and nothing else.
LEMMA OneVerifies ==
    ASSUME AttestConstantsOK, AttestInv, published' = published, since' = since, until' = until, keys' = keys,
           fetchedAt' = fetchedAt, clock' = clock,
           NEW c \in Verifications, NEW n \in VerificationSet, VerificationSound(n),
           verification' = [verification EXCEPT ![c] = n]
    PROVE  AttestInv'
<1>1. ProviderTyped /\ KeysSound /\ verification \in [Verifications -> VerificationSet] /\ clock \in Nat /\ clock <= clock
  BY DEF AttestInv, ProviderTyped
<1>2. ASSUME NEW o \in VerificationSet, VerificationSound(o) PROVE VerificationSound(o)'
  <2>1. o.stage = "store" => clock' <= o.sent + Timeout
    BY <1>2, Zenon DEF VerificationSound, DocSound
  <2>2. QED
    BY <1>1, <1>2, <2>1, VerificationKept, Zenon DEF AttestConstantsOK
<1>3. \A d \in Verifications : verification'[d] \in VerificationSet /\ VerificationSound(verification'[d])
  BY <1>1, Zenon DEF AttestInv
<1>4. \A d \in Verifications : VerificationSound(verification[d])'
  BY <1>2, <1>3, Zenon
<1>5. verification' \in [Verifications -> VerificationSet]
  BY <1>1, Zenon
<1>6. ProviderTyped' /\ KeysSound'
  BY <1>1, Zenon DEF ProviderTyped, KeysSound
<1>7. QED
  BY <1>4, <1>5, <1>6, Zenon DEF AttestInv

\* The provider may rotate at any moment: a key dropped now was published until
\* now, and one added now has stood for no time.
LEMMA RotateKeeps ==
    ASSUME AttestConstantsOK, AttestInv, NEW added \in Kids, NEW dropped \in Kids \cup {Absent}, Rotate(added, dropped)
    PROVE  AttestInv'
<1>1. /\ ProviderTyped /\ KeysSound /\ verification \in [Verifications -> VerificationSet]
      /\ \A c \in Verifications : VerificationSound(verification[c])
      /\ Timeout \in Nat /\ KeyTTL \in Nat /\ Absent \notin Nat
  BY DEF AttestInv, AttestConstantsOK
<1>2. /\ keys' = keys /\ fetchedAt' = fetchedAt /\ verification' = verification /\ clock' = clock
      /\ published' = (published \cup {added}) \ {dropped}
      /\ since' = [since EXCEPT ![added] = clock]
      /\ until' = [k \in Kids |-> IF k = dropped THEN clock ELSE until[k]]
  BY DEF Rotate
<1>3. published \subseteq Kids /\ since \in [Kids -> Nat] /\ until \in [Kids -> Nat] /\ keys \subseteq Kids
      /\ fetchedAt \in Nat \cup {Absent} /\ clock \in Nat
      /\ \A k \in Kids : since[k] <= clock /\ until[k] <= clock
  BY <1>1 DEF ProviderTyped
<1>4. ProviderTyped'
  BY <1>2, <1>3 DEF ProviderTyped
\* Published before: published still, or removed just now.
<1>5. \A k \in published : k \in published' \/ (k \in Kids /\ until'[k] = clock)
  BY <1>2, <1>3
<1>6. \A k \in Kids : until'[k] \in Nat /\ until[k] \in Nat /\ until'[k] >= until[k]
  BY <1>2, <1>3
\* Published now: published before and added when it was, or added just now.
<1>7. \A k \in published' : k \in Kids /\ ((k \in published /\ since'[k] = since[k]) \/ since'[k] = clock)
  BY <1>2, <1>3
<1>8. KeysSound'
  <2>1. SUFFICES ASSUME fetchedAt # Absent
                 PROVE  /\ fetchedAt <= clock
                        /\ \A k \in keys : k \in published' \/ until'[k] + Timeout >= fetchedAt
                        /\ \A k \in published' \cap Usable : since'[k] + Timeout < fetchedAt => k \in keys
    BY <1>2, Zenon DEF KeysSound
  <2>2. /\ fetchedAt \in Nat /\ fetchedAt <= clock
        /\ \A k \in keys : k \in published \/ until[k] + Timeout >= fetchedAt
        /\ \A k \in published \cap Usable : since[k] + Timeout < fetchedAt => k \in keys
    BY <1>1, <1>3, <2>1 DEF KeysSound
  <2>3. ASSUME NEW k \in keys PROVE k \in published' \/ until'[k] + Timeout >= fetchedAt
    BY <1>1, <1>3, <1>5, <1>6, <2>2
  <2>4. ASSUME NEW k \in published' \cap Usable, since'[k] + Timeout < fetchedAt PROVE k \in keys
    BY <1>1, <1>3, <1>7, <2>2, <2>4
  <2>5. QED
    BY <2>2, <2>3, <2>4
<1>9. ASSUME NEW o \in VerificationSet, VerificationSound(o) PROVE VerificationSound(o)'
  <2>1. o.began \in Nat /\ o.sent \in Nat /\ o.doc \subseteq Kids
    BY DEF VerificationSet
  <2>2. ASSUME o.stage = "store" PROVE DocSound(o)'
    <3>1. DocSound(o)
      BY <1>9, <2>2, Zenon DEF VerificationSound
    <3>2. o.sent <= clock /\ clock <= o.sent + Timeout
      BY <3>1, Zenon DEF DocSound
    <3>3. ASSUME NEW k \in o.doc PROVE k \in published' \/ until'[k] >= o.sent
      BY <1>3, <1>5, <1>6, <2>1, <3>1, <3>2 DEF DocSound
    <3>4. ASSUME NEW k \in published', since'[k] < o.sent PROVE k \in o.doc
      BY <1>3, <1>7, <2>1, <3>1, <3>2, <3>4 DEF DocSound
    <3>5. QED
      BY <1>2, <3>2, <3>3, <3>4, Zenon DEF DocSound
  <2>3. ASSUME o.stage = "done" PROVE Concluded(o)'
    <3>1. Concluded(o) /\ o.began <= clock
      BY <1>9, <2>3, Zenon DEF VerificationSound
    <3>2. ASSUME o.answer = "accepted", o.token.platform = "android", ~o.failed
          PROVE  /\ o.token.kid \in Kids
                 /\ o.token.kid \in published' \/ until'[o.token.kid] + KeyTTL + Timeout >= o.began
      <4> DEFINE k == o.token.kid
      <4>1. k \in Kids /\ (k \in published \/ until[k] + KeyTTL + Timeout >= o.began)
        BY <3>1, <3>2, Zenon DEF Concluded
      <4> HIDE DEF k
      <4>2. k \in published' \/ until'[k] + KeyTTL + Timeout >= o.began
        BY <1>1, <1>3, <1>5, <1>6, <2>1, <3>1, <4>1
      <4>3. QED
        BY <4>1, <4>2, Zenon DEF k
    <3>3. ASSUME o.token.kid \in published' \cap Usable, since'[o.token.kid] + Timeout < o.began
          PROVE  o.token.kid \in published \cap Usable /\ since[o.token.kid] + Timeout < o.began
      <4> DEFINE k == o.token.kid
      <4>1. k \in published' \cap Usable /\ since'[k] + Timeout < o.began
        BY <3>3, Zenon
      <4> HIDE DEF k
      <4>2. k \in published \cap Usable /\ since[k] + Timeout < o.began
        BY <1>1, <1>3, <1>7, <2>1, <3>1, <4>1
      <4>3. QED
        BY <4>2, Zenon DEF k
    <3>4. QED
      BY <3>1, <3>2, <3>3, Zenon DEF Concluded
  <2>4. QED
    BY <1>2, <1>9, <2>2, <2>3, Zenon DEF VerificationSound
<1>10. \A c \in Verifications : VerificationSound(verification[c])'
  BY <1>1, <1>2, <1>9, Zenon
<1>11. QED
  BY <1>1, <1>2, <1>4, <1>8, <1>10, Zenon DEF AttestInv

\* A new verification: an iOS object is judged on the spot, an Android verdict
\* looks its key up, another platform is not supported (Verify).
LEMMA VerifyKeeps ==
    ASSUME AttestConstantsOK, AttestInv, NEW c \in Verifications, NEW tok \in Tokens, Verify(c, tok)
    PROVE  AttestInv'
<1> DEFINE o == [NoVerification EXCEPT !.token = tok, !.began = clock]
           Done(r) == [o EXCEPT !.stage = "done", !.answer = r.answer, !.bits = r.bits]
           n == CASE tok.platform = "ios" -> Done(AppAttestVerify(tok))
                  [] tok.platform = "android" -> [o EXCEPT !.stage = "lookup"]
                  [] OTHER -> Done([answer |-> "unsupported", bits |-> {}])
<1>1. clock \in Nat /\ clock <= clock
  BY DEF AttestInv, ProviderTyped
<1>2. o \in VerificationSet /\ o.token = tok /\ o.began = clock /\ o.stage = "idle" /\ o.answer = Absent /\ ~o.failed
  BY <1>1 DEF NoVerification, VerificationSet, Stages
<1> HIDE DEF o
<1>3. ASSUME tok.platform = "android" PROVE n \in VerificationSet /\ VerificationSound(n)
  <2>1. n = [o EXCEPT !.stage = "lookup"]
    BY <1>3
  <2>2. n \in VerificationSet /\ n.stage = "lookup" /\ n.token = tok /\ n.began = clock /\ n.answer = Absent /\ ~n.failed
    BY <1>2, <2>1 DEF VerificationSet, Stages
  <2> HIDE DEF n
  <2>3. QED
    BY <1>1, <1>3, <2>2 DEF VerificationSound
<1>4. ASSUME tok.platform # "android" PROVE n \in VerificationSet /\ VerificationSound(n)
  <2>1. PICK r : /\ n = Done(r) /\ r.answer \in {"accepted", "rejected", "unsupported"} /\ r.bits \subseteq RiskBits
                 /\ r.answer = "accepted" => tok.nonce = "issued" /\ tok.app # "other"
                 /\ r.answer = "rejected" => r.bits = {"AttestationFail"}
    <3>1. CASE tok.platform = "ios"
      <4>1. n = Done(AppAttestVerify(tok))
        BY <3>1
      <4>2. AppAttestVerify(tok).answer \in {"accepted", "rejected", "unsupported"}
        BY VerdictShape
      <4> HIDE DEF n, Done
      <4>3. QED
        BY <4>1, <4>2, VerdictShape, VerdictBinds, Zenon
    <3>2. CASE tok.platform # "ios"
      <4> DEFINE u == [answer |-> "unsupported", bits |-> {}]
      <4>1. n = Done(u)
        BY <1>4, <3>2
      <4>2. u.answer = "unsupported" /\ u.bits = {} /\ u.bits \subseteq RiskBits
        OBVIOUS
      <4> HIDE DEF n, Done, u
      <4>3. u.answer \in {"accepted", "rejected", "unsupported"} /\ u.answer # "accepted" /\ u.answer # "rejected"
        BY <4>2
      <4>4. QED
        BY <4>1, <4>2, <4>3, Zenon
    <3>3. QED
      BY <3>1, <3>2, Zenon
  <2>2. n \in VerificationSet /\ n.stage = "done" /\ n.token = tok /\ n.began = clock /\ n.answer = r.answer /\ n.bits = r.bits
    BY <1>2, <2>1 DEF VerificationSet, Stages
  <2> HIDE DEF n
  <2>3. Concluded(n)
    BY <1>4, <2>1, <2>2, Zenon DEF Concluded
  <2>4. QED
    BY <1>1, <2>2, <2>3 DEF VerificationSound
<1>5. verification' = [verification EXCEPT ![c] = n]
  BY DEF Verify, o
<1> HIDE DEF n
<1>6. n \in VerificationSet /\ VerificationSound(n)
  BY <1>3, <1>4, Zenon
<1>7. published' = published /\ since' = since /\ until' = until /\ keys' = keys /\ fetchedAt' = fetchedAt /\ clock' = clock
  BY DEF Verify
<1>8. QED
  BY <1>5, <1>6, <1>7, OneVerifies, Zenon

\* Under a key of a cache that is fresh, or that was filled after the call
\* began, the verdict is as the provider's keys allow; and a key that has stood
\* for a fetch's length is not missed.
LEMMA KeyVerdict ==
    ASSUME AttestConstantsOK, AttestInv, NEW o \in VerificationSet, VerificationSound(o),
           o.stage \in {"lookup", "find"}, o.stage = "lookup" => o.token.kid \in keys /\ fresh,
           NEW r, r = (IF o.token.kid \in keys THEN PlayVerify(o.token, o.token.kid) ELSE rejected)
    PROVE  Returned(o, r) \in VerificationSet /\ VerificationSound(Returned(o, r))
<1> DEFINE tok == o.token
           k == o.token.kid
           n == Returned(o, r)
<1>1. /\ ProviderTyped /\ KeysSound /\ Timeout \in Nat /\ KeyTTL \in Nat /\ Absent \notin Nat
      /\ o.began \in Nat /\ o.began <= clock /\ tok \in Tokens /\ tok.platform = "android" /\ ~o.failed
  BY DEF AttestInv, AttestConstantsOK, VerificationSound, VerificationSet
<1>2. published \subseteq Kids /\ since \in [Kids -> Nat] /\ until \in [Kids -> Nat] /\ keys \subseteq Kids
      /\ fetchedAt \in Nat \cup {Absent} /\ clock \in Nat
  BY <1>1 DEF ProviderTyped
<1>3. fetchedAt \in Nat /\ (o.began <= fetchedAt \/ (k \in keys /\ clock - fetchedAt < KeyTTL))
  BY <1>2 DEF VerificationSound, fresh
<1>4. r.answer \in {"accepted", "rejected"} /\ r.bits \subseteq RiskBits
  <2>1. CASE k \in keys
    BY <2>1, VerdictShape
  <2>2. CASE k \notin keys
    <3>1. r = rejected
      BY <2>2, Zenon
    <3>2. QED
      BY <3>1 DEF rejected, RiskBits
  <2>3. QED
    BY <2>1, <2>2, Zenon
<1>5. /\ r.answer = "accepted" => k \in keys /\ tok.nonce = "issued" /\ tok.app # "other"
      /\ r.answer = "rejected" => r.bits = {"AttestationFail"}
      /\ k \in keys /\ tok.nonce = "issued" /\ tok.app = "expected" => r.answer = "accepted"
  <2>1. CASE k \in keys
    <3>1. r = PlayVerify(o.token, o.token.kid)
      BY <2>1, Zenon
    <3>2. QED
      BY <2>1, <3>1, VerdictBinds, Zenon
  <2>2. CASE k \notin keys
    <3>1. r = rejected
      BY <2>2, Zenon
    <3>2. r.answer = "rejected" /\ r.bits = {"AttestationFail"} /\ r.answer # "accepted"
      BY <3>1 DEF rejected
    <3>3. QED
      BY <2>2, <3>2, Zenon
  <2>3. QED
    BY <2>1, <2>2, Zenon
<1>6. /\ n \in VerificationSet /\ n.stage = "done" /\ n.answer = r.answer /\ n.bits = r.bits /\ n.token = o.token
      /\ n.began = o.began /\ n.failed = o.failed
  BY <1>4, ReturnedShape
<1> HIDE DEF k, n
<1>7. ASSUME k \in keys PROVE k \in Kids /\ (k \in published \/ until[k] + KeyTTL + Timeout >= o.began)
  <2>1. k \in published \/ until[k] + Timeout >= fetchedAt
    BY <1>1, <1>2, <1>3, <1>7 DEF KeysSound
  <2>2. k \in Kids /\ until[k] \in Nat
    BY <1>2, <1>7
  <2>3. QED
    BY <1>1, <1>2, <1>3, <2>1, <2>2
<1>8. ASSUME k \in published \cap Usable, since[k] + Timeout < o.began PROVE k \in keys
  <2>1. CASE o.began <= fetchedAt
    <3>1. since[k] \in Nat
      BY <1>2, <1>8
    <3>2. since[k] + Timeout < fetchedAt
      BY <1>1, <1>3, <1>8, <2>1, <3>1
    <3>3. QED
      BY <1>2, <1>1, <1>3, <1>8, <3>2 DEF KeysSound
  <2>2. QED
    BY <1>3, <2>1, Zenon
<1>9. Concluded(n)
  BY <1>1, <1>5, <1>6, <1>7, <1>8, Zenon DEF Concluded, k
<1>10. QED
  BY <1>1, <1>6, <1>9 DEF VerificationSound, n

\* A key is looked up in the cache, or a fetch begins (PublicKey).
LEMMA PublicKeyKeeps ==
    ASSUME AttestConstantsOK, AttestInv, NEW c \in Verifications, PublicKey(c)
    PROVE  AttestInv'
<1> DEFINE o == verification[c]
           tok == o.token
           b == tok.kid \in keys
           m == [o EXCEPT !.stage = "fetch", !.stale = b]
<1>1. o \in VerificationSet /\ VerificationSound(o) /\ o.stage = "lookup" /\ verification \in [Verifications -> VerificationSet]
  BY DEF AttestInv, PublicKey
<1>2. published' = published /\ since' = since /\ until' = until /\ keys' = keys /\ fetchedAt' = fetchedAt /\ clock' = clock
  BY DEF PublicKey
<1>3. CASE tok.kid \in keys /\ fresh
  <2>1. verification' = [verification EXCEPT ![c] = Returned(o, PlayVerify(tok, tok.kid))]
    BY <1>3, <1>1 DEF PublicKey, Returns, Returned
  <2> HIDE DEF o
  <2>2. Returned(o, PlayVerify(tok, tok.kid)) \in VerificationSet /\ VerificationSound(Returned(o, PlayVerify(tok, tok.kid)))
    BY <1>1, <1>3, KeyVerdict
  <2>3. QED
    BY <1>2, <2>1, <2>2, OneVerifies, Zenon
<1>4. CASE ~(tok.kid \in keys /\ fresh)
  <2>1. verification' = [verification EXCEPT ![c] = m]
    BY <1>4, <1>1 DEF PublicKey
  <2>2. b \in BOOLEAN
    BY SMT
  <2> HIDE DEF o, b
  <2>3. /\ m \in VerificationSet /\ m.stage = "fetch" /\ m.token = o.token /\ m.began = o.began /\ m.failed = o.failed
        /\ m.answer = o.answer
    BY <1>1, <2>2 DEF VerificationSet, Stages
  <2> HIDE DEF m
  <2>4. VerificationSound(m)
    BY <1>1, <2>3 DEF VerificationSound
  <2>5. QED
    BY <1>2, <2>1, <2>3, <2>4, OneVerifies, Zenon
<1>5. QED
  BY <1>3, <1>4, Zenon

\* The provider answers with what it serves now, or fails and an old key is
\* used if there is one (PublicKey).
LEMMA FetchKeeps ==
    ASSUME AttestConstantsOK, AttestInv, NEW c \in Verifications, Fetch(c)
    PROVE  AttestInv'
<1> DEFINE o == verification[c]
           tok == o.token
           m == [o EXCEPT !.stage = "store", !.doc = published, !.sent = clock]
           r == IF o.stale THEN PlayVerify(tok, tok.kid) ELSE rejected
           f == [o EXCEPT !.stage = "done", !.stale = FALSE, !.failed = TRUE, !.answer = r.answer, !.bits = r.bits]
<1>1. o \in VerificationSet /\ VerificationSound(o) /\ o.stage = "fetch" /\ verification \in [Verifications -> VerificationSet]
  BY DEF AttestInv, Fetch
<1>2. published' = published /\ since' = since /\ until' = until /\ keys' = keys /\ fetchedAt' = fetchedAt /\ clock' = clock
  BY DEF Fetch
<1>3. published \subseteq Kids /\ clock \in Nat /\ Timeout \in Nat /\ clock <= clock /\ clock <= clock + Timeout
  BY DEF AttestInv, ProviderTyped, AttestConstantsOK
<1>4. r.answer \in {"accepted", "rejected"} /\ r.bits \subseteq RiskBits
  <2>1. CASE o.stale
    BY <2>1, VerdictShape
  <2>2. CASE ~o.stale
    BY <2>2 DEF rejected, RiskBits
  <2>3. QED
    BY <2>1, <2>2, Zenon
<1>5. /\ r.answer = "accepted" => tok.nonce = "issued" /\ tok.app # "other"
      /\ r.answer = "rejected" => r.bits = {"AttestationFail"}
  <2>1. CASE o.stale
    BY <2>1, VerdictBinds
  <2>2. CASE ~o.stale
    BY <2>2 DEF rejected
  <2>3. QED
    BY <2>1, <2>2, Zenon
<1>6. \/ verification' = [verification EXCEPT ![c] = m]
      \/ verification' = [verification EXCEPT ![c] = f]
  <2>1. (IF o.stale THEN PlayVerify(tok, tok.kid).answer ELSE "rejected") = r.answer
    BY DEF rejected
  <2>2. (IF o.stale THEN PlayVerify(tok, tok.kid).bits ELSE rejected.bits) = r.bits
    OBVIOUS
  <2> HIDE DEF r
  <2>3. CASE verification' = [verification EXCEPT ![c].stage = "store", ![c].doc = published, ![c].sent = clock]
    BY <1>1, <2>3
  <2>4. CASE verification' = [verification EXCEPT ![c] =
                    [@ EXCEPT !.stage = "done", !.stale = FALSE, !.failed = TRUE,
                        !.answer = IF verification[c].stale THEN PlayVerify(tok, tok.kid).answer
                                   ELSE "rejected",
                        !.bits = IF verification[c].stale THEN PlayVerify(tok, tok.kid).bits
                                 ELSE rejected.bits]]
    BY <1>1, <2>1, <2>2, <2>4
  <2>5. QED
    BY <2>3, <2>4, Zenon DEF Fetch
<1> HIDE DEF r, o
<1>7. /\ m \in VerificationSet /\ m.stage = "store" /\ m.token = o.token /\ m.began = o.began /\ m.failed = o.failed
      /\ m.answer = o.answer /\ m.doc = published /\ m.sent = clock
  BY <1>1, <1>3 DEF VerificationSet, Stages
<1>8. /\ f \in VerificationSet /\ f.stage = "done" /\ f.token = o.token /\ f.began = o.began /\ f.failed
      /\ f.answer = r.answer /\ f.bits = r.bits
  BY <1>1, <1>3, <1>4 DEF VerificationSet, Stages
<1> HIDE DEF m, f
<1>9. VerificationSound(m)
  BY <1>1, <1>3, <1>7 DEF VerificationSound, DocSound
<1>10. Concluded(f)
  <2>1. o.token \in Tokens
    BY <1>1 DEF VerificationSound
  <2>2. QED
    BY <1>5, <1>8, <2>1, Zenon DEF Concluded
<1>11. VerificationSound(f)
  BY <1>1, <1>8, <1>10 DEF VerificationSound
<1>12. QED
  BY <1>2, <1>6, <1>7, <1>8, <1>9, <1>11, OneVerifies, Zenon

\* What a fetch brought replaces the cache, even when it is older than what
\* another verification stored meanwhile (refresh).
LEMMA StoreKeeps ==
    ASSUME AttestConstantsOK, AttestInv, NEW c \in Verifications, Store(c)
    PROVE  AttestInv'
<1> DEFINE o == verification[c]
           m == [o EXCEPT !.stage = "find", !.doc = {}, !.sent = 0]
<1>1. /\ o \in VerificationSet /\ VerificationSound(o) /\ o.stage = "store"
      /\ verification \in [Verifications -> VerificationSet] /\ ProviderTyped /\ KeysSound
      /\ \A d \in Verifications : VerificationSound(verification[d])
      /\ Absent \notin Nat /\ Timeout \in Nat
  BY DEF AttestInv, Store, AttestConstantsOK
<1>2. /\ published' = published /\ since' = since /\ until' = until /\ clock' = clock /\ fetchedAt' = clock
      /\ keys' = o.doc \cap Usable /\ verification' = [verification EXCEPT ![c] = m]
  BY <1>1 DEF Store, refresh
<1>3. /\ published \subseteq Kids /\ since \in [Kids -> Nat] /\ until \in [Kids -> Nat] /\ clock \in Nat /\ clock <= clock
      /\ fetchedAt' \in Nat /\ fetchedAt' # Absent
  BY <1>1, <1>2 DEF ProviderTyped
<1> HIDE DEF o
<1>4. o.began \in Nat /\ o.sent \in Nat /\ o.doc \subseteq Kids /\ o.began <= clock /\ DocSound(o)
  BY <1>1 DEF VerificationSet, VerificationSound
<1>5. ProviderTyped'
  BY <1>1, <1>2, <1>3, <1>4 DEF ProviderTyped
<1>6. KeysSound'
  <2>1. ASSUME NEW k \in o.doc \cap Usable PROVE k \in published \/ until[k] + Timeout >= clock
    BY <1>1, <1>3, <1>4 DEF DocSound
  <2>2. ASSUME NEW k \in published \cap Usable, since[k] + Timeout < clock PROVE k \in o.doc \cap Usable
    BY <1>1, <1>3, <1>4, <2>2 DEF DocSound
  <2>3. QED
    BY <1>2, <1>3, <2>1, <2>2 DEF KeysSound
<1>7. m \in VerificationSet /\ m.stage = "find" /\ m.token = o.token /\ m.began = o.began /\ m.failed = o.failed
      /\ m.answer = o.answer
  BY <1>1 DEF VerificationSet, Stages
<1>8. ASSUME NEW p \in VerificationSet, p = m PROVE VerificationSound(p)'
  <2> HIDE DEF m
  <2>1. /\ p.stage = "find" /\ p.token = o.token /\ p.began = o.began /\ p.failed = o.failed /\ p.answer = o.answer
    BY <1>7, <1>8
  <2>2. p.token \in Tokens /\ p.token.platform = "android" /\ ~p.failed /\ p.answer = Absent
    BY <1>1, <2>1 DEF VerificationSound
  <2>3. p.began <= clock' /\ p.began <= fetchedAt'
    BY <1>2, <1>4, <2>1
  <2>4. QED
    BY <1>3, <2>1, <2>2, <2>3 DEF VerificationSound
<1>9. ASSUME NEW p \in VerificationSet, VerificationSound(p) PROVE VerificationSound(p)'
  <2>1. p.stage = "store" => clock' <= p.sent + Timeout
    BY <1>2, <1>9, Zenon DEF VerificationSound, DocSound
  <2>2. clock' \in Nat /\ clock <= clock'
    BY <1>2, <1>3
  <2>3. QED
    BY <1>1, <1>2, <1>9, <2>1, <2>2, VerificationKept, Zenon
<1> HIDE DEF m
<1>10. verification' \in [Verifications -> VerificationSet]
  BY <1>1, <1>2, <1>7, Zenon
<1>11. \A d \in Verifications : verification'[d] = m \/ (verification'[d] = verification[d])
  BY <1>1, <1>2, Zenon
<1>12. \A d \in Verifications : VerificationSound(verification[d])'
  BY <1>1, <1>7, <1>8, <1>9, <1>11, Zenon
<1>13. QED
  BY <1>5, <1>6, <1>10, <1>12, Zenon DEF AttestInv

\* The cache is read again after a fetch (PublicKey).
LEMMA FindKeeps ==
    ASSUME AttestConstantsOK, AttestInv, NEW c \in Verifications, Find(c)
    PROVE  AttestInv'
<1> DEFINE o == verification[c]
           tok == o.token
           r == IF tok.kid \in keys THEN PlayVerify(tok, tok.kid) ELSE rejected
<1>1. o \in VerificationSet /\ VerificationSound(o) /\ o.stage = "find" /\ verification \in [Verifications -> VerificationSet]
  BY DEF AttestInv, Find
<1>2. published' = published /\ since' = since /\ until' = until /\ keys' = keys /\ fetchedAt' = fetchedAt /\ clock' = clock
  BY DEF Find
<1>3. verification' = [verification EXCEPT ![c] = Returned(o, r)]
  BY <1>1 DEF Find, Returns, Returned
<1> HIDE DEF o
<1>4. Returned(o, r) \in VerificationSet /\ VerificationSound(Returned(o, r))
  BY <1>1, KeyVerdict
<1>5. QED
  BY <1>2, <1>3, <1>4, OneVerifies, Zenon

\* The clock waits for the timeout of a fetch.
LEMMA ClockTickKeeps ==
    ASSUME AttestConstantsOK, AttestInv, ClockTick
    PROVE  AttestInv'
<1>1. /\ verification \in [Verifications -> VerificationSet] /\ ProviderTyped /\ KeysSound
      /\ \A d \in Verifications : VerificationSound(verification[d])
      /\ Absent \notin Nat /\ Timeout \in Nat
  BY DEF AttestInv, AttestConstantsOK
<1>2. /\ published' = published /\ since' = since /\ until' = until /\ clock' = clock + 1 /\ fetchedAt' = fetchedAt
      /\ keys' = keys /\ verification' = verification
  BY DEF ClockTick
<1>3. clock \in Nat /\ clock' \in Nat /\ clock <= clock'
  BY <1>1, <1>2 DEF ProviderTyped
<1>4. ProviderTyped'
  BY <1>1, <1>2, <1>3 DEF ProviderTyped
<1>5. KeysSound'
  BY <1>1, <1>2, <1>3 DEF KeysSound, ProviderTyped
<1>6. ASSUME NEW p \in VerificationSet, VerificationSound(p), p.stage = "store" => clock - p.sent < Timeout
      PROVE  VerificationSound(p)'
  <2>1. p.sent \in Nat
    BY DEF VerificationSet
  <2>2. p.stage = "store" => clock' <= p.sent + Timeout
    BY <1>1, <1>2, <1>3, <1>6, <2>1
  <2>3. QED
    BY <1>1, <1>2, <1>3, <1>6, <2>2, VerificationKept, Zenon
<1>7. \A d \in Verifications : VerificationSound(verification[d])'
  BY <1>1, <1>2, <1>6, Zenon DEF ClockTick
<1>8. QED
  BY <1>1, <1>2, <1>4, <1>5, <1>7, Zenon DEF AttestInv

\* At the start nothing is cached and nothing in flight.
LEMMA AttestStart == ASSUME AttestConstantsOK PROVE AttestInit => AttestInv
<1> SUFFICES ASSUME AttestInit PROVE AttestInv
  OBVIOUS
<1>1. clock \in Nat /\ 0 <= clock
  BY DEF AttestInit, AttestConstantsOK
<1>2. ProviderTyped
  BY <1>1 DEF AttestInit, AttestConstantsOK, ProviderTyped
<1>3. KeysSound
  BY DEF AttestInit, KeysSound
<1>4. NoVerification \in VerificationSet /\ VerificationSound(NoVerification)
  BY <1>1 DEF NoVerification, VerificationSet, Stages, VerificationSound
<1>5. QED
  BY <1>2, <1>3, <1>4, Zenon DEF AttestInit, AttestInv

LEMMA AttestStep == ASSUME AttestConstantsOK PROVE AttestInv /\ [AttestNext]_attestVars => AttestInv'
<1> SUFFICES ASSUME AttestInv, [AttestNext]_attestVars PROVE AttestInv'
  OBVIOUS
<1>1. CASE AttestNext
  BY <1>1, RotateKeeps, VerifyKeeps, PublicKeyKeeps, FetchKeeps, StoreKeeps, FindKeeps, ClockTickKeeps, Zenon DEF AttestNext
<1>2. CASE UNCHANGED attestVars
  <2>1. /\ published' = published /\ since' = since /\ until' = until /\ keys' = keys /\ fetchedAt' = fetchedAt
        /\ verification' = verification /\ clock' = clock
    BY <1>2 DEF attestVars
  <2>2. QED
    BY <2>1, Zenon DEF AttestInv, ProviderTyped, KeysSound, VerificationSound, DocSound, Concluded
<1>3. QED
  BY <1>1, <1>2, Zenon

\* The inductive invariant: the cache is no older than its stamp plus one
\* fetch, in both directions, whichever verification filled it last.
THEOREM AttestInvariant == ASSUME AttestConstantsOK PROVE AttestSpec => []AttestInv
<1>1. AttestInit => AttestInv
  BY AttestStart
<1>2. AttestInv /\ [AttestNext]_attestVars => AttestInv'
  BY AttestStep
<1>3. QED
  BY <1>1, <1>2, PTL DEF AttestSpec

\* For any keys, tokens, lifetimes and number of verifications in flight: a
\* retired key stops counting within the lifetime of the cache and one fetch, a
\* key that has stood for a fetch is found, and what is accepted carries the
\* issued nonce and names no other app (HTTPJWKSKeySource.PublicKey,
\* PlayIntegrityVerifier.Verify, AppAttestVerifier.Verify).
THEOREM AttestationSafety == ASSUME AttestConstantsOK PROVE AttestSpec => []AttestationSound
<1>1. AttestInv => AttestationSound
  <2> SUFFICES ASSUME AttestInv PROVE AttestationSound
    OBVIOUS
  <2>1. Absent # "accepted" /\ Absent # "rejected"
    BY DEF AttestConstantsOK
  <2>2. ASSUME NEW c \in Verifications
        PROVE  /\ VerificationSound(verification[c])
               /\ verification[c].answer \in {"accepted", "rejected"} => verification[c].stage = "done"
    BY <2>1 DEF AttestInv, VerificationSound
  <2>3. \A c \in Verifications : verification[c].stage = "done" => Concluded(verification[c])
    BY <2>2, Zenon DEF VerificationSound
  <2>4. RetiredKeyShut
    BY <2>2, <2>3, Zenon DEF RetiredKeyShut, Concluded
  <2>5. EstablishedKeyVerifies
    BY <2>3, Zenon DEF EstablishedKeyVerifies, Concluded
  <2>6. BoundToRequest
    BY <2>2, <2>3, Zenon DEF BoundToRequest, Concluded
  <2>7. QED
    BY <2>4, <2>5, <2>6, Zenon DEF AttestationSound
<1>2. QED
  BY <1>1, AttestInvariant, PTL
=============================================================================
