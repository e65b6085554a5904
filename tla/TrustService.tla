---------------------------- MODULE TrustService ----------------------------
(***************************************************************************)
(* The runtime trust service of one tenant: challenge nonces in Redis,     *)
(* attestation calls that redeem a nonce and mint a trust session, and     *)
(* request-proof checks that consume the session's sequence.  Every call   *)
(* of a handler is a process; a handler is split at each call it makes to  *)
(* a store, because other handlers run between two such calls.             *)
(***************************************************************************)
EXTENDS Risk

CONSTANTS
    Nonces,      \* nonce values; each is drawn at most once (32 random bytes)
    Apps,        \* application ids
    Policies,    \* [scope, mode, thresholds, weights] records that can be active
    Calls,       \* VerifyAttestation calls; a call names the token id it mints
    Checks,      \* ValidateRequestProof calls
    Reports,     \* device-reported wire bitsets a call may carry
    Verdicts,    \* risk bits an accepted platform attestation may add
    Seqs,        \* values of monotonic_sequence in requests
    TokenTTL,    \* lifetime of a trust token, in clock ticks
    MaxNow,      \* bound on the clock
    TenantWide,  \* the scope of a policy without an app id
    None

Scopes == Apps \cup {TenantWide}

ASSUME TrustAssumption ==
    /\ Seqs \subseteq Int
    /\ TokenTTL \in Nat /\ MaxNow \in Nat
    /\ Verdicts \subseteq SUBSET ServerSignals
    /\ None \notin Nonces \cup Apps \cup Policies \cup Calls
    /\ \A p \in Policies : /\ p.scope \in Scopes
                           /\ p.mode \in EnforcementModes
                           /\ DOMAIN p.thresholds \subseteq TrustLevels \cup {UNSPECIFIED}

VARIABLES
    issuedFor,   \* the app each nonce was handed out for
    nonces,      \* Redis: the live nonces and the app each is bound to
    apps,        \* registered apps
    active,      \* the active policy of each scope
    hasKey,      \* whether the tenant has an active signing key
    now,         \* the wall clock, in ticks
    (* trust_sessions by token id.  The app and level columns of a row are  *)
    (* those of the call that inserted it and are never updated.            *)
    status, last, expires,
    (* Local state of the VerifyAttestation calls; the last step is the     *)
    (* answer.                                                              *)
    attPc, attNonce, attApp, attBits, attLevel,
    (* Local state of the ValidateRequestProof calls; the last step is the  *)
    (* answer.  consumed: ConsumeSequence returned without an error.        *)
    chkPc, chkToken, chkSeq, chkGenuine, consumed

storeVars == <<issuedFor, nonces, apps, active, hasKey, now>>
rowVars == <<status, last, expires>>
attVars == <<attPc, attNonce, attApp, attBits, attLevel>>
chkVars == <<chkPc, chkToken, chkSeq, chkGenuine, consumed>>
vars == <<storeVars, rowVars, attVars, chkVars>>

AttAnswers == {"accepted", "rejected", "error"}
AttSteps == {"idle", "consume", "app", "verify", "policy", "key", "newkey",
             "session"} \cup AttAnswers
ChkAnswers == Decisions \cup {"error"}
ChkSteps == {"idle", "session", "consume", "policy"} \cup ChkAnswers

NoPolicy == [scope |-> TenantWide, mode |-> "STEP_UP",
             thresholds |-> <<>>, weights |-> <<>>]

Init ==
    /\ issuedFor = [n \in Nonces |-> None]
    /\ nonces = [n \in Nonces |-> None]
    /\ apps = {}
    /\ active = [s \in Scopes |-> None]
    /\ hasKey = FALSE
    /\ now = 0
    /\ status = [a \in Calls |-> "none"]
    /\ last = [a \in Calls |-> 0]
    /\ expires = [a \in Calls |-> 0]
    /\ attPc = [a \in Calls |-> "idle"]
    /\ attNonce = [a \in Calls |-> None]
    /\ attApp = [a \in Calls |-> None]
    /\ attBits = [a \in Calls |-> {}]
    /\ attLevel = [a \in Calls |-> UNSPECIFIED]
    /\ chkPc = [c \in Checks |-> "idle"]
    /\ chkToken = [c \in Checks |-> None]
    /\ chkSeq = [c \in Checks |-> 0]
    /\ chkGenuine = [c \in Checks |-> FALSE]
    /\ consumed = [c \in Checks |-> FALSE]

-----------------------------------------------------------------------------
(* The control plane, the clock and Redis expiry.                          *)

\* CreateApp refuses an empty package id, so a registered app has one.
CreateApp(app) ==
    /\ app \notin apps
    /\ apps' = apps \cup {app}
    /\ UNCHANGED <<issuedFor, nonces, active, hasKey, now, rowVars, attVars, chkVars>>

\* One active policy per scope: activating a policy deactivates its sibling.
ActivatePolicy(p) ==
    /\ active[p.scope] # p
    /\ active' = [active EXCEPT ![p.scope] = p]
    /\ UNCHANGED <<issuedFor, nonces, apps, hasKey, now, rowVars, attVars, chkVars>>

\* App-scoped policies win over the tenant-wide one.
GetActivePolicy(app) == IF active[app] # None THEN active[app] ELSE active[TenantWide]

\* Any row may be revoked, whatever its status was.
RevokeTrustSession(token) ==
    /\ status[token] \notin {"none", "revoked"}
    /\ status' = [status EXCEPT ![token] = "revoked"]
    /\ UNCHANGED <<storeVars, last, expires, attVars, chkVars>>

Tick ==
    /\ now < MaxNow
    /\ now' = now + 1
    /\ UNCHANGED <<issuedFor, nonces, apps, active, hasKey, rowVars, attVars, chkVars>>

\* Redis drops a nonce when its TTL runs out; its clock is not the server's.
ExpireNonce(n) ==
    /\ nonces[n] # None
    /\ nonces' = [nonces EXCEPT ![n] = None]
    /\ UNCHANGED <<issuedFor, apps, active, hasKey, now, rowVars, attVars, chkVars>>

-----------------------------------------------------------------------------
(* GetNonce and the steps of VerifyAttestation.                            *)

GetNonce(n, app) ==
    /\ app \in apps
    /\ issuedFor[n] = None
    /\ issuedFor' = [issuedFor EXCEPT ![n] = app]
    /\ nonces' = [nonces EXCEPT ![n] = app]
    /\ UNCHANGED <<apps, active, hasKey, now, rowVars, attVars, chkVars>>

ReportedBits(report) == FromWire(report)

\* An unknown nonce fares like a spent one, so requests carry issued ones.
VerifyAttestation(a, n, app, report) ==
    /\ attPc[a] = "idle"
    /\ issuedFor[n] # None
    /\ attPc' = [attPc EXCEPT ![a] = "consume"]
    /\ attNonce' = [attNonce EXCEPT ![a] = n]
    /\ attApp' = [attApp EXCEPT ![a] = app]
    /\ attBits' = [attBits EXCEPT ![a] = ReportedBits(report)]
    /\ UNCHANGED <<storeVars, rowVars, attLevel, chkVars>>

\* Call a moves to its next step, or to its answer.
AttGoto(a, step) ==
    /\ attPc' = [attPc EXCEPT ![a] = step]
    /\ UNCHANGED <<attNonce, attApp>>

\* A store or verifier error, a cancelled request or a crash ends the call
\* without an effect of the step it was about to make.
AbortAttestation(a) ==
    /\ attPc[a] \notin AttAnswers \cup {"idle"}
    /\ AttGoto(a, "error")
    /\ UNCHANGED <<storeVars, rowVars, attBits, attLevel, chkVars>>

\* Mutant: a plain GETDEL that ignores the app the nonce is bound to.
BoundToAny(n, app) == nonces[n] # None

BoundTo(n, app) == nonces[n] = app

\* The Lua script deletes the nonce only when it is bound to the request's
\* app.  A lost reply leaves it deleted while the caller reports an error.
ConsumeNonce(a) ==
    LET n == attNonce[a]
        bound == BoundTo(n, attApp[a])
    IN  /\ attPc[a] = "consume"
        /\ \/ /\ bound
              /\ nonces' = [nonces EXCEPT ![n] = None]
              /\ AttGoto(a, "app") \/ AttGoto(a, "error")
           \/ /\ ~bound
              /\ UNCHANGED nonces
              /\ AttGoto(a, "rejected")
        /\ UNCHANGED <<issuedFor, apps, active, hasKey, now, rowVars,
                       attBits, attLevel, chkVars>>

GetApp(a) ==
    /\ attPc[a] = "app"
    /\ AttGoto(a, IF attApp[a] \in apps THEN "verify" ELSE "rejected")
    /\ UNCHANGED <<storeVars, rowVars, attBits, attLevel, chkVars>>

\* INSERT of the row of token a.
InsertRow(a, stat, expiry) ==
    /\ status' = [status EXCEPT ![a] = stat]
    /\ expires' = [expires EXCEPT ![a] = expiry]
    /\ UNCHANGED last

\* A failed attestation's row expires at once and never validates a proof.
RecordFailedAttestation(a) == InsertRow(a, "failed", now)

\* The platform verifier accepts (perhaps adding risk bits), does not know the
\* platform, or rejects.  A rejection is recorded, best effort.
Verify(a) ==
    /\ attPc[a] = "verify"
    /\ \/ /\ \E bits \in Verdicts :
                attBits' = [attBits EXCEPT ![a] = Fuse(@, bits)]
          /\ AttGoto(a, "policy")
          /\ UNCHANGED rowVars
       \/ /\ AttGoto(a, "rejected")
          /\ RecordFailedAttestation(a) \/ UNCHANGED rowVars
          /\ UNCHANGED attBits
    /\ UNCHANGED <<storeVars, attLevel, chkVars>>

\* Any error of the policy lookup is tolerated and leaves the call without a
\* policy.  The fleet guard may add its own bit.
ScoreRisk(a) ==
    /\ attPc[a] = "policy"
    /\ \E p \in {GetActivePolicy(attApp[a]), None}, surge \in {{}, {"FleetAnomaly"}} :
          LET pol == IF p = None THEN NoPolicy ELSE p
              score == Score(attBits[a] \cup surge, pol.weights)
          IN  attLevel' = [attLevel EXCEPT ![a] = Level(score, pol.thresholds)]
    /\ AttGoto(a, "key")
    /\ UNCHANGED <<storeVars, rowVars, attBits, chkVars>>

GetActiveSigningKey(a) ==
    /\ attPc[a] = "key"
    /\ AttGoto(a, IF hasKey THEN "session" ELSE "newkey")
    /\ UNCHANGED <<storeVars, rowVars, attBits, attLevel, chkVars>>

\* The transaction deactivates the key it sees and inserts its own.  When
\* another call's insert overlaps, uq_signing_keys_active refuses this one.
CreateSigningKey(a) ==
    /\ attPc[a] = "newkey"
    /\ hasKey' = TRUE
    /\ \/ AttGoto(a, "session")
       \/ hasKey /\ AttGoto(a, "error")
    /\ UNCHANGED <<issuedFor, nonces, apps, active, now, rowVars,
                   attBits, attLevel, chkVars>>

\* The row may be committed although the caller sees an error.
CreateTrustSession(a) ==
    /\ attPc[a] = "session"
    /\ InsertRow(a, "active", now + TokenTTL)
    /\ AttGoto(a, "accepted") \/ AttGoto(a, "error")
    /\ UNCHANGED <<storeVars, attBits, attLevel, chkVars>>

-----------------------------------------------------------------------------
(* The steps of ValidateRequestProof.                                      *)

\* Only a device that was handed the signed token can compute the proof.
ValidateRequestProof(c, token, seq, genuine) ==
    /\ chkPc[c] = "idle"
    /\ genuine => attPc[token] = "accepted"
    /\ chkPc' = [chkPc EXCEPT ![c] = "session"]
    /\ chkToken' = [chkToken EXCEPT ![c] = token]
    /\ chkSeq' = [chkSeq EXCEPT ![c] = seq]
    /\ chkGenuine' = [chkGenuine EXCEPT ![c] = genuine]
    /\ UNCHANGED <<storeVars, rowVars, attVars, consumed>>

\* Check c moves to its next step, or to its answer.
ChkGoto(c, step) ==
    /\ chkPc' = [chkPc EXCEPT ![c] = step]
    /\ UNCHANGED <<chkToken, chkSeq, chkGenuine>>

AbortProof(c) ==
    /\ chkPc[c] \notin ChkAnswers \cup {"idle"}
    /\ ChkGoto(c, "error")
    /\ UNCHANGED <<storeVars, rowVars, attVars, consumed>>

Usable(t, genuine) == status[t] = "active" /\ now < expires[t] /\ genuine

\* The row is read once; status, expiry and the proof's MAC are checked on
\* the copy.
GetTrustSession(c) ==
    /\ chkPc[c] = "session"
    /\ ChkGoto(c, IF Usable(chkToken[c], chkGenuine[c]) THEN "consume" ELSE "DENY")
    /\ UNCHANGED <<storeVars, rowVars, attVars, consumed>>

\* Mutants: an off-by-one, and a forgotten status.
AdvancesOrRetries(t, seq) == status[t] = "active" /\ seq > 0 /\ seq >= last[t]
AdvancesAnyStatus(t, seq) == seq > last[t]

Advances(t, seq) == status[t] = "active" /\ seq > last[t]

\* One transaction: a lost reply leaves the sequence advanced while the
\* caller reports an error.
ConsumeSequence(c) ==
    LET t == chkToken[c]
        fresh == Advances(t, chkSeq[c])
    IN  /\ chkPc[c] = "consume"
        /\ \/ /\ fresh
              /\ last' = [last EXCEPT ![t] = chkSeq[c]]
              /\ \/ ChkGoto(c, "policy") /\ consumed' = [consumed EXCEPT ![c] = TRUE]
                 \/ ChkGoto(c, "error") /\ UNCHANGED consumed
           \/ ~fresh /\ ChkGoto(c, "DENY") /\ UNCHANGED <<last, consumed>>
        /\ UNCHANGED <<storeVars, status, expires, attVars>>

\* A failing policy lookup falls back to STEP_UP, like a missing policy.
Decide(c) ==
    /\ chkPc[c] = "policy"
    /\ \E p \in {GetActivePolicy(attApp[chkToken[c]]), None} :
          LET mode == IF p = None THEN NoPolicy.mode ELSE p.mode
          IN  ChkGoto(c, Decision(attLevel[chkToken[c]], mode))
    /\ UNCHANGED <<storeVars, rowVars, attVars, consumed>>

-----------------------------------------------------------------------------
AttestationStep(a) ==
    \/ ConsumeNonce(a) \/ GetApp(a) \/ Verify(a) \/ ScoreRisk(a)
    \/ GetActiveSigningKey(a) \/ CreateSigningKey(a) \/ CreateTrustSession(a)

ProofStep(c) == GetTrustSession(c) \/ ConsumeSequence(c) \/ Decide(c)

Next ==
    \/ \E a \in Calls : AttestationStep(a) \/ AbortAttestation(a)
    \/ \E c \in Checks : ProofStep(c) \/ AbortProof(c)
    \/ \E app \in Apps : CreateApp(app)
    \/ \E p \in Policies : ActivatePolicy(p)
    \/ \E t \in Calls : RevokeTrustSession(t)
    \/ \E n \in Nonces : ExpireNonce(n)
    \/ Tick
    \/ \E n \in Nonces, app \in Apps : GetNonce(n, app)
    \/ \E a \in Calls, n \in Nonces, app \in Apps, r \in Reports :
          VerifyAttestation(a, n, app, r)
    \/ \E c \in Checks, t \in Calls, s \in Seqs, g \in BOOLEAN :
          ValidateRequestProof(c, t, s, g)

Spec == Init /\ [][Next]_vars

\* A handler that has started keeps running: goroutines are scheduled and
\* every store call returns.  Nothing makes requests arrive.
Fairness == /\ \A a \in Calls : WF_vars(AttestationStep(a))
            /\ \A c \in Checks : WF_vars(ProofStep(c))

FairSpec == Spec /\ Fairness

-----------------------------------------------------------------------------
\* The types of the stores and of the handlers' local state.
TypeOK ==
    /\ issuedFor \in [Nonces -> Apps \cup {None}]
    /\ nonces \in [Nonces -> Apps \cup {None}]
    /\ apps \subseteq Apps
    /\ active \in [Scopes -> Policies \cup {None}]
    /\ hasKey \in BOOLEAN
    /\ now \in Nat
    /\ status \in [Calls -> {"none", "active", "failed", "revoked"}]
    /\ last \in [Calls -> Int]
    /\ expires \in [Calls -> Nat]
    /\ attPc \in [Calls -> AttSteps]
    /\ attNonce \in [Calls -> Nonces \cup {None}]
    /\ attApp \in [Calls -> Apps \cup {None}]
    /\ attBits \in [Calls -> SUBSET ServerSignals]
    /\ attLevel \in [Calls -> TrustLevels \cup {UNSPECIFIED}]
    /\ chkPc \in [Checks -> ChkSteps]
    /\ chkToken \in [Checks -> Calls \cup {None}]
    /\ chkSeq \in [Checks -> Int]
    /\ chkGenuine \in [Checks -> BOOLEAN]
    /\ consumed \in [Checks -> BOOLEAN]

\* A challenge nonce is worth at most one trust_sessions row, and only a row
\* of the app it was issued for: the compare-and-delete of consumeScript
\* separates concurrent VerifyAttestation calls that carry the same nonce.
OneSessionPerNonce ==
    \A a \in Calls : status[a] # "none" =>
        /\ issuedFor[attNonce[a]] = attApp[a]
        /\ \A b \in Calls \ {a} : status[b] # "none" => attNonce[b] # attNonce[a]

\* Two checks never both get past ConsumeSequence with the same sequence of
\* the same token, however they interleave and whatever replies were lost.
NoReplay ==
    \A c, d \in Checks :
        (c # d /\ consumed[c] /\ consumed[d] /\ chkToken[c] = chkToken[d])
            => chkSeq[c] # chkSeq[d]

\* A proof that got past ConsumeSequence belongs to a session minted by an
\* attestation that was answered "accepted", with a risk level to decide on:
\* never to the row of a failed attestation.  Its sequence is positive and
\* already spent, so the same request can never pass again.
ProofBacked ==
    \A c \in Checks : consumed[c] =>
        LET t == chkToken[c]
        IN  /\ attPc[t] = "accepted"
            /\ status[t] \in {"active", "revoked"}
            /\ attLevel[t] # UNSPECIFIED
            /\ 0 < chkSeq[c] /\ chkSeq[c] <= last[t]

\* Proofs pass in sequence order: a check that passes now carries a higher
\* sequence than every check of that token that passed before it.
SequenceOrder ==
    [][\A c, d \in Checks :
          (~consumed[c] /\ consumed'[c] /\ consumed[d] /\ chkToken[c] = chkToken[d])
              => chkSeq[d] < chkSeq[c]]_vars

\* Revocation is final: no later step makes the row usable again, and a check
\* that has not consumed its sequence when the session is revoked never does,
\* although it may have read the row earlier.
RevocationFinal ==
    [][/\ \A t \in Calls : status[t] = "revoked" => status'[t] = "revoked"
       /\ \A c \in Checks : ~consumed[c] /\ consumed'[c] => status[chkToken[c]] # "revoked"]_vars

\* The service implements ReplayGuard: a token is open while its row is
\* active, and the granted requests are the checks that consumed.
Guard == INSTANCE ReplayGuard WITH
    Tokens <- Calls,
    state <- [t \in Calls |-> IF status[t] = "none" THEN "closed"
                              ELSE IF status[t] = "active" THEN "open"
                              ELSE "ended"],
    spent <- last,
    granted <- {<<chkToken[c], chkSeq[c]>> : c \in {d \in Checks : consumed[d]}}

\* Every behaviour of the trust service is one that ReplayGuard allows.
RefinesReplayGuard == Guard!GuardSpec
=============================================================================
