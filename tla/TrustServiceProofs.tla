------------------------- MODULE TrustServiceProofs -------------------------
(***************************************************************************)
(* Proofs about TrustService for every number of nonces, apps, policies,   *)
(* calls and checks.                                                       *)
(***************************************************************************)
EXTENDS TrustService, TLAPS

Midway == {"app", "verify", "policy", "key", "newkey", "session"}
Scored == {"key", "newkey", "session", "accepted"}

\* The call holds a nonce it has deleted from Redis, or the row that came of it.
Redeemed(a) == attPc[a] \in Midway \/ status[a] # "none"

\* What Redis, the calls and the rows know of each other.
NonceInv ==
    /\ \A n \in Nonces : nonces[n] # None => nonces[n] = issuedFor[n]
    /\ \A a \in Calls : attPc[a] # "idle" => attNonce[a] \in Nonces /\ attApp[a] \in Apps
    /\ \A a \in Calls : Redeemed(a) => /\ nonces[attNonce[a]] = None
                                       /\ issuedFor[attNonce[a]] = attApp[a]
    /\ \A a, b \in Calls : a # b /\ Redeemed(a) /\ Redeemed(b)
                              => attNonce[a] # attNonce[b]
    /\ \A a \in Calls : status[a] # "none" => attPc[a] \in AttAnswers

\* What the attestations and the rows know of each other.
RowInv ==
    /\ \A a \in Calls : attPc[a] \in Scored => attLevel[a] \in TrustLevels
    /\ \A a \in Calls : attPc[a] = "accepted" => status[a] \in {"active", "revoked"}
    /\ \A a \in Calls : last[a] >= 0
    /\ \A a \in Calls : status[a] = "none" => last[a] = 0

\* What the checks and the rows know of each other.
ChkInv ==
    /\ \A c \in Checks : chkPc[c] # "idle" => chkToken[c] \in Calls /\ chkSeq[c] \in Seqs
    /\ \A c \in Checks : chkGenuine[c] =>
          chkPc[c] # "idle" /\ attPc[chkToken[c]] = "accepted"
    /\ \A c \in Checks : chkPc[c] = "consume" => chkGenuine[c] /\ ~consumed[c]
    /\ \A c \in Checks : consumed[c] =>
          /\ chkGenuine[c] /\ chkPc[c] # "session"
          /\ 0 < chkSeq[c] /\ chkSeq[c] <= last[chkToken[c]]
    /\ NoReplay

IndInv == TypeOK /\ NonceInv /\ RowInv /\ ChkInv

-----------------------------------------------------------------------------
\* Level always names a trust level, whatever thresholds a policy configures.
LEMMA LevelType ==
    ASSUME NEW score, NEW thresholds,
           DOMAIN thresholds \subseteq TrustLevels \cup {UNSPECIFIED}
    PROVE  Level(score, thresholds) \in TrustLevels
<1> DEFINE th == IF DOMAIN thresholds = {} THEN defaultThresholds ELSE thresholds
           met == {l \in DOMAIN th \ {UNSPECIFIED} : score >= th[l]}
           S == met \cup {TRUSTED}
<1>1. S \subseteq 1 .. 5 /\ 1 \in S
  <2>1. DOMAIN th \subseteq 0 .. 5
    BY DEF defaultThresholds, TrustLevels, UNSPECIFIED, LOW_RISK, CRITICAL
  <2>2. QED
    BY <2>1 DEF UNSPECIFIED, TRUSTED
<1> HIDE DEF S
<1>2. \E l \in S : \A k \in S : k <= l
  <2>1. CASE 5 \in S
    BY <2>1, <1>1
  <2>2. CASE 5 \notin S /\ 4 \in S
    BY <2>2, <1>1
  <2>3. CASE 5 \notin S /\ 4 \notin S /\ 3 \in S
    BY <2>3, <1>1
  <2>4. CASE 5 \notin S /\ 4 \notin S /\ 3 \notin S /\ 2 \in S
    BY <2>4, <1>1
  <2>5. CASE 5 \notin S /\ 4 \notin S /\ 3 \notin S /\ 2 \notin S
    BY <2>5, <1>1
  <2>6. QED
    BY <2>1, <2>2, <2>3, <2>4, <2>5, Zenon
<1>3. Level(score, thresholds) = CHOOSE l \in S : \A k \in S : k <= l
  BY Zenon DEF Level, S
<1>4. QED
  BY <1>1, <1>2, <1>3, Zenon DEF TrustLevels

\* FromWire only produces server signals.
LEMMA FromWireType ==
    ASSUME NEW report
    PROVE  FromWire(report) \subseteq ServerSignals
<1>1. \A w \in DOMAIN wireToServer : wireToServer[w] \in ServerSignals
  BY DEF wireToServer, ServerSignals, defaultWeights
<1>2. QED
  BY <1>1, Zenon DEF FromWire

\* The level a call is scored at is a trust level, with or without a policy.
LEMMA ScoredLevel ==
    ASSUME IndInv, NEW a \in Calls, ScoreRisk(a)
    PROVE  \E l \in TrustLevels : attLevel' = [attLevel EXCEPT ![a] = l]
<1>1. PICK p \in {GetActivePolicy(attApp[a]), None}, surge \in {{}, {"FleetAnomaly"}} :
         LET pol == IF p = None THEN NoPolicy ELSE p
             score == Score(attBits[a] \cup surge, pol.weights)
         IN  attLevel' = [attLevel EXCEPT ![a] = Level(score, pol.thresholds)]
  BY Zenon DEF ScoreRisk
<1> DEFINE pol == IF p = None THEN NoPolicy ELSE p
<1>2. DOMAIN pol.thresholds \subseteq TrustLevels \cup {UNSPECIFIED}
  <2>1. attApp[a] \in Scopes /\ TenantWide \in Scopes
    BY Zenon DEF ScoreRisk, IndInv, NonceInv, Scopes
  <2>2. p \in Policies \cup {None}
    BY <2>1 DEF GetActivePolicy, IndInv, TypeOK
  <2>3. QED
    BY <2>2, TrustAssumption DEF NoPolicy
<1>3. QED
  BY <1>1, <1>2, LevelType, Zenon

-----------------------------------------------------------------------------
\* The initial state satisfies the inductive invariant.
LEMMA InitInv == Init => IndInv
<1> SUFFICES ASSUME Init PROVE IndInv
  BY Zenon
<1> USE TrustAssumption DEF Init
<1>1. TypeOK
  <2>1. attPc \in [Calls -> AttSteps] /\ chkPc \in [Checks -> ChkSteps]
    BY Zenon DEF AttSteps, ChkSteps
  <2>2. hasKey \in BOOLEAN /\ chkGenuine \in [Checks -> BOOLEAN]
        /\ consumed \in [Checks -> BOOLEAN]
    BY Zenon
  <2>3. QED
    BY <2>1, <2>2 DEF TypeOK
<1>2. NonceInv
  BY Zenon DEF NonceInv, Redeemed, Midway
<1>3. RowInv /\ ChkInv
  BY DEF RowInv, ChkInv, NoReplay, Scored
<1>4. QED
  BY <1>1, <1>2, <1>3, Zenon DEF IndInv

\* Every step of a handler or of its environment keeps the types.
LEMMA TypeStep == IndInv /\ [Next]_vars => TypeOK'
<1> SUFFICES ASSUME IndInv, [Next]_vars PROVE TypeOK'
  BY Zenon
<1> USE TrustAssumption DEF IndInv, TypeOK, storeVars, rowVars, attVars, chkVars,
        AttGoto, ChkGoto, AttSteps, AttAnswers, ChkSteps, ChkAnswers
<1>1. ASSUME NEW a \in Calls, ConsumeNonce(a) PROVE TypeOK'
  BY <1>1, Zenon DEF ConsumeNonce, BoundTo
<1>2. ASSUME NEW a \in Calls, GetApp(a) PROVE TypeOK'
  BY <1>2, Zenon DEF GetApp
<1>3. ASSUME NEW a \in Calls, Verify(a) PROVE TypeOK'
  BY <1>3 DEF Verify, RecordFailedAttestation, InsertRow, Fuse
<1>4. ASSUME NEW a \in Calls, ScoreRisk(a) PROVE TypeOK'
  <2>1. PICK l \in TrustLevels : attLevel' = [attLevel EXCEPT ![a] = l]
    BY <1>4, ScoredLevel, Zenon
  <2>2. attLevel' \in [Calls -> TrustLevels \cup {UNSPECIFIED}]
    BY <2>1, Zenon
  <2>3. QED
    BY <1>4, <2>2, Zenon DEF ScoreRisk
<1>5. ASSUME NEW a \in Calls, GetActiveSigningKey(a) PROVE TypeOK'
  BY <1>5, Zenon DEF GetActiveSigningKey
<1>6. ASSUME NEW a \in Calls, CreateSigningKey(a) PROVE TypeOK'
  BY <1>6, Zenon DEF CreateSigningKey
<1>7. ASSUME NEW a \in Calls, CreateTrustSession(a) PROVE TypeOK'
  BY <1>7 DEF CreateTrustSession, InsertRow
<1>8. ASSUME NEW a \in Calls, AbortAttestation(a) PROVE TypeOK'
  BY <1>8, Zenon DEF AbortAttestation
<1>9. ASSUME NEW c \in Checks, GetTrustSession(c) PROVE TypeOK'
  BY <1>9, Zenon DEF GetTrustSession, Decisions
<1>10. ASSUME NEW c \in Checks, ConsumeSequence(c) PROVE TypeOK'
  <2>1. last' \in [Calls -> Int] /\ chkPc' \in [Checks -> ChkSteps]
    BY <1>10 DEF ConsumeSequence, Decisions
  <2>2. consumed' \in [Checks -> BOOLEAN]
    BY <1>10, Zenon DEF ConsumeSequence
  <2>3. QED
    BY <1>10, <2>1, <2>2 DEF ConsumeSequence
<1>11. ASSUME NEW c \in Checks, Decide(c) PROVE TypeOK'
  <2>1. PICK d \in Decisions : ChkGoto(c, d)
    BY <1>11, Zenon DEF Decide, Decision, Decisions
  <2>2. UNCHANGED <<storeVars, rowVars, attVars, consumed>>
    BY <1>11, Zenon DEF Decide
  <2>3. QED
    BY <2>1, <2>2, Zenon
<1>12. ASSUME NEW c \in Checks, AbortProof(c) PROVE TypeOK'
  BY <1>12, Zenon DEF AbortProof
<1>13. ASSUME NEW app \in Apps, CreateApp(app) PROVE TypeOK'
  BY <1>13, Zenon DEF CreateApp
<1>14. ASSUME NEW p \in Policies, ActivatePolicy(p) PROVE TypeOK'
  BY <1>14, Zenon DEF ActivatePolicy
<1>15. ASSUME NEW t \in Calls, RevokeTrustSession(t) PROVE TypeOK'
  BY <1>15, Zenon DEF RevokeTrustSession
<1>16. ASSUME NEW n \in Nonces, ExpireNonce(n) PROVE TypeOK'
  BY <1>16, Zenon DEF ExpireNonce
<1>17. ASSUME Tick PROVE TypeOK'
  BY <1>17 DEF Tick
<1>18. ASSUME NEW n \in Nonces, NEW app \in Apps, GetNonce(n, app) PROVE TypeOK'
  BY <1>18, Zenon DEF GetNonce
<1>19. ASSUME NEW a \in Calls, NEW n \in Nonces, NEW app \in Apps, NEW r \in Reports,
              VerifyAttestation(a, n, app, r) PROVE TypeOK'
  BY <1>19, FromWireType, Zenon DEF VerifyAttestation, ReportedBits
<1>20. ASSUME NEW c \in Checks, NEW t \in Calls, NEW s \in Seqs, NEW g \in BOOLEAN,
              ValidateRequestProof(c, t, s, g) PROVE TypeOK'
  BY <1>20, Zenon DEF ValidateRequestProof
<1>21. ASSUME UNCHANGED vars PROVE TypeOK'
  BY <1>21, Zenon DEF vars
<1> HIDE DEF TypeOK
<1>22. QED
  BY <1>1, <1>2, <1>3, <1>4, <1>5, <1>6, <1>7, <1>8, <1>9, <1>10, <1>11, <1>12,
     <1>13, <1>14, <1>15, <1>16, <1>17, <1>18, <1>19, <1>20, <1>21, Zenon
     DEF Next, AttestationStep, ProofStep
\* NonceInv reads five variables, and survives when no call becomes redeemed.
LEMMA NonceFrame ==
    ASSUME NonceInv, UNCHANGED <<issuedFor, nonces, attNonce, attApp>>,
           \A b \in Calls : /\ attPc'[b] # "idle" => attPc[b] # "idle"
                            /\ Redeemed(b)' => Redeemed(b)
                            /\ status'[b] # "none" => attPc'[b] \in AttAnswers
    PROVE  NonceInv'
BY Zenon DEF NonceInv

\* Steps that touch neither calls, nonces nor rows keep NonceInv.
LEMMA NonceStays ==
    ASSUME NonceInv, UNCHANGED <<issuedFor, nonces, attNonce, attApp, attPc, status>>
    PROVE  NonceInv'
BY Zenon DEF NonceInv, Redeemed

\* A call that moves on after its nonce was consumed, or that ends without a
\* row, keeps NonceInv.
LEMMA NonceMove ==
    ASSUME TypeOK, NonceInv, NEW a \in Calls, NEW to \in Midway \cup AttAnswers,
           UNCHANGED <<issuedFor, nonces, attNonce, attApp>>,
           attPc' = [attPc EXCEPT ![a] = to], attPc[a] \notin AttAnswers \cup {"idle"},
           attPc[a] \in Midway \/ (to \in AttAnswers /\ status' = status),
           \A b \in Calls \ {a} : status'[b] = status[b],
           status'[a] # "none" => to \in AttAnswers
    PROVE  NonceInv'
<1>1. attPc \in [Calls -> AttSteps]
  BY Zenon DEF TypeOK
<1>2. attPc'[a] = to /\ \A b \in Calls \ {a} : attPc'[b] = attPc[b]
  BY <1>1, Zenon
<1>3. Midway \cap AttAnswers = {}
  BY Zenon DEF Midway, AttAnswers
<1>4. ASSUME NEW b \in Calls
      PROVE  /\ attPc'[b] # "idle" => attPc[b] # "idle"
             /\ Redeemed(b)' => Redeemed(b)
             /\ status'[b] # "none" => attPc'[b] \in AttAnswers
  <2>1. CASE b = a
    BY <1>2, <1>3, <2>1, Zenon DEF Redeemed
  <2>2. CASE b # a
    BY <1>2, <2>2, Zenon DEF Redeemed, NonceInv
  <2>3. QED
    BY <2>1, <2>2, Zenon
<1>5. QED
  BY <1>4, NonceFrame, Zenon

\* Every step keeps nonces, calls and rows consistent.
LEMMA NonceStep == IndInv /\ [Next]_vars => NonceInv'
<1> SUFFICES ASSUME IndInv, [Next]_vars PROVE NonceInv'
  BY Zenon
<1>0. TypeOK /\ NonceInv
  BY Zenon DEF IndInv
<1> USE DEF storeVars, rowVars, attVars, chkVars, AttGoto
<1>1. ASSUME NEW a \in Calls, ConsumeNonce(a) PROVE NonceInv'
  <2>0. /\ attPc \in [Calls -> AttSteps] /\ attPc[a] = "consume" /\ attPc[a] \notin AttAnswers
        /\ attNonce[a] \in Nonces /\ attApp[a] \in Apps /\ status[a] = "none"
        /\ UNCHANGED <<issuedFor, status, attNonce, attApp>>
    BY <1>0, <1>1, Zenon DEF ConsumeNonce, TypeOK, NonceInv, AttAnswers
  <2>1. CASE ~BoundTo(attNonce[a], attApp[a])
    <3>1. nonces' = nonces /\ attPc' = [attPc EXCEPT ![a] = "rejected"]
      BY <1>1, <2>1, Zenon DEF ConsumeNonce
    <3>2. "rejected" \in AttAnswers /\ attPc[a] # "idle"
      BY <2>0, Zenon DEF AttAnswers
    <3>3. QED
      BY <1>0, <2>0, <3>1, <3>2, NonceMove, Zenon
  <2>2. CASE BoundTo(attNonce[a], attApp[a])
    <3>0. PICK to \in {"app", "error"} : attPc' = [attPc EXCEPT ![a] = to]
      BY <1>1, <2>2, Zenon DEF ConsumeNonce
    <3>1. /\ nonces[attNonce[a]] = attApp[a] /\ issuedFor[attNonce[a]] = attApp[a]
          /\ nonces' = [nonces EXCEPT ![attNonce[a]] = None]
          /\ nonces \in [Nonces -> Apps \cup {None}] /\ attApp[a] # None
      <4>1. nonces[attNonce[a]] = attApp[a] /\ nonces' = [nonces EXCEPT ![attNonce[a]] = None]
        BY <1>1, <2>2, Zenon DEF ConsumeNonce, BoundTo
      <4>2. nonces \in [Nonces -> Apps \cup {None}] /\ attApp[a] # None
        BY <1>0, <2>0, TrustAssumption, Zenon DEF TypeOK
      <4>3. QED
        BY <1>0, <2>0, <4>1, <4>2, Zenon DEF NonceInv
    <3>2. \A b \in Calls : Redeemed(b) => attNonce[b] # attNonce[a]
      BY <1>0, <3>1, Zenon DEF NonceInv
    <3>3. attPc'[a] = to /\ \A b \in Calls \ {a} : attPc'[b] = attPc[b]
      BY <2>0, <3>0, Zenon
    <3>4. nonces'[attNonce[a]] = None /\ \A n \in Nonces \ {attNonce[a]} : nonces'[n] = nonces[n]
      BY <2>0, <3>1, Zenon
    <3>5. \A b \in Calls : Redeemed(b)' => Redeemed(b) \/ b = a
      BY <2>0, <3>3, Zenon DEF Redeemed
    <3>6. \A b \in Calls : attPc'[b] # "idle" => attPc[b] # "idle"
      BY <2>0, <3>3, Zenon
    <3>7. \A b \in Calls : status'[b] # "none" => attPc'[b] \in AttAnswers
      BY <1>0, <2>0, <3>3, Zenon DEF NonceInv
    <3>8. \A b \in Calls : Redeemed(b)' => /\ nonces'[attNonce[b]] = None
                                           /\ issuedFor[attNonce[b]] = attApp[b]
      <4>1. \A b \in Calls : Redeemed(b) => attNonce[b] \in Nonces
        BY <1>0, Zenon DEF NonceInv, Redeemed, Midway, AttAnswers
      <4>2. QED
        BY <1>0, <3>1, <3>2, <3>4, <3>5, <4>1, Zenon DEF NonceInv
    <3>9. \A b, d \in Calls : b # d /\ Redeemed(b)' /\ Redeemed(d)' => attNonce[b] # attNonce[d]
      BY <1>0, <3>2, <3>5, Zenon DEF NonceInv
    <3>10. \A n \in Nonces : nonces'[n] # None => nonces'[n] = issuedFor[n]
      BY <1>0, <3>4, Zenon DEF NonceInv
    <3>11. QED
      BY <1>0, <2>0, <3>6, <3>7, <3>8, <3>9, <3>10, Zenon DEF NonceInv
  <2>3. QED
    BY <2>1, <2>2, Zenon
<1>2. ASSUME NEW a \in Calls, GetApp(a) PROVE NonceInv'
  <2>1. PICK to \in {"verify", "rejected"} : attPc' = [attPc EXCEPT ![a] = to]
    BY <1>2, Zenon DEF GetApp
  <2>2. attPc[a] = "app" /\ UNCHANGED <<issuedFor, nonces, attNonce, attApp, status>>
    BY <1>2, Zenon DEF GetApp
  <2>3. QED
    BY <1>0, <2>1, <2>2, NonceMove, Zenon DEF NonceInv, Midway, AttAnswers
<1>3. ASSUME NEW a \in Calls, Verify(a) PROVE NonceInv'
  <2>1. /\ attPc[a] = "verify" /\ UNCHANGED <<issuedFor, nonces, attNonce, attApp>>
        /\ status \in [Calls -> {"none", "failed", "active", "revoked"}]
    BY <1>0, <1>3, Zenon DEF Verify, TypeOK
  <2>2. \/ attPc' = [attPc EXCEPT ![a] = "policy"] /\ status' = status
        \/ /\ attPc' = [attPc EXCEPT ![a] = "rejected"]
           /\ status' = status \/ status' = [status EXCEPT ![a] = "failed"]
    BY <1>3, Zenon DEF Verify, RecordFailedAttestation, InsertRow
  <2>3. \A b \in Calls \ {a} : status'[b] = status[b]
    BY <2>1, <2>2, Zenon
  <2>4. QED
    <3>1. status[a] = "none" /\ {"policy", "rejected"} \subseteq Midway \cup AttAnswers
          /\ attPc[a] \in Midway /\ attPc[a] \notin AttAnswers \cup {"idle"} /\ "rejected" \in AttAnswers
      BY <1>0, <2>1, Zenon DEF NonceInv, Midway, AttAnswers
    <3>2. CASE attPc' = [attPc EXCEPT ![a] = "policy"] /\ status' = status
      BY <1>0, <2>1, <2>3, <3>1, <3>2, NonceMove, Zenon
    <3>3. CASE attPc' = [attPc EXCEPT ![a] = "rejected"]
      BY <1>0, <2>1, <2>3, <3>1, <3>3, NonceMove, Zenon
    <3>4. QED
      BY <2>2, <3>2, <3>3, Zenon
<1>4. ASSUME NEW a \in Calls, ScoreRisk(a) PROVE NonceInv'
  <2>1. PICK to \in {"key"} : attPc' = [attPc EXCEPT ![a] = to]
    BY <1>4, Zenon DEF ScoreRisk
  <2>2. attPc[a] = "policy" /\ UNCHANGED <<issuedFor, nonces, attNonce, attApp, status>>
    BY <1>4, Zenon DEF ScoreRisk
  <2>3. QED
    BY <1>0, <2>1, <2>2, NonceMove, Zenon DEF NonceInv, Midway, AttAnswers
<1>5. ASSUME NEW a \in Calls, GetActiveSigningKey(a) PROVE NonceInv'
  <2>1. PICK to \in {"session", "newkey"} : attPc' = [attPc EXCEPT ![a] = to]
    BY <1>5, Zenon DEF GetActiveSigningKey
  <2>2. attPc[a] = "key" /\ UNCHANGED <<issuedFor, nonces, attNonce, attApp, status>>
    BY <1>5, Zenon DEF GetActiveSigningKey
  <2>3. QED
    BY <1>0, <2>1, <2>2, NonceMove, Zenon DEF NonceInv, Midway, AttAnswers
<1>6. ASSUME NEW a \in Calls, CreateSigningKey(a) PROVE NonceInv'
  <2>1. PICK to \in {"session", "error"} : attPc' = [attPc EXCEPT ![a] = to]
    BY <1>6, Zenon DEF CreateSigningKey
  <2>2. attPc[a] = "newkey" /\ UNCHANGED <<issuedFor, nonces, attNonce, attApp, status>>
    BY <1>6, Zenon DEF CreateSigningKey
  <2>3. QED
    BY <1>0, <2>1, <2>2, NonceMove, Zenon DEF NonceInv, Midway, AttAnswers
<1>7. ASSUME NEW a \in Calls, CreateTrustSession(a) PROVE NonceInv'
  <2>1. PICK to \in {"accepted", "error"} : attPc' = [attPc EXCEPT ![a] = to]
    BY <1>7, Zenon DEF CreateTrustSession
  <2>2. attPc[a] = "session" /\ UNCHANGED <<issuedFor, nonces, attNonce, attApp>>
    BY <1>7, Zenon DEF CreateTrustSession
  <2>3. \A b \in Calls \ {a} : status'[b] = status[b]
    BY <1>0, <1>7, Zenon DEF CreateTrustSession, InsertRow, TypeOK
  <2>4. QED
    BY <1>0, <2>1, <2>2, <2>3, NonceMove, Zenon DEF Midway, AttAnswers
<1>8. ASSUME NEW a \in Calls, AbortAttestation(a) PROVE NonceInv'
  <2>1. /\ attPc[a] \notin AttAnswers \cup {"idle"} /\ attPc' = [attPc EXCEPT ![a] = "error"]
        /\ UNCHANGED <<issuedFor, nonces, attNonce, attApp, status>>
    BY <1>8, Zenon DEF AbortAttestation
  <2>2. "error" \in AttAnswers
    BY Zenon DEF AttAnswers
  <2>3. QED
    BY <1>0, <2>1, <2>2, NonceMove, Zenon
<1>9. ASSUME NEW c \in Checks, GetTrustSession(c) PROVE NonceInv'
  BY <1>0, <1>9, NonceStays, Zenon DEF GetTrustSession, ChkGoto
<1>10. ASSUME NEW c \in Checks, ConsumeSequence(c) PROVE NonceInv'
  BY <1>0, <1>10, NonceStays, Zenon DEF ConsumeSequence, ChkGoto
<1>11. ASSUME NEW c \in Checks, Decide(c) PROVE NonceInv'
  BY <1>0, <1>11, NonceStays, Zenon DEF Decide, ChkGoto
<1>12. ASSUME NEW c \in Checks, AbortProof(c) PROVE NonceInv'
  BY <1>0, <1>12, NonceStays, Zenon DEF AbortProof, ChkGoto
<1>13. ASSUME NEW app \in Apps, CreateApp(app) PROVE NonceInv'
  BY <1>0, <1>13, NonceStays, Zenon DEF CreateApp
<1>14. ASSUME NEW p \in Policies, ActivatePolicy(p) PROVE NonceInv'
  BY <1>0, <1>14, NonceStays, Zenon DEF ActivatePolicy
<1>15. ASSUME NEW t \in Calls, RevokeTrustSession(t) PROVE NonceInv'
  <2>1. /\ UNCHANGED <<issuedFor, nonces, attPc, attNonce, attApp>>
        /\ \A a \in Calls : status'[a] # "none" => status[a] # "none"
    BY <1>0, <1>15, Zenon DEF RevokeTrustSession, TypeOK
  <2>2. \A a \in Calls : /\ Redeemed(a)' => Redeemed(a)
                         /\ status'[a] # "none" => attPc'[a] \in AttAnswers
    BY <1>0, <2>1, Zenon DEF Redeemed, NonceInv
  <2>3. QED
    BY <1>0, <2>1, <2>2, NonceFrame, Zenon
<1>16. ASSUME NEW n \in Nonces, ExpireNonce(n) PROVE NonceInv'
  <2>1. /\ UNCHANGED <<issuedFor, status, attPc, attNonce, attApp>>
        /\ \A m \in Nonces : nonces'[m] \in {nonces[m], None}
    BY <1>0, <1>16, Zenon DEF ExpireNonce, TypeOK
  <2>2. \A a \in Calls : Redeemed(a)' <=> Redeemed(a)
    BY <2>1, Zenon DEF Redeemed
  <2>3. \A a \in Calls : Redeemed(a) => attNonce[a] \in Nonces
    BY <1>0, Zenon DEF NonceInv, Redeemed, Midway, AttAnswers
  <2>4. QED
    BY <1>0, <2>1, <2>2, <2>3, Zenon DEF NonceInv
<1>17. ASSUME Tick PROVE NonceInv'
  BY <1>0, <1>17, NonceStays, Zenon DEF Tick
<1>18. ASSUME NEW n \in Nonces, NEW app \in Apps, GetNonce(n, app) PROVE NonceInv'
  <2>1. /\ UNCHANGED <<status, attPc, attNonce, attApp>> /\ issuedFor[n] = None
        /\ nonces'[n] = app /\ issuedFor'[n] = app
        /\ \A m \in Nonces \ {n} : nonces'[m] = nonces[m] /\ issuedFor'[m] = issuedFor[m]
    <3>1. /\ nonces \in [Nonces -> Apps \cup {None}] /\ issuedFor \in [Nonces -> Apps \cup {None}]
      BY <1>0, Zenon DEF TypeOK
    <3>2. QED
      BY <1>18, <3>1, Zenon DEF GetNonce
  <2>2. \A a \in Calls : Redeemed(a)' <=> Redeemed(a)
    BY <2>1, Zenon DEF Redeemed
  <2>3. \A a \in Calls : Redeemed(a) => attNonce[a] \in Nonces /\ attApp[a] \in Apps
    BY <1>0, Zenon DEF NonceInv, Redeemed, Midway, AttAnswers
  <2>4. \A a \in Calls : Redeemed(a) => attNonce[a] # n
    BY <1>0, <2>1, <2>3, TrustAssumption DEF NonceInv
  <2>5. QED
    BY <1>0, <2>1, <2>2, <2>3, <2>4, Zenon DEF NonceInv
<1>19. ASSUME NEW a \in Calls, NEW n \in Nonces, NEW app \in Apps, NEW r \in Reports,
              VerifyAttestation(a, n, app, r) PROVE NonceInv'
  <2>1. /\ UNCHANGED <<issuedFor, nonces, status>> /\ attPc[a] = "idle" /\ attPc'[a] = "consume"
        /\ attNonce'[a] = n /\ attApp'[a] = app
        /\ \A b \in Calls \ {a} : /\ attPc'[b] = attPc[b] /\ attNonce'[b] = attNonce[b]
                                  /\ attApp'[b] = attApp[b]
    <3>1. /\ DOMAIN attPc = Calls /\ DOMAIN attNonce = Calls /\ DOMAIN attApp = Calls
      BY <1>0, Zenon DEF TypeOK
    <3>2. /\ UNCHANGED <<issuedFor, nonces, status>> /\ attPc[a] = "idle"
          /\ attPc' = [attPc EXCEPT ![a] = "consume"]
          /\ attNonce' = [attNonce EXCEPT ![a] = n] /\ attApp' = [attApp EXCEPT ![a] = app]
      BY <1>19, Zenon DEF VerifyAttestation
    <3>3. /\ attPc'[a] = "consume" /\ attNonce'[a] = n /\ attApp'[a] = app
      BY <3>1, <3>2, Zenon
    <3>4. ASSUME NEW b \in Calls \ {a}
          PROVE  /\ attPc'[b] = attPc[b] /\ attNonce'[b] = attNonce[b] /\ attApp'[b] = attApp[b]
      BY <3>1, <3>2, Zenon
    <3>5. QED
      BY <3>2, <3>3, <3>4, Zenon
  <2>2. status[a] = "none"
    BY <1>0, <2>1, Zenon DEF NonceInv, AttAnswers
  <2>3. \A b \in Calls : Redeemed(b)' => Redeemed(b) /\ b # a
    BY <2>1, <2>2, Zenon DEF Redeemed, Midway
  <2>4. QED
    BY <1>0, <2>1, <2>2, <2>3 DEF NonceInv
<1>20. ASSUME NEW c \in Checks, NEW t \in Calls, NEW s \in Seqs, NEW g \in BOOLEAN,
              ValidateRequestProof(c, t, s, g) PROVE NonceInv'
  BY <1>0, <1>20, NonceStays, Zenon DEF ValidateRequestProof
<1>21. ASSUME UNCHANGED vars PROVE NonceInv'
  BY <1>0, <1>21, NonceStays, Zenon DEF vars
<1>22. QED
  BY <1>1, <1>2, <1>3, <1>4, <1>5, <1>6, <1>7, <1>8, <1>9, <1>10, <1>11, <1>12,
     <1>13, <1>14, <1>15, <1>16, <1>17, <1>18, <1>19, <1>20, <1>21, Zenon
     DEF Next, AttestationStep, ProofStep

\* A call that moves on without touching rows or levels keeps RowInv, unless
\* the step is one that needs a level or a row.
LEMMA RowMove ==
    ASSUME TypeOK, RowInv, NEW a \in Calls, NEW step,
           attPc' = [attPc EXCEPT ![a] = step],
           step # "accepted", step \in Scored => attPc[a] \in Scored,
           UNCHANGED <<attLevel, status, last>>
    PROVE  RowInv'
BY Zenon DEF TypeOK, RowInv

\* Every step keeps attestations and rows consistent.
LEMMA RowStep == IndInv /\ [Next]_vars => RowInv'
<1> SUFFICES ASSUME IndInv, [Next]_vars PROVE RowInv'
  BY Zenon
<1>0. TypeOK /\ RowInv
  BY Zenon DEF IndInv
<1>1. ASSUME NEW a \in Calls,
             \/ ConsumeNonce(a) \/ GetApp(a) \/ GetActiveSigningKey(a)
             \/ CreateSigningKey(a) \/ AbortAttestation(a)
      PROVE  RowInv'
  <2>1. UNCHANGED <<attLevel, status, last>>
    BY <1>1, Zenon DEF ConsumeNonce, GetApp, GetActiveSigningKey, CreateSigningKey,
                AbortAttestation, rowVars
  <2>2. PICK step \in {"app", "error", "rejected", "verify", "session", "newkey"} :
           /\ attPc' = [attPc EXCEPT ![a] = step]
           /\ step \in {"session", "newkey"} => attPc[a] \in {"key", "newkey"}
    BY <1>1, Zenon DEF ConsumeNonce, GetApp, GetActiveSigningKey, CreateSigningKey,
                AbortAttestation, AttGoto
  <2>3. QED
    BY <1>0, <2>1, <2>2, RowMove, Zenon DEF Scored
<1>2. ASSUME NEW a \in Calls, Verify(a) PROVE RowInv'
  <2>1. attLevel' = attLevel /\ last' = last
    BY <1>2, Zenon DEF Verify, RecordFailedAttestation, InsertRow, rowVars
  <2>2. PICK step \in {"policy", "rejected"} : attPc' = [attPc EXCEPT ![a] = step]
    BY <1>2, Zenon DEF Verify, AttGoto
  <2>3. CASE UNCHANGED status
    BY <1>0, <2>1, <2>2, <2>3, RowMove, Zenon DEF Scored
  <2>4. CASE status' = [status EXCEPT ![a] = "failed"]
    BY <1>0, <2>1, <2>2, <2>4, Zenon DEF RowInv, TypeOK, Scored
  <2>5. QED
    BY <1>2, <2>3, <2>4, Zenon DEF Verify, RecordFailedAttestation, InsertRow, rowVars
<1>3. ASSUME NEW a \in Calls, ScoreRisk(a) PROVE RowInv'
  <2>1. PICK l \in TrustLevels : attLevel' = [attLevel EXCEPT ![a] = l]
    BY <1>3, ScoredLevel, Zenon
  <2>2. attPc' = [attPc EXCEPT ![a] = "key"] /\ UNCHANGED <<status, last>>
    BY <1>3, Zenon DEF ScoreRisk, AttGoto, rowVars
  <2>3. QED
    BY <1>0, <2>1, <2>2, Zenon DEF RowInv, TypeOK
<1>4. ASSUME NEW a \in Calls, CreateTrustSession(a) PROVE RowInv'
  <2>1. /\ status' = [status EXCEPT ![a] = "active"] /\ UNCHANGED <<attLevel, last>>
        /\ attPc[a] \in Scored
    BY <1>4, Zenon DEF CreateTrustSession, InsertRow, Scored
  <2>2. PICK step : attPc' = [attPc EXCEPT ![a] = step]
    BY <1>4, Zenon DEF CreateTrustSession, AttGoto
  <2>3. QED
    BY <1>0, <2>1, <2>2, Zenon DEF RowInv, TypeOK
<1>5. ASSUME NEW c \in Checks, ConsumeSequence(c) PROVE RowInv'
  <2>1. chkToken[c] \in Calls /\ chkSeq[c] \in Int
    BY <1>5, TrustAssumption, Zenon DEF ConsumeSequence, IndInv, ChkInv
  <2>2. UNCHANGED <<attPc, attLevel, status>>
    BY <1>5, Zenon DEF ConsumeSequence, attVars
  <2>3. CASE UNCHANGED last
    BY <1>0, <2>2, <2>3, Zenon DEF RowInv
  <2>4. CASE /\ last' = [last EXCEPT ![chkToken[c]] = chkSeq[c]]
             /\ status[chkToken[c]] = "active" /\ chkSeq[c] > last[chkToken[c]]
    <3>1. last \in [Calls -> Int]
      BY <1>0, Zenon DEF TypeOK
    <3>2. last[chkToken[c]] >= 0
      BY <1>0, <2>1, Zenon DEF RowInv
    <3>3. /\ last'[chkToken[c]] >= 0
          /\ \A a \in Calls : a # chkToken[c] => last'[a] = last[a]
      BY <2>1, <2>4, <3>1, <3>2
    <3>4. QED
      BY <1>0, <2>2, <2>4, <3>3, Zenon DEF RowInv
  <2>5. QED
    BY <1>5, <2>3, <2>4, Zenon DEF ConsumeSequence, Advances
<1>6. ASSUME NEW t \in Calls, RevokeTrustSession(t) PROVE RowInv'
  <2>1. UNCHANGED <<attPc, attLevel, last>> /\ status' = [status EXCEPT ![t] = "revoked"]
        /\ status[t] # "none"
    BY <1>6, Zenon DEF RevokeTrustSession, attVars
  <2>2. QED
    BY <1>0, <2>1, Zenon DEF RowInv, TypeOK
<1>7. ASSUME NEW a \in Calls, NEW n \in Nonces, NEW app \in Apps, NEW r \in Reports,
             VerifyAttestation(a, n, app, r) PROVE RowInv'
  <2>1. attPc' = [attPc EXCEPT ![a] = "consume"] /\ UNCHANGED <<attLevel, status, last>>
    BY <1>7, Zenon DEF VerifyAttestation, rowVars
  <2>2. QED
    BY <1>0, <2>1, RowMove, Zenon DEF Scored
<1>8. ASSUME UNCHANGED <<attPc, attLevel, status, last>> PROVE RowInv'
  BY <1>0, <1>8, Zenon DEF RowInv
<1>9. ASSUME NEW c \in Checks, GetTrustSession(c) \/ Decide(c) \/ AbortProof(c) PROVE RowInv'
  BY <1>8, <1>9, Zenon DEF GetTrustSession, Decide, AbortProof, rowVars, attVars
<1>10. ASSUME NEW c \in Checks, NEW t \in Calls, NEW q \in Seqs, NEW g \in BOOLEAN,
              ValidateRequestProof(c, t, q, g) PROVE RowInv'
  BY <1>8, <1>10, Zenon DEF ValidateRequestProof, rowVars, attVars
<1>11. ASSUME \/ \E app \in Apps : CreateApp(app)
              \/ \E p \in Policies : ActivatePolicy(p)
              \/ \E n \in Nonces : ExpireNonce(n) \/ \E app \in Apps : GetNonce(n, app)
              \/ Tick \/ UNCHANGED vars
       PROVE  RowInv'
  BY <1>8, <1>11, Zenon DEF CreateApp, ActivatePolicy, ExpireNonce, GetNonce, Tick, vars, rowVars, attVars
<1>12. QED
  BY <1>1, <1>2, <1>3, <1>4, <1>5, <1>6, <1>7, <1>9, <1>10, <1>11, Zenon
     DEF Next, AttestationStep, ProofStep

\* A step that leaves the checks and their sequences alone keeps ChkInv, as
\* long as no answer is taken back.
LEMMA ChkFrame ==
    ASSUME ChkInv, UNCHANGED <<chkPc, chkToken, chkSeq, chkGenuine, consumed, last>>,
           \A a \in Calls : attPc[a] = "accepted" => attPc'[a] = "accepted"
    PROVE  ChkInv'
BY Zenon DEF ChkInv, NoReplay

\* A check that moves on to an answer, or to a step whose needs are met, and
\* consumes nothing keeps ChkInv.
LEMMA ChkMove ==
    ASSUME TypeOK, ChkInv, NEW c \in Checks, NEW step,
           chkPc[c] # "idle", chkPc' = [chkPc EXCEPT ![c] = step],
           step \notin {"idle", "session"},
           step = "consume" => chkGenuine[c] /\ ~consumed[c],
           UNCHANGED <<chkToken, chkSeq, chkGenuine, consumed, last, attPc>>
    PROVE  ChkInv'
BY Zenon DEF TypeOK, ChkInv, NoReplay

\* Every step keeps checks and rows consistent.
LEMMA ChkStep == IndInv /\ [Next]_vars => ChkInv'
<1> SUFFICES ASSUME IndInv, [Next]_vars PROVE ChkInv'
  BY Zenon
<1>0. TypeOK /\ ChkInv
  BY Zenon DEF IndInv
<1>1. ASSUME NEW a \in Calls, AttestationStep(a) \/ AbortAttestation(a) PROVE ChkInv'
  <2>1. UNCHANGED <<chkPc, chkToken, chkSeq, chkGenuine, consumed, last>>
    BY <1>1, Zenon DEF AttestationStep, ConsumeNonce, GetApp, Verify, ScoreRisk, GetActiveSigningKey,
                CreateSigningKey, CreateTrustSession, AbortAttestation,
                RecordFailedAttestation, InsertRow, rowVars, chkVars
  <2>2. attPc[a] # "accepted" /\ \E step : attPc' = [attPc EXCEPT ![a] = step]
    BY <1>1, Zenon DEF AttestationStep, ConsumeNonce, GetApp, Verify, ScoreRisk, GetActiveSigningKey,
                CreateSigningKey, CreateTrustSession, AbortAttestation, AttGoto, AttAnswers
  <2>3. \A b \in Calls : attPc[b] = "accepted" => attPc'[b] = "accepted"
    BY <1>0, <2>2, Zenon DEF TypeOK
  <2>4. QED
    BY <1>0, <2>1, <2>3, ChkFrame, Zenon
<1>2. ASSUME NEW c \in Checks, GetTrustSession(c) PROVE ChkInv'
  <2>1. PICK step \in {"consume", "DENY"} :
           /\ chkPc' = [chkPc EXCEPT ![c] = step]
           /\ step = "consume" => chkGenuine[c]
    BY <1>2, Zenon DEF GetTrustSession, ChkGoto, Usable
  <2>2. chkPc[c] = "session" /\ UNCHANGED <<chkToken, chkSeq, chkGenuine, consumed, last, attPc>>
    BY <1>2, Zenon DEF GetTrustSession, ChkGoto, rowVars, attVars
  <2>3. ~consumed[c]
    BY <1>0, <2>2, Zenon DEF ChkInv
  <2>4. chkPc[c] # "idle" /\ step \notin {"idle", "session"}
    BY <2>1, <2>2, Zenon
  <2>5. QED
    BY <1>0, <2>1, <2>2, <2>3, <2>4, ChkMove, Zenon
<1>3. ASSUME NEW c \in Checks, Decide(c) \/ AbortProof(c) PROVE ChkInv'
  <2>1. PICK step \in {"ALLOW", "STEP_UP", "DENY", "error"} : chkPc' = [chkPc EXCEPT ![c] = step]
    BY <1>3, Zenon DEF Decide, Decision, AbortProof, ChkGoto
  <2>2. chkPc[c] # "idle" /\ UNCHANGED <<chkToken, chkSeq, chkGenuine, consumed, last, attPc>>
    BY <1>3, Zenon DEF Decide, AbortProof, ChkGoto, rowVars, attVars
  <2>3. step \notin {"idle", "session"} /\ step # "consume"
    BY <2>1, Zenon
  <2>4. QED
    BY <1>0, <2>1, <2>2, <2>3, ChkMove, Zenon
<1>4. ASSUME NEW c \in Checks, ConsumeSequence(c) PROVE ChkInv'
  <2>1. /\ chkPc[c] = "consume" /\ chkToken[c] \in Calls /\ chkSeq[c] \in Seqs
        /\ chkGenuine[c] /\ ~consumed[c]
    BY <1>0, <1>4, Zenon DEF ConsumeSequence, ChkInv
  <2>2. UNCHANGED <<chkToken, chkSeq, chkGenuine, attPc>>
    BY <1>4, Zenon DEF ConsumeSequence, ChkGoto, attVars
  <2>3. CASE /\ chkPc' = [chkPc EXCEPT ![c] = "DENY"]
             /\ UNCHANGED <<last, consumed>>
    <3>1. chkPc[c] # "idle" /\ "DENY" \notin {"idle", "session"} /\ "DENY" # "consume"
      BY <2>1, Zenon
    <3>2. UNCHANGED <<chkToken, chkSeq, chkGenuine, consumed, last, attPc>>
      BY <2>2, <2>3, Zenon
    <3>3. QED
      BY <1>0, <2>3, <3>1, <3>2, ChkMove, Zenon
  <2>4. CASE /\ chkSeq[c] > last[chkToken[c]]
             /\ last' = [last EXCEPT ![chkToken[c]] = chkSeq[c]]
             /\ \/ chkPc' = [chkPc EXCEPT ![c] = "policy"] /\ consumed' = [consumed EXCEPT ![c] = TRUE]
                \/ chkPc' = [chkPc EXCEPT ![c] = "error"] /\ UNCHANGED consumed
    <3>1. \A d \in Checks : consumed[d] => chkToken[d] \in Calls
      BY <1>0, Zenon DEF ChkInv
    <3>2. last \in [Calls -> Int] /\ last[chkToken[c]] >= 0 /\ chkSeq[c] \in Int
      BY <2>1, TrustAssumption, Zenon DEF IndInv, TypeOK, RowInv
    <3>3. \A d \in Checks : consumed[d] =>
             /\ chkSeq[d] <= last'[chkToken[d]]
             /\ chkToken[d] = chkToken[c] => chkSeq[d] < chkSeq[c]
      <4>1. \A d \in Checks : consumed[d] => chkSeq[d] \in Int /\ chkSeq[d] <= last[chkToken[d]]
        BY <1>0, TrustAssumption, Zenon DEF ChkInv
      <4>2. \A t \in Calls : last'[t] >= last[t] /\ last[t] \in Int /\ last'[t] \in Int
        <5>1. ASSUME NEW t \in Calls, t # chkToken[c] PROVE last'[t] = last[t]
          BY <2>4, <3>2, <5>1, Zenon
        <5>2. last'[chkToken[c]] = chkSeq[c]
          BY <2>1, <2>4, <3>2, Zenon
        <5>3. chkSeq[c] > last[chkToken[c]] /\ \A t \in Calls : last[t] \in Int
          BY <2>4, <3>2, Zenon
        <5>4. ASSUME NEW t \in Calls PROVE last'[t] >= last[t] /\ last'[t] \in Int
          BY <3>2, <5>1, <5>2, <5>3
        <5>5. QED
          BY <5>3, <5>4, Zenon
      <4>3. ASSUME NEW d \in Checks, consumed[d]
            PROVE  /\ chkSeq[d] <= last'[chkToken[d]]
                   /\ chkToken[d] = chkToken[c] => chkSeq[d] < chkSeq[c]
        <5>1. /\ chkToken[d] \in Calls /\ chkSeq[d] \in Int /\ chkSeq[d] <= last[chkToken[d]]
          BY <3>1, <4>1, <4>3, Zenon
        <5>2. QED
          BY <2>4, <3>2, <4>2, <5>1
      <4>4. QED
        BY <4>3, Zenon
    <3>4. 0 < chkSeq[c] /\ chkSeq[c] <= last'[chkToken[c]]
      BY <2>1, <2>4, <3>2
    <3>5. \A d \in Checks : /\ chkPc'[d] = "idle" <=> chkPc[d] = "idle"
                            /\ chkPc'[d] = "session" => chkPc[d] = "session" /\ d # c
                            /\ chkPc'[d] = "consume" => chkPc[d] = "consume" /\ d # c
                            /\ d # c => consumed'[d] = consumed[d]
      <4>1. DOMAIN chkPc = Checks /\ DOMAIN consumed = Checks
        BY <1>0, Zenon DEF TypeOK
      <4>2. \A d \in Checks : d # c => chkPc'[d] = chkPc[d] /\ consumed'[d] = consumed[d]
        BY <2>4, <4>1, Zenon
      <4>3. chkPc'[c] \in {"policy", "error"}
        BY <2>4, <4>1, Zenon
      <4>4. QED
        BY <2>1, <4>2, <4>3, Zenon
    <3>6. \A d \in Checks : consumed'[d] => consumed[d] \/ d = c
      BY <3>5, Zenon
    <3>7. NoReplay'
      <4> SUFFICES ASSUME NEW d \in Checks, NEW e \in Checks, d # e,
                          consumed'[d], consumed'[e], chkToken[d] = chkToken[e]
                   PROVE  chkSeq[d] # chkSeq[e]
        BY <2>2, Zenon DEF NoReplay
      <4>1. CASE d = c
        BY <3>2, <3>3, <3>6, <4>1
      <4>2. CASE e = c
        BY <3>2, <3>3, <3>6, <4>2
      <4>3. CASE d # c /\ e # c
        BY <1>0, <3>6, <4>3, Zenon DEF ChkInv, NoReplay
      <4>4. QED
        BY <4>1, <4>2, <4>3, Zenon
    <3>8. \A d \in Checks : consumed'[d] =>
             /\ chkGenuine'[d] /\ chkPc'[d] # "session"
             /\ 0 < chkSeq'[d] /\ chkSeq'[d] <= last'[chkToken'[d]]
      BY <1>0, <2>1, <2>2, <3>3, <3>4, <3>5, <3>6, Zenon DEF ChkInv
    <3>9. \A d \in Checks : chkPc'[d] = "consume" => chkGenuine'[d] /\ ~consumed'[d]
      BY <1>0, <2>2, <3>5, Zenon DEF ChkInv
    <3>10. \A d \in Checks :
              /\ chkPc'[d] # "idle" => chkToken'[d] \in Calls /\ chkSeq'[d] \in Seqs
              /\ chkGenuine'[d] => chkPc'[d] # "idle" /\ attPc'[chkToken'[d]] = "accepted"
      BY <1>0, <2>2, <3>5, Zenon DEF ChkInv
    <3>11. QED
      BY <3>7, <3>8, <3>9, <3>10, Zenon DEF ChkInv
  <2>5. QED
    BY <1>4, <2>3, <2>4, Zenon DEF ConsumeSequence, Advances, ChkGoto
<1>5. ASSUME NEW c \in Checks, NEW t \in Calls, NEW q \in Seqs, NEW g \in BOOLEAN,
             ValidateRequestProof(c, t, q, g) PROVE ChkInv'
  <2>1. /\ chkPc[c] = "idle" /\ (g => attPc[t] = "accepted")
        /\ chkPc' = [chkPc EXCEPT ![c] = "session"]
        /\ chkToken' = [chkToken EXCEPT ![c] = t]
        /\ chkSeq' = [chkSeq EXCEPT ![c] = q]
        /\ chkGenuine' = [chkGenuine EXCEPT ![c] = g]
        /\ UNCHANGED <<last, attPc, consumed>>
    BY <1>5, Zenon DEF ValidateRequestProof, rowVars, attVars
  <2>2. ~consumed[c]
    BY <1>0, <2>1, Zenon DEF ChkInv
  <2>3. /\ chkPc'[c] = "session" /\ chkToken'[c] = t /\ chkSeq'[c] = q /\ chkGenuine'[c] = g
        /\ \A d \in Checks \ {c} : /\ chkPc'[d] = chkPc[d] /\ chkToken'[d] = chkToken[d]
                                   /\ chkSeq'[d] = chkSeq[d] /\ chkGenuine'[d] = chkGenuine[d]
    BY <1>0, <2>1, Zenon DEF TypeOK
  <2>4. NoReplay'
    <3> SUFFICES ASSUME NEW d \in Checks, NEW e \in Checks, d # e,
                        consumed[d], consumed[e], chkToken'[d] = chkToken'[e]
                 PROVE  chkSeq'[d] # chkSeq'[e]
      BY <2>1, Zenon DEF NoReplay
    <3>1. d # c /\ e # c
      BY <2>2, Zenon
    <3>2. /\ chkToken'[d] = chkToken[d] /\ chkToken'[e] = chkToken[e]
          /\ chkSeq'[d] = chkSeq[d] /\ chkSeq'[e] = chkSeq[e]
      BY <2>3, <3>1, Zenon
    <3>3. NoReplay
      BY <1>0, Zenon DEF ChkInv
    <3>4. QED
      BY <3>2, <3>3, Zenon DEF NoReplay
  <2>5. ASSUME NEW d \in Checks
        PROVE  /\ chkPc'[d] # "idle" => chkToken'[d] \in Calls /\ chkSeq'[d] \in Seqs
               /\ chkGenuine'[d] => chkPc'[d] # "idle" /\ attPc'[chkToken'[d]] = "accepted"
               /\ chkPc'[d] = "consume" => chkGenuine'[d] /\ ~consumed'[d]
               /\ consumed'[d] => /\ chkGenuine'[d] /\ chkPc'[d] # "session"
                                  /\ 0 < chkSeq'[d] /\ chkSeq'[d] <= last'[chkToken'[d]]
    <3>1. CASE d = c
      BY <2>1, <2>2, <2>3, <3>1
    <3>2. CASE d # c
      <4>1. /\ chkPc'[d] = chkPc[d] /\ chkToken'[d] = chkToken[d] /\ chkSeq'[d] = chkSeq[d]
            /\ chkGenuine'[d] = chkGenuine[d] /\ consumed'[d] = consumed[d]
            /\ last' = last /\ attPc' = attPc
        BY <2>1, <2>3, <3>2, Zenon
      <4>2. QED
        BY <1>0, <4>1, Zenon DEF ChkInv
    <3>3. QED
      BY <3>1, <3>2, Zenon
  <2>6. QED
    BY <2>4, <2>5, Zenon DEF ChkInv
<1>6. ASSUME UNCHANGED <<chkVars, last, attPc>> PROVE ChkInv'
  BY <1>0, <1>6, ChkFrame, Zenon DEF chkVars
<1>7. ASSUME NEW a \in Calls, NEW n \in Nonces, NEW app \in Apps, NEW r \in Reports,
             VerifyAttestation(a, n, app, r) PROVE ChkInv'
  <2>1. /\ attPc[a] = "idle" /\ attPc' = [attPc EXCEPT ![a] = "consume"]
        /\ UNCHANGED <<chkPc, chkToken, chkSeq, chkGenuine, consumed, last>>
    BY <1>7, Zenon DEF VerifyAttestation, rowVars, chkVars
  <2>2. \A b \in Calls : attPc[b] = "accepted" => attPc'[b] = "accepted"
    BY <1>0, <2>1, Zenon DEF TypeOK
  <2>3. QED
    BY <1>0, <2>1, <2>2, ChkFrame, Zenon
<1>8. ASSUME \/ \E app \in Apps : CreateApp(app)
             \/ \E p \in Policies : ActivatePolicy(p)
             \/ \E t \in Calls : RevokeTrustSession(t)
             \/ \E n \in Nonces : ExpireNonce(n) \/ \E app \in Apps : GetNonce(n, app)
             \/ Tick \/ UNCHANGED vars
      PROVE  ChkInv'
  BY <1>6, <1>8, Zenon DEF CreateApp, ActivatePolicy, RevokeTrustSession, ExpireNonce, GetNonce, Tick,
                    vars, rowVars, attVars
<1>9. QED
  BY <1>1, <1>2, <1>3, <1>4, <1>5, <1>7, <1>8, Zenon DEF Next, ProofStep
-----------------------------------------------------------------------------
\* IndInv is an invariant of the trust service.
THEOREM Invariance == Spec => []IndInv
<1>1. IndInv /\ [Next]_vars => IndInv'
  BY TypeStep, NonceStep, RowStep, ChkStep, Zenon DEF IndInv
<1>2. QED
  BY InitInv, <1>1, PTL DEF Spec

\* Type correctness, for every number of handlers and every policy set.
THEOREM TypeCorrect == Spec => []TypeOK
<1>1. IndInv => TypeOK
  BY Zenon DEF IndInv
<1>2. QED
  BY Invariance, <1>1, PTL

\* A nonce is worth at most one trust session, of the app it was issued for:
\* Consume's compare-and-delete is enough for any number of concurrent calls.
THEOREM NonceSafety == Spec => []OneSessionPerNonce
<1>1. IndInv => OneSessionPerNonce
  BY Zenon DEF IndInv, NonceInv, Redeemed, OneSessionPerNonce
<1>2. QED
  BY Invariance, <1>1, PTL

\* A sequence of a token passes ConsumeSequence at most once, and only on a
\* session that an accepted attestation minted.
THEOREM ReplaySafety == Spec => [](NoReplay /\ ProofBacked)
<1>1. IndInv => NoReplay /\ ProofBacked
  <2> SUFFICES ASSUME IndInv PROVE NoReplay /\ ProofBacked
    BY Zenon
  <2>1. NoReplay
    BY Zenon DEF IndInv, RowInv, ChkInv
  <2>2. ProofBacked
    <3> SUFFICES ASSUME NEW c \in Checks, consumed[c]
                 PROVE  /\ attPc[chkToken[c]] = "accepted"
                        /\ status[chkToken[c]] \in {"active", "revoked"}
                        /\ attLevel[chkToken[c]] # UNSPECIFIED
                        /\ 0 < chkSeq[c] /\ chkSeq[c] <= last[chkToken[c]]
      BY Zenon DEF ProofBacked
    <3>1. /\ chkToken[c] \in Calls
          /\ attPc[chkToken[c]] = "accepted"
          /\ 0 < chkSeq[c] /\ chkSeq[c] <= last[chkToken[c]]
      BY Zenon DEF IndInv, RowInv, ChkInv
    <3>2. attLevel[chkToken[c]] \in TrustLevels
      BY <3>1, Zenon DEF IndInv, RowInv, ChkInv, Scored
    <3>3. status[chkToken[c]] \in {"active", "revoked"}
      BY <3>1, Zenon DEF IndInv, RowInv, ChkInv
    <3>4. QED
      BY <3>1, <3>2, <3>3 DEF TrustLevels, UNSPECIFIED
  <2>3. QED
    BY <2>1, <2>2, Zenon
<1>2. QED
  BY Invariance, <1>1, PTL

\* Only ConsumeSequence lets a check pass.
LEMMA PassesByConsuming ==
    ASSUME IndInv, [Next]_vars, NEW c \in Checks, ~consumed[c], consumed'[c]
    PROVE  ConsumeSequence(c) /\ Advances(chkToken[c], chkSeq[c])
<1>1. consumed' # consumed
  BY Zenon
<1>2. PICK e \in Checks : ConsumeSequence(e)
  BY <1>1, Zenon DEF Next, vars, storeVars, rowVars, attVars, chkVars, AttestationStep, ProofStep,
         ConsumeNonce, GetApp, Verify, ScoreRisk, GetActiveSigningKey, CreateSigningKey,
         CreateTrustSession, AbortAttestation, GetTrustSession, Decide,
         AbortProof, CreateApp, ActivatePolicy, RevokeTrustSession, ExpireNonce, Tick,
         GetNonce, VerifyAttestation, ValidateRequestProof
<1>3. consumed' = [consumed EXCEPT ![e] = TRUE] /\ Advances(chkToken[e], chkSeq[e])
  BY <1>1, <1>2, Zenon DEF ConsumeSequence
<1>4. e = c
  BY <1>3, Zenon DEF IndInv, TypeOK
<1>5. QED
  BY <1>2, <1>3, <1>4, Zenon

\* Proofs of one token pass in strictly increasing sequence order.
THEOREM OrderSafety == Spec => SequenceOrder
<1> DEFINE Ordered ==
        \A c, d \in Checks :
          (~consumed[c] /\ consumed'[c] /\ consumed[d] /\ chkToken[c] = chkToken[d])
              => chkSeq[d] < chkSeq[c]
<1>1. IndInv /\ [Next]_vars => Ordered
  <2> SUFFICES ASSUME IndInv, [Next]_vars, NEW c \in Checks, NEW d \in Checks,
                      ~consumed[c], consumed'[c], consumed[d], chkToken[c] = chkToken[d]
               PROVE  chkSeq[d] < chkSeq[c]
    BY Zenon
  <2>1. ConsumeSequence(c)
    BY PassesByConsuming, Zenon
  <2>2. chkToken[c] \in Calls /\ chkSeq[c] > last[chkToken[c]]
    BY <2>1, Zenon DEF ConsumeSequence, Advances, IndInv, RowInv, ChkInv
  <2>3. chkSeq[d] \in Int /\ chkSeq[d] <= last[chkToken[d]]
    BY TrustAssumption, Zenon DEF IndInv, ChkInv
  <2>4. last[chkToken[c]] \in Int /\ chkSeq[c] \in Int
    <3>1. last \in [Calls -> Int]
      BY Zenon DEF IndInv, TypeOK
    <3>2. chkSeq[c] \in Seqs
      BY <2>1, Zenon DEF IndInv, ChkInv, ConsumeSequence
    <3>3. QED
      BY <2>2, <3>1, <3>2, TrustAssumption, Zenon
  <2>5. QED
    BY <2>2, <2>3, <2>4
<1>2. QED
  BY Invariance, <1>1, PTL DEF Spec, SequenceOrder

\* A revoked row stays revoked, and no check in flight passes on it.
THEOREM RevocationSafety == Spec => RevocationFinal
<1> DEFINE Final ==
        /\ \A t \in Calls : status[t] = "revoked" => status'[t] = "revoked"
        /\ \A c \in Checks : ~consumed[c] /\ consumed'[c] => status[chkToken[c]] # "revoked"
<1>1. IndInv /\ [Next]_vars => Final
  <2> SUFFICES ASSUME IndInv, [Next]_vars PROVE Final
    BY Zenon
  <2>1. ASSUME NEW t \in Calls, status[t] = "revoked" PROVE status'[t] = "revoked"
    <3>1. \/ status' = status
          \/ \E a \in Calls : CreateTrustSession(a) \/ Verify(a) \/ RevokeTrustSession(a)
      BY Zenon DEF Next, vars, rowVars, AttestationStep, ProofStep,
             ConsumeNonce, GetApp, ScoreRisk, GetActiveSigningKey, CreateSigningKey,
             AbortAttestation, GetTrustSession, ConsumeSequence, Decide,
             AbortProof, CreateApp, ActivatePolicy, ExpireNonce, Tick,
             GetNonce, VerifyAttestation, ValidateRequestProof
    <3>2. ASSUME NEW a \in Calls, CreateTrustSession(a) \/ Verify(a)
          PROVE  status[a] = "none" /\ \E s : status' \in {status, [status EXCEPT ![a] = s]}
      BY <3>2, Zenon DEF CreateTrustSession, Verify, RecordFailedAttestation, InsertRow, rowVars,
                         IndInv, TypeOK, NonceInv, AttAnswers
    <3>3. ASSUME NEW a \in Calls, RevokeTrustSession(a) PROVE status' = [status EXCEPT ![a] = "revoked"]
      BY <3>3, Zenon DEF RevokeTrustSession
    <3>4. QED
      BY <2>1, <3>1, <3>2, <3>3, Zenon DEF IndInv, TypeOK
  <2>2. ASSUME NEW c \in Checks, ~consumed[c], consumed'[c] PROVE status[chkToken[c]] # "revoked"
    BY <2>2, PassesByConsuming, Zenon DEF Advances
  <2>3. QED
    BY <2>1, <2>2, Zenon
<1>2. QED
  BY Invariance, <1>1, PTL DEF Spec, RevocationFinal
-----------------------------------------------------------------------------
(* The refinement mapping of TrustService!Guard, by name.                  *)
AbsState == [t \in Calls |-> IF status[t] = "none" THEN "closed"
                             ELSE IF status[t] = "active" THEN "open" ELSE "ended"]
AbsGranted == {<<chkToken[c], chkSeq[c]>> : c \in {d \in Checks : consumed[d]}}
AbsStutter == AbsState' = AbsState /\ last' = last /\ AbsGranted' = AbsGranted

\* Steps that write neither rows nor the checks' requests change nothing that
\* ReplayGuard can see.
LEMMA Invisible ==
    ASSUME status' = status, last' = last, consumed' = consumed,
           chkToken' = chkToken, chkSeq' = chkSeq
    PROVE  AbsStutter
BY Zenon DEF AbsStutter, AbsState, AbsGranted

\* The granted pairs are a function of the checks' consumed, token and sequence.
LEMMA GrantedSame ==
    ASSUME consumed' = consumed, chkToken' = chkToken, chkSeq' = chkSeq
    PROVE  AbsGranted' = AbsGranted
BY Zenon DEF AbsGranted

\* Marking a check consumed adds its pair to the granted ones.
LEMMA GrantedGrows ==
    ASSUME NEW c \in Checks, consumed \in [Checks -> BOOLEAN],
           consumed' = [consumed EXCEPT ![c] = TRUE],
           chkToken' = chkToken, chkSeq' = chkSeq
    PROVE  AbsGranted' = AbsGranted \cup {<<chkToken[c], chkSeq[c]>>}
<1> DEFINE Pair(d) == <<chkToken[d], chkSeq[d]>>
           Before == {d \in Checks : consumed[d]}
           After == {d \in Checks : consumed'[d]}
<1>1. consumed'[c] = TRUE /\ \A d \in Checks \ {c} : consumed'[d] = consumed[d]
  BY Zenon
<1>2. After = Before \cup {c}
  BY <1>1, Zenon
<1>3. AbsGranted' = {Pair(d) : d \in After}
  BY Zenon DEF AbsGranted
<1>4. AbsGranted = {Pair(d) : d \in Before}
  BY Zenon DEF AbsGranted
<1>5. QED
  <2> HIDE DEF Pair, Before, After
  <2>1. AbsGranted' = AbsGranted \cup {Pair(c)}
    BY <1>2, <1>3, <1>4, Zenon
  <2>2. QED
    BY <2>1, Zenon DEF Pair

\* Each step of the service is a step of ReplayGuard, or invisible to it.
LEMMA GuardStep ==
    IndInv /\ [Next]_vars => \/ AbsStutter
                             \/ \E t \in Calls : \/ Guard!Open(t) \/ Guard!End(t)
                                                 \/ \E s \in Seqs : Guard!Spend(t, s)
<1> SUFFICES ASSUME IndInv, [Next]_vars
             PROVE  \/ AbsStutter
                    \/ \E t \in Calls : \/ Guard!Open(t) \/ Guard!End(t)
                                        \/ \E s \in Seqs : Guard!Spend(t, s)
  BY Zenon
<1> USE DEF IndInv, TypeOK, storeVars, rowVars, attVars, chkVars, AttGoto, ChkGoto
<1>1. ASSUME NEW a \in Calls, Verify(a) PROVE AbsStutter \/ Guard!End(a)
  <2>1. CASE UNCHANGED rowVars
    BY <1>1, <2>1, Invisible, Zenon DEF Verify
  <2>2. CASE RecordFailedAttestation(a)
    <3>1. status' = [status EXCEPT ![a] = "failed"] /\ status[a] = "none"
      BY <1>1, <2>2, Zenon DEF RecordFailedAttestation, InsertRow, Verify, NonceInv, AttAnswers
    <3>2. AbsState' = [AbsState EXCEPT ![a] = "ended"] /\ AbsState[a] # "ended"
      BY <3>1, Zenon DEF AbsState
    <3>3. last' = last /\ AbsGranted' = AbsGranted
      <4>1. /\ last' = last /\ consumed' = consumed
            /\ chkToken' = chkToken /\ chkSeq' = chkSeq
        BY <1>1, <2>2, Zenon DEF RecordFailedAttestation, InsertRow, Verify
      <4>2. QED
        BY <4>1, GrantedSame, Zenon
    <3>4. QED
      BY <3>2, <3>3, Zenon DEF Guard!End, AbsState, AbsGranted
  <2>3. QED
    BY <1>1, <2>1, <2>2, Zenon DEF Verify
<1>2. ASSUME NEW a \in Calls, CreateTrustSession(a) PROVE Guard!Open(a)
  <2>1. status' = [status EXCEPT ![a] = "active"] /\ status[a] = "none"
    BY <1>2, Zenon DEF CreateTrustSession, InsertRow, NonceInv, AttAnswers
  <2>2. AbsState' = [AbsState EXCEPT ![a] = "open"] /\ AbsState[a] = "closed"
    BY <2>1, Zenon DEF AbsState
  <2>3. last' = last /\ AbsGranted' = AbsGranted
    <3>1. /\ last' = last /\ consumed' = consumed
          /\ chkToken' = chkToken /\ chkSeq' = chkSeq
      BY <1>2, Zenon DEF CreateTrustSession, InsertRow
    <3>2. QED
      BY <3>1, GrantedSame, Zenon
  <2>4. QED
    BY <2>2, <2>3, Zenon DEF Guard!Open, AbsState, AbsGranted
<1>3. ASSUME NEW t \in Calls, RevokeTrustSession(t) PROVE AbsStutter \/ Guard!End(t)
  <2>1. last' = last /\ AbsGranted' = AbsGranted
    <3>1. /\ last' = last /\ consumed' = consumed
          /\ chkToken' = chkToken /\ chkSeq' = chkSeq
      BY <1>3, Zenon DEF RevokeTrustSession
    <3>2. QED
      BY <3>1, GrantedSame, Zenon
  <2>2. CASE status[t] = "failed"
    <3>1. AbsState' = AbsState
      BY <1>3, <2>2, Zenon DEF RevokeTrustSession, AbsState
    <3>2. QED
      BY <2>1, <3>1, Zenon DEF AbsStutter
  <2>3. CASE status[t] = "active"
    <3>1. AbsState' = [AbsState EXCEPT ![t] = "ended"] /\ AbsState[t] # "ended"
      BY <1>3, <2>3, Zenon DEF RevokeTrustSession, AbsState
    <3>2. QED
      BY <2>1, <3>1, Zenon DEF Guard!End, AbsState, AbsGranted
  <2>4. QED
    BY <1>3, <2>2, <2>3, Zenon DEF RevokeTrustSession
<1>4. ASSUME NEW c \in Checks, ConsumeSequence(c)
      PROVE  AbsStutter \/ \E t \in Calls : \E s \in Seqs : Guard!Spend(t, s)
  <2>1. PICK tok \in Calls, num \in Seqs : tok = chkToken[c] /\ num = chkSeq[c]
    BY <1>4, Zenon DEF ConsumeSequence, RowInv, ChkInv
  <2>2. CASE ~Advances(tok, num)
    BY <1>4, <2>1, <2>2, Invisible, Zenon DEF ConsumeSequence
  <2>3. CASE Advances(tok, num)
    <3>1. status[tok] = "active" /\ num > last[tok]
      BY <2>3, Zenon DEF Advances
    <3>2. AbsState[tok] = "open" /\ AbsState' = AbsState
      BY <1>4, <2>1, <3>1, Zenon DEF ConsumeSequence, AbsState
    <3>3. last' = [last EXCEPT ![tok] = num]
      BY <1>4, <2>1, <2>3, Zenon DEF ConsumeSequence
    <3>4. AbsGranted' \in {AbsGranted, AbsGranted \cup {<<tok, num>>}}
      <4>1. chkToken' = chkToken /\ chkSeq' = chkSeq
        BY <1>4, Zenon DEF ConsumeSequence
      <4>2. CASE consumed' = consumed
        BY <4>1, <4>2, Zenon DEF AbsGranted
      <4>3. CASE consumed' = [consumed EXCEPT ![c] = TRUE]
        BY <2>1, <4>1, <4>3, GrantedGrows, Zenon
      <4>4. QED
        BY <1>4, <2>1, <2>3, <4>2, <4>3, Zenon DEF ConsumeSequence
    <3>5. Guard!Spend(tok, num)
      BY <3>1, <3>2, <3>3, <3>4, Zenon DEF Guard!Spend, AbsState, AbsGranted
    <3>6. QED
      BY <2>1, <3>5, Zenon
  <2>4. QED
    BY <2>2, <2>3, Zenon
<1>5. ASSUME NEW c \in Checks, NEW t \in Calls, NEW s \in Seqs, NEW g \in BOOLEAN,
             ValidateRequestProof(c, t, s, g) PROVE AbsStutter
  <2>1. ~consumed[c] /\ status' = status /\ last' = last /\ consumed' = consumed
    BY <1>5, Zenon DEF ValidateRequestProof, RowInv, ChkInv
  <2>2. \A d \in Checks : consumed[d] => chkToken'[d] = chkToken[d] /\ chkSeq'[d] = chkSeq[d]
    BY <1>5, <2>1, Zenon DEF ValidateRequestProof
  <2>3. AbsGranted' = AbsGranted
    BY <2>1, <2>2, Zenon DEF AbsGranted
  <2>4. QED
    BY <2>1, <2>3, Zenon DEF AbsStutter, AbsState
<1>6. ASSUME NEW a \in Calls,
             \/ ConsumeNonce(a) \/ GetApp(a) \/ ScoreRisk(a) \/ GetActiveSigningKey(a)
             \/ CreateSigningKey(a) \/ AbortAttestation(a)
      PROVE  AbsStutter
  BY <1>6, Invisible, Zenon DEF ConsumeNonce, GetApp, ScoreRisk, GetActiveSigningKey,
                         CreateSigningKey, AbortAttestation
<1>7. ASSUME NEW c \in Checks, GetTrustSession(c) \/ Decide(c) \/ AbortProof(c)
      PROVE  AbsStutter
  BY <1>7, Invisible, Zenon DEF GetTrustSession, Decide, AbortProof
<1>8. ASSUME \/ \E app \in Apps : CreateApp(app)
             \/ \E p \in Policies : ActivatePolicy(p)
             \/ \E n \in Nonces : ExpireNonce(n)
             \/ Tick
             \/ \E n \in Nonces, app \in Apps : GetNonce(n, app)
             \/ \E a \in Calls, n \in Nonces, app \in Apps, r \in Reports :
                   VerifyAttestation(a, n, app, r)
             \/ UNCHANGED vars
      PROVE  AbsStutter
  BY <1>8, Invisible, Zenon DEF CreateApp, ActivatePolicy, ExpireNonce, Tick, GetNonce,
                         VerifyAttestation, vars
<1> DEFINE Goal == \/ AbsStutter
                   \/ \E t \in Calls : \/ Guard!Open(t) \/ Guard!End(t)
                                       \/ \E s \in Seqs : Guard!Spend(t, s)
<1>9. ASSUME NEW a \in Calls, AttestationStep(a) \/ AbortAttestation(a) PROVE Goal
  BY <1>1, <1>2, <1>6, <1>9, Zenon DEF AttestationStep
<1>10. ASSUME NEW c \in Checks, ProofStep(c) \/ AbortProof(c) PROVE Goal
  BY <1>4, <1>7, <1>10, Zenon DEF ProofStep
<1>11. ASSUME NEW t \in Calls, RevokeTrustSession(t) PROVE Goal
  BY <1>3, <1>11, Zenon
<1> HIDE DEF Goal
<1>12. Goal
  BY <1>5, <1>8, <1>9, <1>10, <1>11, Zenon DEF Next, Goal
<1>13. QED
  BY <1>12, Zenon DEF Goal

\* The trust service implements ReplayGuard for every number of calls, checks
\* and sequences.
THEOREM Refinement == Spec => RefinesReplayGuard
<1>1. Init => Guard!GuardInit
  <2> SUFFICES ASSUME Init PROVE Guard!GuardInit
    BY Zenon
  <2>1. AbsGranted = {} /\ AbsState = [t \in Calls |-> "closed"]
    BY Zenon DEF Init, AbsGranted, AbsState
  <2>2. QED
    BY <2>1, Zenon DEF Init, Guard!GuardInit, AbsGranted, AbsState
<1>2. IndInv /\ [Next]_vars => [Guard!GuardNext]_(Guard!guardVars)
  <2> SUFFICES ASSUME IndInv, [Next]_vars PROVE [Guard!GuardNext]_(Guard!guardVars)
    BY Zenon
  <2>1. CASE AbsStutter
    BY <2>1, Zenon DEF AbsStutter, Guard!guardVars, AbsState, AbsGranted
  <2>2. CASE \E t \in Calls : \/ Guard!Open(t) \/ Guard!End(t)
                             \/ \E s \in Seqs : Guard!Spend(t, s)
    BY <2>2, Zenon DEF Guard!GuardNext
  <2>3. QED
    BY <2>1, <2>2, GuardStep, Zenon
<1>3. QED
  BY Invariance, <1>1, <1>2, PTL DEF Spec, RefinesReplayGuard, Guard!GuardSpec
=============================================================================
