----------------------------- MODULE Attestation -----------------------------
(***************************************************************************)
(* Platform attestation (server/data-plane/attestation): the dispatching   *)
(* verifier, Play Integrity verdicts checked against Google's published    *)
(* keys, App Attest objects checked against Apple's root, and the cached   *)
(* key source (sources.go) that concurrent verifications share.            *)
(*                                                                         *)
(* A signature verifies under the key its token names; a hash equals       *)
(* another iff the hashed values do.                                       *)
(***************************************************************************)
EXTENDS Naturals, FiniteSets

CONSTANTS
    Absent,
    Kids,           \* key ids of the provider, usable here or not
    FirstKid,       \* the one it serves at the start
    Usable,         \* those whose kty, curve and numbers this server reads
    Tokens,         \* what devices present: [platform, ...], see below
    Verifications,  \* numbered verifications in flight
    KeyTTL,         \* how long a fetched key set is fresh
    Timeout,        \* the longest a fetch takes
    MaxClock, MaxVerifications, MaxRotations, MaxFailures  \* bounds

\* What the constants stand for; a hypothesis of the theorems.
AttestConstantsOK ==
    /\ FirstKid \in Kids /\ KeyTTL \in Nat /\ Timeout \in Nat
    /\ Absent \notin Nat /\ Absent \notin {"accepted", "rejected", "other"}

VARIABLES
    published,        \* the key ids the provider serves now
    since, until,     \* since[k], until[k]: when k was last added and removed
    keys, fetchedAt,  \* the cache
    verification,     \* the state of each verification
    clock, verified, rotations, fetchFaults

attestVars == <<published, since, until, keys, fetchedAt, verification, clock, verified, rotations, fetchFaults>>

NoVerification == [stage |-> "idle", token |-> Absent, stale |-> FALSE, doc |-> {}, sent |-> 0,
                   began |-> 0, answer |-> Absent, bits |-> {}, failed |-> FALSE]

AttestInit ==
    /\ published = {FirstKid}
    /\ since = [k \in Kids |-> 0] /\ until = [k \in Kids |-> 0]
    /\ keys = {} /\ fetchedAt = Absent
    /\ verification = [c \in Verifications |-> NoVerification]
    /\ clock = KeyTTL + Timeout + 1 /\ verified = 0 /\ rotations = 0 /\ fetchFaults = 0

----------------------------------------------------------------------------
(* What a verified token is worth.                                         *)

rejected == [answer |-> "rejected", bits |-> {"AttestationFail"}]

AppBits(verdict) ==
    CASE verdict = "PLAY_RECOGNIZED" -> {}
      [] verdict = "UNRECOGNIZED_VERSION" -> {"AppTamper", "AppUnrecognized"}
      [] OTHER -> {"AppUnrecognized"}

\* The strongest label counts; a virtual device adds its own bit.
DeviceBits(labels) ==
    (IF {"MEETS_STRONG_INTEGRITY", "MEETS_DEVICE_INTEGRITY"} \cap labels # {} THEN {}
     ELSE IF "MEETS_BASIC_INTEGRITY" \in labels THEN {"DeviceIntegrity"}
     ELSE {"DeviceIntegrity", "RootJailbreak"})
    \cup (IF "MEETS_VIRTUAL_INTEGRITY" \in labels THEN {"Emulator"} ELSE {})

AccountBits(verdict) == IF verdict = "UNLICENSED" THEN {"AccountRisk"} ELSE {}

\* A nonce in any base64 alphabet is compared decoded; an absent one is
\* refused.  A verdict that names no package is not bound to one.
checkNonce(tok) == tok.nonce = "issued"

PlayVerify(tok, key) ==
    IF ~(key = tok.kid /\ checkNonce(tok) /\ tok.app \in {Absent, "expected"})
    THEN rejected
    ELSE [answer |-> "accepted", bits |-> AppBits(tok.recognition)
             \cup DeviceBits(tok.device) \cup AccountBits(tok.licensing)]

\* The object decodes, its chain ends in the root pool, the certificate's
\* nonce extension is the hash of the authenticator data and the challenge,
\* and the data names this app, an App Attest environment and the key.
AppAttestVerify(tok) ==
    IF /\ tok.decodes /\ tok.root = "apple" /\ tok.nonce = "issued"
       /\ tok.authData = "attested" /\ tok.app = "expected"
       /\ tok.aaguid \in {"appattest", "appattestdevelop"}
       /\ tok.credential = tok.key
    THEN [answer |-> "accepted", bits |-> {}] ELSE rejected

----------------------------------------------------------------------------
(* The provider rotates its keys.                                          *)

Rotate(added, dropped) ==
    /\ rotations < MaxRotations
    /\ added \notin published /\ dropped \in published \cup {Absent}
    /\ published' = (published \cup {added}) \ {dropped}
    /\ since' = [since EXCEPT ![added] = clock]
    /\ until' = [k \in Kids |-> IF k = dropped THEN clock ELSE until[k]]
    /\ rotations' = rotations + 1
    /\ UNCHANGED <<keys, fetchedAt, verification, clock, verified, fetchFaults>>

----------------------------------------------------------------------------
(* A verification.                                                         *)

Returns(c, r) ==
    verification' = [verification EXCEPT ![c] = [@ EXCEPT !.stage = "done", !.answer = r.answer,
                !.bits = r.bits, !.doc = {}, !.stale = FALSE, !.sent = 0]]

Verify(c, tok) ==
    /\ verification[c].stage \in {"idle", "done"}
    /\ \A d \in Verifications : d < c => verification[d].stage \notin {"idle", "done"}
    /\ verified < MaxVerifications /\ verified' = verified + 1
    /\ LET o == [NoVerification EXCEPT !.token = tok, !.began = clock]
           Done(r) == [o EXCEPT !.stage = "done", !.answer = r.answer, !.bits = r.bits]
       IN  verification' = [verification EXCEPT ![c] =
             CASE tok.platform = "ios" -> Done(AppAttestVerify(tok))
               [] tok.platform = "android" -> [o EXCEPT !.stage = "lookup"]
               [] OTHER -> Done([answer |-> "unsupported", bits |-> {}])]
    /\ UNCHANGED <<published, since, until, keys, fetchedAt, clock, rotations, fetchFaults>>

\* Mutant: a key found in the cache is used however old the cache is.
freshAlways == fetchedAt # Absent

fresh == IF fetchedAt = Absent THEN FALSE ELSE clock - fetchedAt < KeyTTL

\* A cached key is used while fresh; else the document is fetched.  stale
\* remembers that there is an old key to fall back on.
PublicKey(c) ==
    LET tok == verification[c].token
    IN  /\ verification[c].stage = "lookup"
        /\ IF tok.kid \in keys /\ fresh THEN Returns(c, PlayVerify(tok, tok.kid))
           ELSE verification' = [verification EXCEPT ![c].stage = "fetch", ![c].stale = tok.kid \in keys]
        /\ UNCHANGED <<published, since, until, keys, fetchedAt, clock, verified, rotations, fetchFaults>>

\* The provider answers with what it publishes at this moment, or fails.
Fetch(c) ==
    LET tok == verification[c].token
    IN  /\ verification[c].stage = "fetch"
        /\ \/ /\ verification' = [verification EXCEPT ![c].stage = "store", ![c].doc = published, ![c].sent = clock]
              /\ UNCHANGED fetchFaults
           \/ /\ fetchFaults < MaxFailures /\ fetchFaults' = fetchFaults + 1
              /\ verification' = [verification EXCEPT ![c] =
                    [@ EXCEPT !.stage = "done", !.stale = FALSE, !.failed = TRUE,
                        !.answer = IF verification[c].stale THEN PlayVerify(tok, tok.kid).answer
                                   ELSE "rejected",
                        !.bits = IF verification[c].stale THEN PlayVerify(tok, tok.kid).bits
                                 ELSE rejected.bits]]
        /\ UNCHANGED <<published, since, until, keys, fetchedAt, clock, verified, rotations>>

\* Keys of a kind this server does not read are skipped.
refresh(doc) == doc \cap Usable

Store(c) ==
    /\ verification[c].stage = "store"
    /\ keys' = refresh(verification[c].doc) /\ fetchedAt' = clock
    /\ verification' = [verification EXCEPT ![c].stage = "find", ![c].doc = {}, ![c].sent = 0]
    /\ UNCHANGED <<published, since, until, clock, verified, rotations, fetchFaults>>

\* The cache is read again: another call may have replaced it meanwhile.
Find(c) ==
    LET tok == verification[c].token
    IN  /\ verification[c].stage = "find"
        /\ Returns(c, IF tok.kid \in keys THEN PlayVerify(tok, tok.kid) ELSE rejected)
        /\ UNCHANGED <<published, since, until, keys, fetchedAt, clock, verified, rotations, fetchFaults>>

\* The client gives a fetch up after Timeout.
ClockTick ==
    /\ clock < MaxClock
    /\ \A c \in Verifications : verification[c].stage = "store" => clock - verification[c].sent < Timeout
    /\ clock' = clock + 1
    /\ UNCHANGED <<published, since, until, keys, fetchedAt, verification, verified, rotations, fetchFaults>>

AttestNext ==
    \/ \E added \in Kids, dropped \in Kids \cup {Absent} : Rotate(added, dropped)
    \/ \E c \in Verifications :
        \/ \E tok \in Tokens : Verify(c, tok)
        \/ PublicKey(c) \/ Fetch(c) \/ Store(c) \/ Find(c)
    \/ ClockTick

AttestSpec == AttestInit /\ [][AttestNext]_attestVars

----------------------------------------------------------------------------
(* Properties.                                                             *)

\* A retired key stops counting (sources.go:55): a verdict accepted without a
\* failed fetch is signed by a key the provider still published no longer ago
\* than the cache may be old plus one fetch, also when a slow fetch stores an
\* older document over a newer one.
RetiredKeyShut ==
    \A c \in Verifications :
        LET o == verification[c]
        IN  o.answer = "accepted" /\ o.token.platform = "android" /\ ~o.failed
            => \/ o.token.kid \in published
               \/ until[o.token.kid] + KeyTTL + Timeout >= o.began

\* A key that has stood for a fetch's length is always found (sources.go:55):
\* a well-bound verdict under a readable key published since then is rejected
\* only for a failed fetch, whatever other calls store in between.
EstablishedKeyVerifies ==
    \A c \in Verifications :
        LET o == verification[c]
        IN  /\ o.stage = "done" /\ o.token.platform = "android" /\ ~o.failed
            /\ o.token.kid \in published \cap Usable
            /\ since[o.token.kid] + Timeout < o.began
            /\ o.token.nonce = "issued" /\ o.token.app = "expected"
            => o.answer = "accepted"

\* An accepted attestation is this request's (play_integrity.go:52,
\* app_attest.go:92): it carries the issued nonce, names no other app, and a
\* rejected one always carries the attestation risk bit into the fused score.
BoundToRequest ==
    \A c \in Verifications :
        LET o == verification[c]
        IN  /\ o.answer = "accepted" => o.token.nonce = "issued" /\ o.token.app # "other"
            /\ o.answer = "rejected" => o.bits = {"AttestationFail"}

\* A retired key stops counting, one that stands is found, and what is accepted
\* is this request's (HTTPJWKSKeySource.PublicKey, Verify).
AttestationSound == RetiredKeyShut /\ EstablishedKeyVerifies /\ BoundToRequest
=============================================================================
