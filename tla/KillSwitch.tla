----------------------------- MODULE KillSwitch -----------------------------
(***************************************************************************)
(* Signed kill switches: what is signed, which switch is in effect for an  *)
(* app and a build, and the audit entry of an issue.  An Ed25519 signature *)
(* is the key and the preimage it was made over.                           *)
(***************************************************************************)
EXTENDS Integers, FiniteSets

CONSTANTS NoId, None

\* Every field but the signature and the key id.
killSwitchPreimage(ks) == <<ks.tenant, ks.app, ks.build, ks.command, ks.version, ks.at>>

signKillSwitch(key, ks) == [ks EXCEPT !.sig = [by |-> key, over |-> killSwitchPreimage(ks)]]

VerifyKillSwitch(pub, ks) == ks.sig = [by |-> pub, over |-> killSwitchPreimage(ks)]

\* An unsigned command, and the same signed with the tenant's key.
NewKillSwitch(tenant, app, build, command, version, at, key) ==
    signKillSwitch(key, [tenant |-> tenant, app |-> app, build |-> build, command |-> command,
                         version |-> version, at |-> at, key |-> key, sig |-> None])

\* The empty app or build is a wildcard.
matches(ks, app, build) == ks.app \in {NoId, app} /\ ks.build \in {NoId, build}

\* Mutant: the build weighs more than the app.
specificityOfBuild(ks) == (IF ks.app # NoId THEN 1 ELSE 0) + (IF ks.build # NoId THEN 2 ELSE 0)

specificity(ks) == (IF ks.app # NoId THEN 2 ELSE 0) + (IF ks.build # NoId THEN 1 ELSE 0)

\* The first of the highest rank, in the order ListKillSwitches returns: a
\* scope has one switch, so at most one has any rank.
resolveEffective(switches, app, build) ==
    LET found == {ks \in switches : matches(ks, app, build)} IN
    IF found = {} THEN None
    ELSE CHOOSE ks \in found : \A other \in found : specificity(other) <= specificity(ks)

GetKillSwitchState(switches, app, build) ==
    LET active == resolveEffective(switches, app, build) IN
    [command |-> IF active = None THEN "enable" ELSE active.command, active |-> active]

\* The parts of "tenant", "app" or "app/build".
killSwitchResourceID(app, build) ==
    IF build # NoId THEN <<app, build>> ELSE IF app = NoId THEN <<"tenant">> ELSE <<app>>

killSwitchEntry(app, build, command, version, actor) ==
    [action |-> "killswitch.issue", resource |-> killSwitchResourceID(app, build), actor |-> actor,
     meta |-> <<command, version>>]
=============================================================================
