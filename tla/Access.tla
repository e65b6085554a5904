------------------------------- MODULE Access -------------------------------
(***************************************************************************)
(* Who may call what: scopes and principals, the authorization table of    *)
(* the Connect procedures, the authn interceptor and the tenant guard.     *)
(* Pure operators; a refusal is the code that the interceptor answers.     *)
(***************************************************************************)
EXTENDS Integers, Sequences, FiniteSets

CONSTANTS NoId, Nil

\* A scope is <<area, verb>>; <<"platform", "tenant:read">> and its like are
\* the platform's; <<area, "*">> and <<"*">> are wildcards.
Wildcard(s, scope) ==
    \/ Len(s) = 2 /\ s[2] = "*" /\ s[1] = scope[1] /\ scope[1] # "platform"
    \/ s = <<"*">> /\ scope[1] # "platform"

HasScope(p, scope) == \E s \in p.scopes :
    \/ s = scope
    \/ Wildcard(s, scope)
    \/ p.admin /\ s = <<"platform", "*">> /\ scope[1] = "platform"

\* A tenant's key and the principal that validating it yields.
Principal(tenant, scopes, admin) == [tenant |-> tenant, scopes |-> scopes, admin |-> admin]

\* The rows of the table, one per kind of procedure.
Keyed(area, verb) == [auth |-> TRUE, tenant |-> TRUE, admin |-> FALSE, scopes |-> {<<area, verb>>},
                      device |-> "none", failClosed |-> FALSE]
PlatformOnly(verb) == [Keyed("platform", verb) EXCEPT !.tenant = FALSE, !.admin = TRUE]
Device(credential) == [Keyed("", "") EXCEPT !.auth = FALSE, !.scopes = {}, !.device = credential]

\* The procedures that a tenant's key may call, by the scope they need.
Scoped ==
    [registry   |-> [read  |-> {"GetTenant", "GetApp", "ListApps", "SearchApps", "GetBuild", "ListBuilds"},
                     write |-> {"UpdateTenant", "CreateApp", "CreateBuild"}],
     policy     |-> [read  |-> {"GetActivePolicy", "ListPolicies", "ListProtectionProfiles", "GetPolicy"},
                     write |-> {"CreatePolicy", "ActivatePolicy", "CreateProtectionProfile"}],
     trust      |-> [read  |-> {}, write |-> {"GetNonce", "VerifyAttestation"}],
     webhook    |-> [read  |-> {"ListWebhooks"}, write |-> {"RegisterWebhook", "DeleteWebhook"}],
     query      |-> [read  |-> {"ListEvents", "GetTenantOverview", "GetTrustSessionStats"}, write |-> {}],
     siem       |-> [read  |-> {"ListConnectors"}, write |-> {"RegisterConnector", "DeleteConnector"}],
     compliance |-> [read  |-> {"ListAuditEvents", "VerifyAuditChain", "GetDataProcessingRegistry",
                                "GetKillSwitchState", "ListKillSwitches", "GetCanaryStatus"},
                     write |-> {"PutDataProcessingRecord", "IssueKillSwitch", "SetCanaryRollout",
                                "PromoteCanary", "RollbackCanary"}]]

Elsewhere ==
    [CreateTenant         |-> PlatformOnly("tenant:write"),
     ListTenants          |-> PlatformOnly("tenant:read"),
     ValidateRequestProof |-> [Device("trust_token") EXCEPT !.failClosed = TRUE],
     GetConfig            |-> Device("app_secret"),
     SubmitTelemetry      |-> Device("trust_token")]

Procedures == DOMAIN Elsewhere \cup UNION {Scoped[area].read \cup Scoped[area].write : area \in DOMAIN Scoped}

ProcedurePolicies ==
    [p \in Procedures |->
        IF p \in DOMAIN Elsewhere THEN Elsewhere[p]
        ELSE LET area == CHOOSE area \in DOMAIN Scoped : p \in Scoped[area].read \cup Scoped[area].write
             IN  [Keyed(area, IF p \in Scoped[area].read THEN "read" ELSE "write") EXCEPT !.failClosed = (area = "trust")]]

\* An unlisted procedure is refused.
policyFor(procedure) == IF procedure \in Procedures THEN ProcedurePolicies[procedure] ELSE Nil

\* The tenant that the context carries: the validated key's, or the body's
\* for a public pre-attestation procedure.
TenantOf(principal, policy, body) ==
    IF principal # Nil THEN principal.tenant
    ELSE IF policy.device = "public_nonce" THEN body ELSE NoId

\* key is what was presented, principal what validating it gave (None when it
\* was refused), body the tenant that the request names.
authn(procedure, key, principal, body) ==
    LET policy == policyFor(procedure)
        tenant == TenantOf(principal, policy, body)
    IN  IF policy = Nil THEN "permission_denied"
        ELSE IF key # NoId /\ principal = Nil THEN "unauthenticated"
        ELSE IF key = NoId /\ policy.auth THEN "unauthenticated"
        ELSE IF principal # Nil /\ (\/ policy.admin /\ ~principal.admin
                                    \/ \E s \in policy.scopes : ~HasScope(principal, s)) THEN "permission_denied"
        ELSE IF principal = Nil /\ (policy.scopes # {} \/ policy.admin) THEN "unauthenticated"
        ELSE IF ~policy.tenant THEN "ok"
        ELSE IF tenant = NoId THEN "unauthenticated"
        ELSE IF body # NoId /\ body # tenant THEN "permission_denied"
        ELSE IF ~policy.auth /\ policy.device # "public_nonce" /\ principal = Nil THEN "unauthenticated"
        ELSE "ok"

\* The guard of the handlers themselves.
EnforceTenant(principal, row) == principal # Nil /\ principal.tenant # NoId /\ row \in {NoId, principal.tenant}
=============================================================================
