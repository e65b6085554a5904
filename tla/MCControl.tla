------------------------------ MODULE MCControl ------------------------------
(***************************************************************************)
(* Small instances of the control plane: its concurrent transactions       *)
(* statement by statement (ControlTx), and, call by call, the registry,    *)
(* the compliance service and the SIEM connectors over both their stores.  *)
(* component says which of them a behaviour exercises.                     *)
(***************************************************************************)
EXTENDS ControlTx

CONSTANTS NoId, Kinds

VARIABLES component,
          rpg, rmem, rnext, rlast, rfocus,
          cpg, cmem, ckeys, cnow, clast, cwalk, cfocus,
          spg, smem, snext, slast

rvars == <<rpg, rmem, rnext, rlast, rfocus>>
cvars == <<cpg, cmem, ckeys, cnow, clast, cwalk, cfocus>>
svars == <<spg, smem, snext, slast>>
mcVars == <<component, vars, rvars, cvars, svars>>

\* Calls per behaviour: enough to fill a page, replace and re-create in each
\* group, one more where a key or a policy is superseded twice.
RegistryCalls == [tenants |-> 3, apps |-> 3, policies |-> 4, keys |-> 4, hooks |-> 3, sessions |-> 4]
ComplianceCalls == [records |-> 3, switches |-> 3, canaries |-> 3]

R == INSTANCE Registry WITH pg <- rpg, mem <- rmem, next <- rnext, last <- rlast, focus <- rfocus,
                            DefaultPage <- 2, MaxPage <- 3, Atoms <- {"x", "y"}, MaxSeq <- 2, MaxCalls <- RegistryCalls
C == INSTANCE Compliance WITH pg <- cpg, mem <- cmem, keys <- ckeys, now <- cnow, last <- clast, walk <- cwalk,
                              focus <- cfocus, DefaultPage <- 2, MaxPage <- 3, DefaultThreshold <- 5,
                              Tenants <- {1, 2}, Apps <- {"a"}, Builds <- {"b"}, Policies <- {"q"},
                              MaxCalls <- ComplianceCalls
S == INSTANCE SiemConnectors WITH pg <- spg, mem <- smem, next <- snext, last <- slast, Tenants <- {1, 2},
                                  MaxCalls <- 3,
                                  AllowLists <- {{}, {"risk_bits"}, {"device_id"}}

MCInit ==
    /\ Init /\ R!Init /\ C!Init /\ S!Init
    /\ component \in {"tx", "registry", "compliance", "siem"}
    /\ component # "registry" => rfocus = "apps"
    /\ component # "compliance" => cfocus = "records"

\* While a call about another scope than the first runs, no third one begins.
AtMostTwo == \A t \in Txs : op'[t].scope \in {None, CHOOSE s \in Scopes : TRUE} \/ next' <= 5

MCNext ==
    /\ UNCHANGED component
    /\ \/ component = "tx" /\ Next /\ AtMostTwo /\ UNCHANGED <<rvars, cvars, svars>>
       \/ component = "registry" /\ R!Next /\ UNCHANGED <<vars, cvars, svars>>
       \/ component = "compliance" /\ C!Next /\ UNCHANGED <<vars, rvars, svars>>
       \/ component = "siem" /\ S!Next /\ UNCHANGED <<vars, rvars, cvars>>

\* The fairness of ControlTx, in the behaviours it moves in.
MCFairness ==
    \A t \in Txs : WF_vars(component = "tx" /\ Statement(t) /\ UNCHANGED <<component, rvars, cvars, svars>>)

MCSpec == MCInit /\ [][MCNext]_mcVars /\ MCFairness

-----------------------------------------------------------------------------
\* Whichever store is configured, the registry, the compliance service and the
\* SIEM connectors answer alike and read alike, page by page, but for the
\* differences that Registry and Compliance name: builds of an app that does not
\* exist, the rollout of no app, the observations a new rollout inherits, and a
\* range of the trail that ends before the epoch.
StoresAgree ==
    /\ component = "registry" => R!CallsAgree /\ R!ReadsAgree
    /\ component = "compliance" => C!CallsAgree /\ C!ReadsAgree
    /\ component = "siem" => S!ConnectorStoresAgree

\* The trail verifies, of what tampering makes of it only its beginnings do, and
\* paging through it while it grows skips and repeats nothing (VerifyAuditChain, ListAuditEvents).
TrailReadable == component = "compliance" => C!TamperEvident /\ C!WalkComplete

\* The switch in effect is the most specific one (EffectiveKillSwitch).
MostSpecificWins == component = "compliance" => C!MostSpecificWins

\* An accepted connector can be rendered for unless its kind has no name, and a
\* row holds only what the connector lists (validateInput, allowSet).
ExportSound == component = "siem" => S!RegisteredRenders /\ S!ExportWithinAllowList
=============================================================================
