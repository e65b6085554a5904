CONSTANTS
    None = None
    NoId = NoId
    Txs = {t1, t2}
    Scopes = {sa, sb}
    MaxCalls = 3
    Kinds = {"unspecified", "splunk_hec", "sentinel", "elastic", "unnamed"}
SPECIFICATION MCSpec
INVARIANTS ChainUnbroken TrailTellsState StoresAgree TrailReadable MostSpecificWins ExportSound
PROPERTIES InForceHistory EveryTxEnds
CHECK_DEADLOCK FALSE
