SPECIFICATION FairSpec
CONSTANTS
    Urls = {c, p}
    CommonUrls = {c, p}
    SpecificUrls = {p}
    Statuses = {"none", "enabled", "disabled"}
    Servers = {telegram, discord}
    SyncCanFail = TRUE
    None = None
INVARIANTS
    NotifiedHaveStatements
    StoredWereMonitored
PROPERTIES
    ReportNotReplaced
    DeletedForgotten
    ReportingIsGathered
