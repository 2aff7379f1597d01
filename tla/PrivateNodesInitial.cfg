SPECIFICATION Spec
CONSTANTS
    Urls = {c, p}
    CommonUrls = {c}
    SpecificUrls = {p}
    Statuses = {"none"}
    Servers = {telegram}
    SyncCanFail = FALSE
    None = None
INVARIANTS
    MonitoredHasState
