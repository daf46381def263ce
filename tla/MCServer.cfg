SPECIFICATION Spec
CONSTANTS
    h1 = h1
    h2 = h2
    local = local
    Port = {0, 80, 81}
    Ephemeral = 5000
    Host = {h1, h2}
    LocalAddress = local
    MaxReports = 3
    None = None
CHECK_DEADLOCK FALSE
INVARIANTS
    TypeOK
    UrlIsServed
    MappedPortIsServed
    LastReportIsPublished
