SPECIFICATION FairSpec
CONSTANTS
    banner = banner
    panel = panel
    table = table
    summary = summary
    None = None
    Component <- MCComponent
    Query <- MCQuery
    ChannelOf <- MCChannelOf
    QueryOf <- MCQueryOf
    Seeded <- MCSeeded
    MaxUpdates = 1
    MaxFailures = 1
INVARIANTS
    TypeOK
    StatusTellsTruth
    ToldIsShownOrMarked
PROPERTIES
    ViewsSettle
CHECK_DEADLOCK FALSE
