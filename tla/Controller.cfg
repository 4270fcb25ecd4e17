SPECIFICATION FairSpec
CONSTANTS
    Configs <- AllConfigs
INVARIANTS
    ReportIsTrue
    EvictedStaysSilent
PROPERTIES
    EndsFromLoop
    SourceEndEndsRun
