SPECIFICATION FairSpec
CONSTANTS
    Scripts = {s1, s2}
    s1 = s1
    s2 = s2
    None = None
    NChunks = 2
    Modes = {{"gc"}, {"main", "swallow", "gc", "hasty"}}
INVARIANTS
    PatientRunsWhole
    OnlyStopInterrupts
    OneScriptText
PROPERTIES
    AcceptedStarts
    PatientStops
CHECK_DEADLOCK FALSE
