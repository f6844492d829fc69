SPECIFICATION Spec
CONSTANTS
    MaxVersion = 4
    MaxFaults = 2
    MaxRestarts = 2
    CrashKinds = {"power", "process"}
    Inspecting = TRUE
CHECK_DEADLOCK FALSE
INVARIANT AckedManifestSurvives
INVARIANT InspectorNotStale
