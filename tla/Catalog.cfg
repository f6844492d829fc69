SPECIFICATION Spec
CONSTANTS
    Labels = {A, B}
    Profiles <- MCProfiles
    MaxGen = 3
INVARIANT LabelsKeepMeaning
INVARIANT SchemaHolds
INVARIANT ValidationExact
CHECK_DEADLOCK FALSE
