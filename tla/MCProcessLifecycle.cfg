SPECIFICATION Spec
CONSTANTS
    a1 = a1
    a2 = a2
    g1 = g1
    Admin = {a1, a2}
    Gateway = {g1}
    Files <- MCFiles
    Required = 2
    Fleets <- MCFleets
    MaxSignals = 2
    MaxFaults = 1
INVARIANTS
    TypeOK
    SchemaInOrder
    NeverConflicts
    ReadyOnSchema
    CleanExitCutsNothing
    StoppedIsNotReady
PROPERTIES
    ProcessesStop
    AllServe
