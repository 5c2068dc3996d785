\* one file: tool writes, commands, captures, reconciles, torn files and crashes
CONSTANTS
    m1 = m1
    m2 = m2
    p1 = p1
    p2 = p2
    a = a
    b = b
    Absent = Absent
    Torn = Torn
    Mount <- MCMount
    Path <- MCPath
    MountOf <- MCMountOf
    Content <- MCContent
    Imported <- MCFile
    MaxCalls = 3
    MaxEdits = 2
    MaxFaults = 2
SPECIFICATION Spec
INVARIANTS TypeOK WorkIsListed
PROPERTIES DurableWritesSurvive   ReconcileConverges
