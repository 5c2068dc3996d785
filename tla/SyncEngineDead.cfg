\* a process that dies between a commit and its mirror write
CONSTANTS
    m1 = m1
    m2 = m2
    p1 = p1
    p2 = p2
    a = a
    b = b
    Absent = Absent
    Torn = Torn
    Mount <- MCMount
    Path <- MCPath
    MountOf <- MCMountOf
    Content <- MCContent
    Imported <- MCNothing
    MaxCalls = 2
    MaxEdits = 0
    MaxFaults = 1
SPECIFICATION Spec
PROPERTY DeadProcessLosesNoWrite
