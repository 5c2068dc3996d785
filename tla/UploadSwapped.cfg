CONSTANTS
    u = u
    v = v
    x = x
    y = y
    s = s
    Missing = Missing
    Call <- MCCall
    Large <- MCLarge
    Small <- MCSmall
    MaxFaults = 0
SPECIFICATION Spec
INVARIANT CasHoldsItsSha
SYMMETRY MCSymmetry
