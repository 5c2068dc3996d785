CONSTANTS
    u = u
    v = v
    x = x
    y = y
    s = s
    Missing = Missing
    Call <- MCCall
    Large <- MCLarge
    Small <- MCSmall
    MaxFaults = 3
SPECIFICATION Spec
INVARIANTS TypeOK CasHoldsVerified RowsHaveObjects NoStrayQuarantine
SYMMETRY MCSymmetry
