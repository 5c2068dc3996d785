\* two clients race on one branch
CONSTANTS
    c1 = c1
    c2 = c2
    mount = mount
    b1 = b1
    b2 = b2
    t1 = t1
    dir = dir
    file = file
    x = x
    y = y
    None = None
    AnySha = AnySha
    Client <- Clients
    Mount = mount
    Branch = {b1}
    Tag = {t1}
    Path <- TwoPaths
    Inside <- BelowDir
    Content = {x, y}
    Requests <- Racing
    MaxAttempts = 2
    MaxCommits = 4
SYMMETRY Symmetry
SPECIFICATION Spec
INVARIANTS TypeOK HeadsMatchTip CoherentHistory NoEmptyCommit NeverInvariantError
PROPERTIES MovesToChild CallsAreAtomic
