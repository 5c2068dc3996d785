\* two clients merge two branches, tag, and write the mount
CONSTANTS
    c1 = c1
    c2 = c2
    mount = mount
    b1 = b1
    b2 = b2
    t1 = t1
    dir = dir
    file = file
    x = x
    y = y
    None = None
    AnySha = AnySha
    Client <- Clients
    Mount = mount
    Branch = {b1, b2}
    Tag = {t1}
    Path <- TwoPaths
    Inside <- BelowDir
    Content = {x, y}
    Requests <- Merging
    MaxAttempts = 1
    MaxCommits = 3
SYMMETRY Symmetry
SPECIFICATION Spec
INVARIANTS BaseIsCommonAncestor
PROPERTIES MergeKeepsBothSides CallsAreAtomic
