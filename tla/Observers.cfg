\* verify() and reads beside a writer, sessions and the collector
CONSTANTS
    Writer = {w1}
    Mount = mount
    Branch = {b1}
    Small = {s}
    Large = {l}
    NoContent = none
    MaxCommits = 3
    MayLeak = FALSE
SPECIFICATION ReadsSpec
INVARIANTS ReadsAreWhole
PROPERTIES DanglingMeansCollected DriftIsExact MissingMeansCollected
