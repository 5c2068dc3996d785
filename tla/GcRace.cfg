\* writers and the collector, statement by statement
CONSTANTS
    Writer = {w1, w2}
    Mount = mount
    Branch = {b1}
    Small = {s}
    Large = {l}
    NoContent = none
    MaxCommits = 3
    MayLeak = TRUE
SPECIFICATION Spec
INVARIANTS TypeOK NothingDangles ObjectsPresent
