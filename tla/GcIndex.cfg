\* a write in flight on a branch that GC drops
CONSTANTS
    Writer = {w1}
    Mount = mount
    Branch = {b1}
    Small = {s}
    Large = {l}
    NoContent = none
    MaxCommits = 3
    MayLeak = FALSE
SPECIFICATION Spec
INVARIANT IndexFollowsTip
