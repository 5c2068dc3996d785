\* nobody waits for ever
CONSTANTS
    Writer = {w1}
    Mount = mount
    Branch = {b1}
    Small = {s}
    Large = {l}
    NoContent = none
    MaxCommits = 3
    MayLeak = TRUE
SPECIFICATION FairSpec
PROPERTIES EveryoneEnds
