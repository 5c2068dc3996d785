\* the grant cache of one worker
CONSTANTS
    Call = {c1, c2}
    Tenant = {t1}
    Actor = {a1}
    Mount = {m1}
    Grant = {yes, no}
    Unknown = unknown
    TTL = 2
    Timeout = 2
    Second = 1
    All = all
    MaxTime = 4
SPECIFICATION FairSpec
INVARIANTS TypeOK GrantsAreRecent
PROPERTIES CallsEnd
