CONSTANTS
    Users = {u1}
    Sids = {s1, s2}
    Reqs = {r1}
    TTL = 2
    MaxTokens = 2
    NoUser = NoUser
    NoSid = NoSid
SPECIFICATION FairSpec
PROPERTIES Reclaimed LifecycleSpec
