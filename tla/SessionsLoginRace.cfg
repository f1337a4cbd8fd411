CONSTANTS
    Users = {u1}
    Sids = {s1, s2}
    Reqs = {r1, r2}
    TTL = 2
    MaxTokens = 1
    NoUser = NoUser
    NoSid = NoSid
SPECIFICATION Spec
PROPERTY LogoutAllEndsAll
