CONSTANTS
    Users = {u1, u2}
    Sids = {s1, s2}
    Reqs = {r1, r2}
    TTL = 2
    MaxTokens = 2
    NoUser = NoUser
    NoSid = NoSid
SPECIFICATION Spec
SYMMETRY Symmetry
INVARIANTS TypeOK RotationIsLinear LogoutIsFinal IndexCoversSessions
PROPERTY LogoutAllEndsIndexed
