CONSTANTS
    Users = {u1, u2}
    Emails = {e1, e2}
    Ids = {i1, i2}
    Reqs = {r1, r2}
    NoUser = NoUser
    NoEmail = NoEmail
    NoId = NoId
SPECIFICATION Spec
PROPERTY FailedSignupLeavesNoUser
