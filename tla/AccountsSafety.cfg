CONSTANTS
    Users = {u1, u2}
    Emails = {e1, e2}
    Ids = {i1, i2}
    Reqs = {r1, r2, r3}
    NoUser = NoUser
    NoEmail = NoEmail
    NoId = NoId
SPECIFICATION Spec
SYMMETRY Symmetry
INVARIANTS TypeOK OneUserPerAddress UsersAreWhole
PROPERTIES LinksAreVerified DirectorySpec
