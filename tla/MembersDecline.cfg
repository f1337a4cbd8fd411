CONSTANTS
    Users = {owner, a}
    Owner = owner
    Reqs = {r1, r2}
    Limit = 2
    NoUser = NoUser
SPECIFICATION Spec


PROPERTY MembersAreNotDeclined
