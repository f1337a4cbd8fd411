CONSTANTS
    Users = {owner, a, b}
    Owner = owner
    Reqs = {r1, r2, r3}
    Limit = 2
    NoUser = NoUser
SPECIFICATION Spec
SYMMETRY Symmetry
INVARIANTS TypeOK SeatsWithinLimit OwnerKept
PROPERTIES AcceptsOpenInvitation RulesSpec
