CONSTANTS
    c1 = c1
    c2 = c2
    Callers = {c1, c2}
    Unlimited = Unlimited
    NotConfigured = NotConfigured
    Limits = {5, 6, Unlimited, NotConfigured}
    Starter = 5
    Month = 2
    MaxTime = 2
    MaxRequest = 1
    MaxUsed = 2
SPECIFICATION Spec
SYMMETRY Symmetry
INVARIANTS TypeOK OvershootBounded
PROPERTIES UseCountsAtOnce WarnedFirst
