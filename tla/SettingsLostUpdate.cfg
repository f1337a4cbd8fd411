CONSTANTS
    Fields = {"name", "timezone"}
    Values = {v1, v2}
    NoZone = NoZone
    Reqs = {r1, r2}
SPECIFICATION Spec
PROPERTY UpdatesOnlyAllowedFields
