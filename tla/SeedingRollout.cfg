CONSTANTS
    i1 = i1
    i2 = i2
    i3 = i3
    Nobody = Nobody
    Instances = {i1, i2, i3}
    VersionOf <- Rollout
    Deployments = {{}, {1}, {1, 2}}
    Workspaces = {w1}
SPECIFICATION FairSpec
INVARIANTS TypeOK OneActiveVersion SameVersionInTurn CirclesCrossVersions StarterDecides OneOpenSubscription
PROPERTIES BackfillCovers CatalogueSpec SeedsEnd
