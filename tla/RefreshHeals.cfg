SPECIFICATION FairSpec
CONSTANTS
    l1 = l1
    l2 = l2
    w1 = w1
    w2 = w2
    Lists = {l1, l2}
    Workers = {w1, w2}
    Deployments <- AllDeployments
    MaxVersion = 4
    Serves <- LastVersions
    Size <- Sizes
    WithExceptions = {1, 3}
    NumDocs = 1
    NumParts = 2
    MaxIds = 5
    ShrinkPercent = 50
    MinSources = 1
    MaxStalePurge = 1
    MaxFaults = 1
    None = None
PROPERTY Healed
