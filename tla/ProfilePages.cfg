SPECIFICATION Spec
CONSTANTS
    Null = Null
    ProfileIds = {1, 2, 3}
    Pages = {"blocklists", "custom-rules", "settings"}
    Fields = {"defaultRule", "customRulesRule", "dnssec", "recursor"}
    Catalog <- MCCatalog
    NrdGroup <- MCNrdGroup
    Values = {"d", "bad"}
    BadValues = {"bad"}
    Hits = {"c"}
    Groups = {"G", "H"}
    MaxBatch = 2
    Profiles <- MCProfiles
    Status = {"active", "limited_access"}
    MaxClicks = 3
    MaxCalls = 2
    MaxFaults = 1
INVARIANTS Converges RangeExact
PROPERTIES TokensAccounted
CHECK_DEADLOCK FALSE
