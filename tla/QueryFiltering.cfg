SPECIFICATION Spec
CONSTANTS
    Queries <- MCQueries
    CheckNames <- MCCheckNames
    Profiles <- MCProfiles
    Answers <- MCAnswers
    Lists = {"x", "y"}
    MaxVersion = 2
    Listed <- MCListed
    Excepted <- MCExcepted
    ServiceDomains <- MCServiceDomains
    ServiceASNs <- MCServiceASNs
    ASN <- MCASN
    PrivateIPs = {"private"}
    AllowSuffixes <- MCAllowSuffixes
    RebindingEnabled = TRUE
    UncloakingEnabled = TRUE
    CatalogLoads = {TRUE, FALSE}
    MaxFaults = 1
    NoAnswer = NoAnswer
INVARIANTS UncheckedWithheld UserRulesDecide TierPrecedence WalksAgree
