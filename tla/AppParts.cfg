SPECIFICATION Spec
CONSTANTS
    Null = Null
    MaxProfiles = 3
    Clicks = 5
    Errors = 1
    Changes = 1
    Tabs = {t1}
    MaxBuild = 3
    MaxMishaps = 2
    MaxGlances = 4
    SetupProfiles = {s1, s2}
    MaxSteps = 5
    MaxLinks = 2
    MaxFaults = 1
    ProfileIds = {p1, p2}
    MaxProbes = 2
    MaxFailures = 1
    MaxAlterations = 3
INVARIANTS ImportExact ReloadAdvances InstalledAsShown
PROPERTIES  StatusConverges
CHECK_DEADLOCK FALSE
