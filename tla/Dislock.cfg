SPECIFICATION FairSpec
CONSTANTS
    Instances = {i1, i2}
    Tokens = {t1, t2, t3}
    NoToken = NoToken
    TTL = 4
    CallTime = 1
    MaxRun = 2
PROPERTIES LeaseSpec KeyFreed
