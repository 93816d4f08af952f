SPECIFICATION FairSpec
CONSTANTS
    MinN = 0
    MaxN = 5
    NuMax = 6
    MaxAnswer = 2
    UInt = 8
    SizeT = 16
INVARIANT ExceededHonest
PROPERTIES Returns SearchSpec
