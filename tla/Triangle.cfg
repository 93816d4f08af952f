\* Any answer from few rows, and truthful answers from every row.
SPECIFICATION FairSpec
CONSTANTS
    MaxN = 5
    NuMax = 5
    Skies <- MCSkies
    Truth <- IdentityTruth
    MaxAnswer = 3
INVARIANTS NeverPopsEmpty DistinctStars ExceededHonest TruthKept AnswerSound
PROPERTIES SearchSpec Returns
