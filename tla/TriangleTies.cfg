\* Does an inconclusive direct match test send identify to another trio?
SPECIFICATION Spec
CONSTANTS
    MaxN = 3
    NuMax = 3
    Skies <- TieSkies
    Truth <- IdentityTruth
    MaxAnswer = 2
INVARIANT TiesRejected
