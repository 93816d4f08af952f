\* Four stars and plenty of comparisons: are all of their four trios tried?
SPECIFICATION Spec
CONSTANTS
    MinN = 4
    MaxN = 4
    NuMax = 20
    Skies <- NoisySkies
    Truth <- MCTruth
    MaxAnswer = 2
PROPERTY ExhaustiveSpec
