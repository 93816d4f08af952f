\* Two variations of each noise, two samples of each.
SPECIFICATION FairSpec
CONSTANTS
    Labels <- MCLabels
    HalfFov = 2
    Fields <- MCFields
    MinImage = 1
    NLimit = 1
    MaxStars = 5
    Engines <- MCEngines
    samples = 2
    iters <- MCiters
    EsMin = 1
    EsStep = 1
    RemoveStep = 1
    Psi = 1
    MaxResult = 2
INVARIANTS Aligned RowTellsNoise ScoreFair
PROPERTY Finishes
