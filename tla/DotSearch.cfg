SPECIFICATION FairSpec
CONSTANTS
    MinN = 0
    MaxN = 4
    NuMax = 1
    Fov = 3
    Thetas <- MCThetas
    MaxAnswer = 1
INVARIANTS OrderedAnswer NearestReduced
PROPERTIES SearchSpec Returns
