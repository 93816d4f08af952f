\* Both strategies, with any answer and with truthful answers.
SPECIFICATION Spec
CONSTANTS
    MinN = 0
    MaxN = 6
    NuMax = 8
    Skies <- MCSkies
    Truth <- MCTruth
    MaxAnswer = 2
INVARIANTS DistinctAnswer AnswerTrue
PROPERTIES SearchSpec
