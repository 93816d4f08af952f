\* Two processes on one file: what becomes of the results when they collide.
SPECIFICATION FairSpec
CONSTANTS
    Writers = {w1, w2}
    Readers = {}
    MAXIMUM_BUFFER_SIZE = 2
    MaxTrials = 3
PROPERTY ResultsDelivered
