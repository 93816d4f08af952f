\* One process, one file: what perform-e.py arranges (recdb-0, recdb-1, ...).
SPECIFICATION FairSpec
CONSTANTS
    Writers = {w1}
    Readers = {}
    MAXIMUM_BUFFER_SIZE = 3
    MaxTrials = 14
PROPERTIES ResultsDelivered LogSpec
