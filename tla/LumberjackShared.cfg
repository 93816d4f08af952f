\* Two processes and a reader on one file.
SPECIFICATION Spec
CONSTANTS
    Writers = {w1, w2}
    Readers = {r1}
    MAXIMUM_BUFFER_SIZE = 2
    MaxTrials = 5
SYMMETRY Symmetry
INVARIANTS TypeOK RecordedInOrder WholeBatches LossStops TransactionsApart
