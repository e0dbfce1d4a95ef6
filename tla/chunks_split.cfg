SPECIFICATION Spec
CONSTANTS
    ChunkSize = 8
    Overlap = 3
    Lengths <- MCLengths
    MaxSentences = 5
CHECK_DEADLOCK FALSE
INVARIANTS
    SentencesAreWhole
    ChunksOverlap
    SizeIsBounded
