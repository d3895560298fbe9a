SPECIFICATION FairSpec
CONSTANTS
    AddressLimit = 16
    Chunk = 3
    MaxResults = 2
    Bytes = {0, 1}
    Alignments = {1, 2}
    Layouts <- MCLayouts
    Patterns <- MCPatterns
    Ranges <- MCRanges
INVARIANTS
    ResultsAreExact
PROPERTIES
    SearchEnds
CHECK_DEADLOCK FALSE
