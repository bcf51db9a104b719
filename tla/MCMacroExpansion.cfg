SPECIFICATION FairSpec
CONSTANTS
    Identifiers <- MCIdentifiers
    Numbers <- MCNumbers
    Programs <- MCPrograms
    Alphabet <- MCAlphabet
    MaxInput = 5
INVARIANTS
    OutputIsC
    MarkersMatch
PROPERTIES
    Terminates
