\* Two workers with the same candidate in a corpus that has no release yet.
CONSTANTS
    Sources = {s1}
    Documents = {d1}
    Extractions = {}
    Coordinators = {c1, c2}
    None = None
    MaxVersion = 1
SPECIFICATION IngestionSpec
INVARIANT QueriedGraphIsReady
