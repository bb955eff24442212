\* Two sources with one document each, one extraction that is published
\* later, two coordinators, three moves of the release; states with more
\* than two graph releases are checked and not continued.
CONSTANTS
    Sources = {s1, s2}
    Documents = {d1}
    Extractions = {e1}
    Coordinators = {c1, c2}
    None = None
    MaxVersion = 3
    MaxBuilds = 2
SPECIFICATION Spec
CONSTRAINT FewBuilds
SYMMETRY ReleaseSymmetry
INVARIANTS TypeOK CandidateIsCurrent ReadyIsProjected
PROPERTIES NoLostUpdate VersionNamesSnapshot
