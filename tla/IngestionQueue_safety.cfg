\* Two sources whose origin may change, two workers, leases of one unit.
CONSTANTS
    Sources = {s1, s2}
    Works = {w1, w2}
    Workers = {k1, k2}
    Documents = {d1, d2}
    LeaseDuration = 1
    None = None
SPECIFICATION Spec
SYMMETRY WorkerSymmetry
INVARIANTS TypeOK OneActiveWork LeaseAgreement NoStrandedSource ReadyIsPublished
PROPERTIES LostLeaseIsInert ImplementsLifecycle
