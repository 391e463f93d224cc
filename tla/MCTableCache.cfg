SPECIFICATION Spec
CONSTANTS
    Session = {s1, s2}
    Table = {t1, t2, t3}
    None = None
    Environment <- AllUses
SYMMETRY CacheSymmetry
INVARIANTS
    CachedMeansExisted
    ReadsAreComplete
    CreatesAreVisible
PROPERTY
    EntriesStay
