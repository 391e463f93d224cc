SPECIFICATION Spec
CONSTANTS
    Session = {s1, s2}
    Table = {t1, t2}
    None = None
    Environment <- CreatesOnly
SYMMETRY CacheSymmetry
INVARIANT
    LoadedMeansComplete
