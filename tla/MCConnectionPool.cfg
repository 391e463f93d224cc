SPECIFICATION FairSpec
CONSTANTS
    Client = {c1, c2, c3}
    Connection = {k1, k2, k3, k4}
    max_connections = 2
    None = None
INVARIANTS
    ExclusiveLease
    OpenMeansOwned
    ActiveCountsLeases
    PoolBounded
PROPERTY
    DetachedPoolIsClosed
