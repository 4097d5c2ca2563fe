\* Up to two publish commands, one relaunch, two faults of any kind.
CONSTANTS
    p1 = p1  p2 = p2  a = a  b = b  c = c
    Publishers = {p1, p2}
    Catalog <- MCCatalog
    BundledPack <- MCBundled
    NoPack = NoPack
    Newest = 3
    MaxPublishes = 2
    MaxLaunches = 1
    MaxFaults = 2
SPECIFICATION Spec
INVARIANTS
    PacksTypeOK
    PublicSound
    OverlayFresh
    CaughtUp
    NeverOlder
PROPERTIES
    RevisionsImmutable
    RefreshEnds
    CachePromise
