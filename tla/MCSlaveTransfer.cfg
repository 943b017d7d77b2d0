CONSTANTS
    z1 = z1
    z2 = z2
    h1 = h1
    m1 = m1
    m2 = m2
    Zones = {z1, z2}
    Masters = {m1, m2}
    MastersOf <- TwoMasters
    Proxies = {m2}
    SuperMasters = {m1}
    Known = {z1}
    Handlers = {h1}
    Body <- Bodies
    Ids = {1}
    MaxInFlight = 2
    Burst = 1
    MaxVersion <- TwoAndOne
    SerialMod = 3
    MaxChunk = 2
    MaxQueue = 1
SPECIFICATION FairSpec
INVARIANT TypeOK
PROPERTIES ImplementsZoneStore JudgedFreshRight RefreshEnds
