\* One handler, a name in the zone purged and one that hides it, one change of the data.
CONSTANTS
    h1 = h1
    Handlers = {h1}
    Names <- SomeNames
    Purges <- AllPurges
    Updated <- JustZone
    PacketTTL = 1
    QueryTTL = 1
    MaxEntries = 2
    CleanupEvery = 2
    UintWidth = 3
    MaxBusy = 1
    MaxVersion = 1
SPECIFICATION CacheSpec
INVARIANTS CacheTypeOK BoundedStaleness 
