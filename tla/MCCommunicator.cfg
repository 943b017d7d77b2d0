CONSTANTS
    handler = handler
    notified = notified
    Requesters = {handler, notified}
    Prioritized = {notified}
    d1 = d1
    d2 = d2
    Domains = {d1, d2}
    Main = Main
    NoThread = NoThread
    NoDomain = NoDomain
    MaxQueue = 3
    MaxAny = 3
SPECIFICATION FairSpec
INVARIANTS TypeOK NoRequestStranded
PROPERTY EveryRequestServed
CHECK_DEADLOCK FALSE
