CONSTANTS
    n1 = n1
    n2 = n2
    t1 = t1
    Notifications = {n1, n2}
    FromControl = {n2}
    Targets = {t1}
    Target <- OneTarget
    Ids = {1, 2}
    HoleTime = 1
    Nobody = Nobody
SPECIFICATION FairSpec
INVARIANTS TypeOK DroppedForAReason
PROPERTIES AnsweredNotResent EventuallyDone
