CONSTANTS
    m1 = m1
    m2 = m2
    m3 = m3
    q1 = q1
    q2 = q2
    f1 = f1
    f2 = f2
    MThreads = {m1, m2, m3}
    Questions = {q1}
    Ids = {1, 2}
    Fds = {f1, f2}
    Chained = Chained
    NoWaiter = NoWaiter
    NoQuestion = NoQuestion
    MaxMThreads = 2
    Timeout = 1
    MaxAsks = 2
SPECIFICATION FairSpec
INVARIANTS TypeOK OneOutstanding SocketsAccounted ReturnIsSafe
PROPERTY EveryWaiterGoesOn
