CONSTANTS
    q1 = q1
    q2 = q2
    q3 = q3
    t1 = t1
    t2 = t2
    t3 = t3
    t4 = t4
    t5 = t5
    Questions = {q1, q2, q3}
    Threads = {t1, t2, t3, t4, t5}
    First = {t1, t2}
    NumThreads = 2
    MaxOthers = 1
    MaxRaces = 1
    MaxQueue = 1
    CheckEvery = 2
    RespawnAfter = 1
    MaxBuild = 1
    NoQuestion = NoQuestion
SPECIFICATION FairSpec
INVARIANTS TypeOK OnePlace ThreadsBounded
PROPERTY QuestionsDealtWith
CHECK_DEADLOCK FALSE
