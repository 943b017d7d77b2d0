\* Two questions in seven worlds, one lost answer, one cache entry that expires.
CONSTANTS
  Worlds <- MCWorlds
  AskedNames <- MCQuestions
  Hints <- MCHints
  DontQuery <- MCDontQuery
  MaxDepth = 10
  MaxFaults = 1
  MaxExpire = 1
  MaxQuestions = 2
SPECIFICATION FairResolveSpec
INVARIANTS ResolveTypeOK NeverWrong FoundWhenHealthy
PROPERTY EveryQuestionEnds
CHECK_DEADLOCK FALSE
