\* Three places the auth flags may come from; at most three CNAMEs followed.
SPECIFICATION FairSpec
CONSTANTS
    Databases <- MCDatabases
    Questions <- MCQuestions
    AuthSources = {"column", "loaded", "unset"}
    Settings <- MCSettings
    RootServers <- MCRootServers
    MaxRetargets = 3
    Deep = FALSE
INVARIANTS TypeOK LoopsBrokenOff NXDomainRight  ChainUnbroken
PROPERTY Terminates
\* The handler ends when it has answered.
CHECK_DEADLOCK FALSE
