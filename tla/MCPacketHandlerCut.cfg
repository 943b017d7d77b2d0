\* A zone file, loaded by the BIND backend, with a delegation two labels below the apex.
SPECIFICATION Spec
CONSTANTS
    Databases <- MCDatabases
    Questions <- MCQuestions
    AuthSources = {"loaded"}
    Settings <- MCSettings
    RootServers <- MCRootServers
    MaxRetargets = 3
    Deep = TRUE
INVARIANT DelegationHonoured
CHECK_DEADLOCK FALSE
