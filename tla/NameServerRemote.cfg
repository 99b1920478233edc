SPECIFICATION FairSpec
CONSTANTS
    c1 = c1  c2 = c2  c3 = c3  o1 = o1  n1 = n1  n2 = n2  v1 = v1
    numProcessors = 2
    Names = {n1, n2}
    Versions = {v1}
    Owners <- MCOwners
    Clients <- MCClients
    home <- MCHome
    numDynamic = 1
    checkExisting = TRUE
    StaticTable <- MCStatic
    NotFound = NotFound
    None = None
    OsFailure = OsFailure
    AttachedAtStart <- MCAttached
INVARIANTS QueriesAccounted
PROPERTIES ImplementsLookup GetReturns
