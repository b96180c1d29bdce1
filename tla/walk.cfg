SPECIFICATION Spec
CONSTANTS
    Gone = Gone  Nobody = Nobody
    t1 = t1  t2 = t2
    Units <- MCUnits
    Folders <- MCFolders
    PageSize = 1
    MaxChanges = 2
    MaxFaults = 1
    Tenants = {t1, t2}
    Fanout = 2
    MaxRoles = 3
INVARIANTS
    TypeOK
    SteadyListedOnce
    RefusedExactlyWhenUnfit
PROPERTIES
    CounterIsTrue
    CounterCatchesUp
