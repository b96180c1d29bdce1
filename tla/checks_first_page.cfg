SPECIFICATION Spec
CONSTANTS
    Checks <- CloudChecks
    Regions <- MCRegions
    Items <- MCItems
    Home <- MCHome
    Accounts = {m}
    Management = m
    m = m
    PageSize = 1
    MaxChanges = 1
INVARIANT FullyPaged
