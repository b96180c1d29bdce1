SPECIFICATION Spec
CONSTANTS
    Checks <- MCChecks
    Regions <- MCRegions
    Items <- MCItems
    Home <- MCHome
    Accounts = {m}
    Management = m
    m = m
    PageSize = 1
    MaxChanges = 1
INVARIANTS
    BadIsNamed
    FindingsAreReal
    AbsenceIsReal
    ErrorsSurface
