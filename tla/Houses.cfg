SPECIFICATION Spec
CONSTANTS
    Adults = 4
    Kids = 1
    Women = {1, 3}
    Houses = 3
    Settings <- MCSettings
    Upkeep = 1
    Stipend = 1
    Startup = 2
    SplitSize = 4
    BirthMonths = 1
    YearMonths = 2
    MaxMonth = 3
    MaxFalls = 1
INVARIANTS
    OneRowPerPerson
    FamilyOfTheLiving
PROPERTIES
    SilverIsKept
CHECK_DEADLOCK FALSE
