CONSTANTS
    Objects <- MCObjects
    Contents <- MCContents
    Absent = Absent
    Plans <- MCPlans
    NoPlan = NoPlan
    Wanted <- MCWanted
    Forms <- MCForms
    Needs <- MCNeeds
    Frozen <- MCFrozen
    Tamperable <- MCTamperable
    Reports <- MCReports
    NoReport = "none"
SPECIFICATION Spec
INVARIANTS
    DoneIsThere
    NeedsMet
CHECK_DEADLOCK FALSE
