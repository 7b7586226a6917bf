CONSTANTS
    Reviewers = {r1, r2}
    Bases = {"main", "other"}
    Reports <- SomeReports
    Texts <- SomeTexts
    RefutationLists <- SomeRefutations
    HasCriteria = TRUE
    MaxChanges = 1
    MaxRounds = 1
    MaxCritiques = 2
    None = None
SPECIFICATION Spec
PROPERTIES VerifiedReportIsOfThisTree ApprovedLeavesNothingOpen
SYMMETRY Alike
CHECK_DEADLOCK FALSE
