SPECIFICATION PartsSpec
CONSTANTS
    Commands = {"act", "actionlint", "npm run typecheck", "npm run build", "npm run lint", "npm test", "go vet", "go test", "git diff --exit-code"}
    TestCommands = {"npm test", "go test"}
    LintCommands = {"npm run lint"}
    TreeAssertions = {"git diff --exit-code"}
    Drafts <- AllDrafts
    Approvable <- SomeApprovable
    Settings <- AllSettings
    MetricsRead <- SomeMetrics
    CheckOutcomes = {"ok", "fails", "prints FAIL", "hangs"}
    MaxRounds = 2
    MaxEdits = 1
    Texts <- SomeTexts
    Assigned <- SomeAssigned
    Shapes = {"checks"}
    MaxDepth = 3
    MaxSize = 4
    Plans <- SomePlans
    BaseTests <- SomeTests
    OtherTests <- MoreTests
    Prints <- SomePrints
    NoPlan = NoPlan
    MaxChanges = 3
INVARIANTS
    PassedRunIsCertifiable
    
    NothingDeclaredIsDropped
    CliStaysInSandbox
    WritesHaveParents
    OwnTestsAreNotRefused
PROPERTIES
    StartsFromAFittingPlan
CHECK_DEADLOCK FALSE
