SPECIFICATION FairSpec
CONSTANTS
    Inline = {"inline"}
    Conversation = {"echo", "note"}
    Reviews = {}
    General = {"note"}
    Text <- MCText
    MaxKeys = 3
INVARIANTS
    AnsweredOnce
    
PROPERTIES
    TriageComesToAnEnd
CHECK_DEADLOCK FALSE
