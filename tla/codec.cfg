SPECIFICATION Spec
CONSTANTS
    Radix = 3
    MaxVarint = 3
    Disallowed = "0"
    MaxString = 6
    FilterStarts <- SomeStarts
    FilterCharacters = {"a", "share", "0", "$", "+", "#", "/"}
    TopicCharacters = {"a", "$", "/"}
    MaxGrowth = 4
    MaxTopic = 4
    MaxBytes = 4
    MaxProperties = 2
    MaxCodes = 3
    MaxLines = 4
    MAX_PROXY_RESPONSE_HEADER_BYTES = 7
INVARIANTS
    FilterSyntax
    MatchRules
    VarintsAgree
    PropertyRules
    ReencodingStable
    SentAsAsked
    GivenAsReceived
    ReasonsSurvive
    
    StreamReachesServer
CHECK_DEADLOCK FALSE
