SPECIFICATION Spec
CONSTANTS
    Radix = 3
    MaxVarint = 3
    Disallowed = "0"
    MaxString = 6
    FilterStarts = {}
    FilterCharacters = {}
    TopicCharacters = {}
    MaxGrowth = 0
    MaxTopic = 0
    MaxBytes = 0
    MaxProperties = 0
    MaxCodes = 1
    MaxLines = 0
    MAX_PROXY_RESPONSE_HEADER_BYTES = 1
INVARIANTS
    PublicCodesMatchWire
CHECK_DEADLOCK FALSE
