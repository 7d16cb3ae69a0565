SPECIFICATION Spec
CONSTANTS
    MaxLargestUInt = 255
    MaxLargestInt = 127
    MaxInt = 7
    RightMargin = 20
    MaxArray = 4
    MaxNumber = 4
    MaxString = 4
    MaxAny = 4
    MaxDocument = 7
    StackLimit = 3
INVARIANTS
    NumberExact
    QuotedReadsBack
    ReadsGrammar
    RoundTrip
    ValuesSound

    
CHECK_DEADLOCK FALSE
