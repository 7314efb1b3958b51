CONSTANTS
    MaxEntrySize = 60
    MaxStr = 3
    MaxTagsCount = 3
    MaxMetricCount = 2
    MaxMetaCount = 2
    MaxStackTraceCount = 1
    Byte = 7
    Word = 300
    MaxCalls = 4
    Strings <- MCStrings
    Values <- MCValues
    TagLists <- MCTagLists
SPECIFICATION EntrySpec
INVARIANTS
    EntryTypeOK
    
    PrependsInOrder
CHECK_DEADLOCK FALSE
