SPECIFICATION ReadSpec
CONSTANTS
    MaxWindow = 4
    Contents <- Sources
    SectionLimit = 2
    ListLimits = {0, 1, 9}
    ListDefault = 2
    ListMax = 3
    FirstOffsets <- Offsets
    MaxChanges <- Changes
INVARIANTS
    WindowsAreText
    Reassembled
    CursorsAccepted
PROPERTIES
    EveryAnswerAdvances
