SPECIFICATION LogFairSpec
CONSTANTS
    MaxLogEntries = 3
    MaxEntries = 4
    MaxRecords = 12
INVARIANTS LogHasNoHoles SwitchRulesTheTimeline
PROPERTIES RecordsLeaveTheDeque
