CONSTANT MaxRuns = 2
SPECIFICATION FairSpec
INVARIANTS
    StrayScriptsAreStopping
    NoRunIsForgotten
    ButtonShowsRunner
PROPERTIES
    EndedRunsAreReleased
    StopTakesEffect
    StoppedRunsStartOnlyLate
