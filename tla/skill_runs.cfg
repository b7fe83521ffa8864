SPECIFICATION FairSpec
CONSTANTS
    Registry <- Installed
    Rank <- Sorted
    Goals <- MCGoals
    Standalone <- MCStandalone
    MaxRuns = 2
    MaxRoute = 10
    MaxCrashes = 1
INVARIANTS
    TypeOK
    PlanIsWarranted
    SpinningGoalsAreNeverPlanned
    ResumePointsResume
    RedundantIsUseless
    SavedKeysSurvive
PROPERTIES
    CommandsEnd
CHECK_DEADLOCK FALSE
