SPECIFICATION Spec
CONSTANTS
    MAX_TASKS = 4
    NoTask = NoTask
INVARIANTS
    LaneShares
PROPERTIES
    EveryLaneProgresses
