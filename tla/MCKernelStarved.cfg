SPECIFICATION Spec
CONSTANTS
    MAX_TASKS = 5
    NoTask = NoTask
    Capacity = 1
    AI_BUFFER_SIZE = 2
    Printable = {"x"}
    ENTER = "enter"
    BACKSPACE = "backspace"
    Control = {"tab"}
    apps <- MCApps
    AutoFocusPeriod = 2
    MonitorPeriod = 1
    TickCycle = 2
    Nothing = Nothing
PROPERTIES
    QueuedTaskRuns
