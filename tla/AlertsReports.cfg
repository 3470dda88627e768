SPECIFICATION Spec
CONSTANTS
    None = None
    Devices = {d1}
    Reports = {r1, r2}
    Silence = 1
    MaxCrashes = 1
PROPERTIES
    AlarmsSettle
CHECK_DEADLOCK FALSE
