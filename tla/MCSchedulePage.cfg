\* The user empties the input of a schedule and saves it.
CONSTANTS
    Valid = {v1}
    Bad = Bad
    Blank = Blank
    MaxPuts = 1
    MaxTroubles = 0
SPECIFICATION ScheduleSpec
PROPERTIES
    BlankDisablesSchedule
CHECK_DEADLOCK FALSE
