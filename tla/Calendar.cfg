CONSTANTS
    FirstYear = 1999
    FirstWeekday = 4
    LastYear = 2101
SPECIFICATION Spec
CHECK_DEADLOCK FALSE
INVARIANTS
    DaysAfterCountsDays
    WeekdayFollows
PROPERTIES
    CodesFollowDays
