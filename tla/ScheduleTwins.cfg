SPECIFICATION Spec
CONSTANTS
    Schedules = {s1, s2}
    Jobs = {j1}
    Requests = {r1, r2}
    Crons <- Alternate
    DayLength = 2
    Horizon = 3
    None = None
INVARIANT OneSchedulePerJob
