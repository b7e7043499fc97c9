SPECIFICATION Spec
CONSTANTS
    User = {"u1", "u2"}
    HealthyStreak = 6
PROPERTY OthersSurvive
CHECK_DEADLOCK FALSE
