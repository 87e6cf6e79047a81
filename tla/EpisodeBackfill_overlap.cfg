\* Two passes of one pipeline overlap: an abandoned one, or a manual one.
CONSTANTS
    Pass = {p1, p2}
    Gap = 1
    Window = 2
    Faults = {}
    MaxLegacy = 0
    Since = {}
    MaxClock = 3
    MaxRows = 3
SPECIFICATION BSpec
INVARIANT OneIdPerStory
CHECK_DEADLOCK FALSE
