\* The store raises in the middle of a pass.
CONSTANTS
    fed_press = fed_press
    coindesk = coindesk
    Sources <- MCSources
    Pass = {p1}
    Shown = 2
    MaxPublished <- MCPublished
SPECIFICATION Spec
INVARIANT SeenAgain
