\* A pass and the one it overlaps; a feed shows less than it has published.
CONSTANTS
    fed_press = fed_press
    coindesk = coindesk
    Sources <- MCSources
    Pass = {p1, p2}
    Shown = 1
    MaxPublished <- MCPublished
SPECIFICATION Spec
INVARIANTS NothingHiddenIsLost
SYMMETRY PassSymmetry
