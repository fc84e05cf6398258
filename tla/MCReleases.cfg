SPECIFICATION ReleasesSpec
CONSTANTS
    Script = {s1, s2}
    Stack = {"static", "spring_boot"}
    NoScript = NoScript
SYMMETRY Symmetry
CHECK_DEADLOCK FALSE
INVARIANTS
    ReleasesInv
    OnlyFinishedBuildsAreUsed
    RouteWorks
    SuccessIsServed
    NothingIsLeft
PROPERTIES
    NeverGoesBack
