SPECIFICATION ReleasesSpec
CONSTANTS
    Script = {s1, s2}
    Stack = {"python"}
    NoScript = NoScript
CHECK_DEADLOCK FALSE
INVARIANT SuccessBecomesCurrent
