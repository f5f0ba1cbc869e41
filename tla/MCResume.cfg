SPECIFICATION ResumeSpec
CONSTANTS
    None = None
    sa = sa
    sb = sb
    west = west
    east = east
    mail = mail
    Windows = {t1, t2, t3, w1}
    Targets = {t1, t2, t3}
    MaxDisturbances = 1
    Names <- MCNames
    MaxAge = 0
    Spaces <- MCSpaces
    Boot = 3
    Histories <- MCHistories
    Desktops <- MCDesktops
    Policies = {"current", "fail"}
    MaxRuns = 2
    LastTime = 1
    MaxMishaps = 1
SYMMETRY Alike
INVARIANTS OneClient LeftOpenAttached CalmResult Converges StopsWhenAstray
PROPERTIES RaisesOnlyAllowed
CHECK_DEADLOCK FALSE
