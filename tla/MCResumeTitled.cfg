SPECIFICATION ResumeSpec
CONSTANTS
    None = None
    sa = sa
    sb = sb
    west = west
    east = east
    mail = mail
    Windows = {t1, t2, t3, w1}
    Targets = {t1, t2, t3}
    MaxDisturbances = 0
    Names <- MCNames
    MaxAge = 0
    Spaces <- MCSpaces
    Boot = 3
    Histories <- MCHistories
    Desktops <- TitledDesktops
    Policies = {"current", "fail"}
    MaxRuns = 1
    LastTime = 1
    MaxMishaps = 1
PROPERTIES LaunchesOnlyMissing
CHECK_DEADLOCK FALSE
