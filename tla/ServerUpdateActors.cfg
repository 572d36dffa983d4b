\* The dashboard, a terminal's update and a terminal's rollback over one directory.
CONSTANTS
    Versions <- TwoReleases
    Bad <- NoneIsBad
    First = 1
    Actors <- Everyone
    Supervisor = "systemd"
    MaxCrashes = 2
    None = None
SPECIFICATION Spec
INVARIANTS BootRecoversUnlessCrossed RestoresUnopened
CHECK_DEADLOCK FALSE
