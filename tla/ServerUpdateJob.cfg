\* The dashboard's updates alone: from any crash the instance comes back.
CONSTANTS
    Versions <- ThreeReleases
    Bad <- SecondIsBad
    First = 1
    Actors <- JobOnly
    Supervisor = "systemd"
    MaxCrashes = 2
    None = None
SPECIFICATION FairSpec
INVARIANTS BootRecovers
PROPERTIES MarkerSettles ServesAgain
CHECK_DEADLOCK FALSE
