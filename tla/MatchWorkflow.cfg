CONSTANTS
    Lineups = {Radiant, Dire, Reserve}
    NoLineup = NoLineup
    BracketKind = "MANUAL"
    LobbyGrace = 2
    ConfirmWindow = 1
    AdmissionWindow = 1
    ResultWindow = 1
    DurationLimit = 2
    MaxDelay = 1
    BestOfs = {1, 3}
SPECIFICATION FairSpec
INVARIANT GameIsSupported
INVARIANT MajorityDecides
INVARIANT DeadlinesLeaveTime
PROPERTY ResultsArePermanent
PROPERTY StalledStagesEnd
CHECK_DEADLOCK FALSE
