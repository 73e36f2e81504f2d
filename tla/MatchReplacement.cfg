CONSTANTS
    Lineups = {Radiant, Dire, Reserve}
    NoLineup = NoLineup
    BracketKind = "MANUAL"
    LobbyGrace = 2
    ConfirmWindow = 1
    AdmissionWindow = 1
    ResultWindow = 1
    DurationLimit = 1
    MaxDelay = 0
    BestOfs = {1}
SPECIFICATION Spec
PROPERTY StartedMatchKeepsLineups
CHECK_DEADLOCK FALSE
