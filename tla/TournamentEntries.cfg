SPECIFICATION MCSpec
CONSTANTS
    u1 = u1
    u2 = u2
    u3 = u3
    r1 = r1
    r2 = r2
    r3 = r3
    t1 = t1
    s1 = s1
    i1 = i1
    i2 = i2
    None = None
    Users = {u1, u2, u3}
    Roles = {r1, r2, r3}
    Teams = {t1}
    Squads = {s1}
    SearchRoles <- OneRole
    Instances = {i1, i2}
    MaxSlots = 2
    MaxGeneration = 2
    MaxPending = 2
    MaxSearches = 3
SYMMETRY Symmetry
CHECK_DEADLOCK FALSE
INVARIANTS
    TypeOK
    RostersAreExclusive
    StatusMatchesRoster
    TeamsFit
PROPERTIES
    ConsentIsGiven
    CompanyMovesWhole
    MatcherTakesSearchers
    EnrolmentEndsSearch
