SPECIFICATION MCSpec
CONSTANTS
    u1 = u1
    u2 = u2
    u3 = u3
    u4 = u4
    s1 = s1
    s2 = s2
    s3 = s3
    Solo = Solo
    None = None
    Users = {u1, u2, u3, u4}
    Positions = {s1, s2, s3}
    Passive = u4
    MaxParties = 3
    MaxMembers = 3
    MaxBegun <- CallsBegun
    MaxCalls <- CallsAtOnce
    MaxLetters <- LettersAtOnce
SYMMETRY Symmetry
CHECK_DEADLOCK FALSE
INVARIANTS
    TypeOK
    RostersFit
    CaptainLeads
    KickedStayOut
    NobodyWaitsAtAMergedParty
PROPERTIES
    KicksOutliveMergers
    MergesAreMutual
