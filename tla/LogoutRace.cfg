SPECIFICATION AppSpec
CONSTANTS
    GoogleUsers = {g1}
    PhoneUsers = {p1, p2}
    Seeded = {p1}
    Admins = {a1}
    g1 = g1
    p1 = p1
    p2 = p2
    a1 = a1
    RefreshTTL = 1
    MaxSessions = 3
    MaxTime = 1
    MaxIncidents = 1
CHECK_DEADLOCK FALSE
PROPERTIES
    LogoutIsFinal
