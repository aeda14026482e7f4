SPECIFICATION ServicesSpec
CONSTANTS
    anIp = anIp
    aPhone = aPhone
    aUser = aUser
    Clients = {c1, c2}
    Keys = {anIp, aPhone, aUser}
    MaxHits <- Quotas
    Window = 3
    Cooldown = 1
    MaxSkew = 1
    MaxTime = 5
    CodePairs <- OnePhone
    OrderPairs <- OneUser
    SearchPairs <- OneIp
    Phones = {p1, p2}
    NoPhone = NoPhone
    Handlers = {h1, h2}
    Ttl = 1
    MaxAttempts = 1
    MaxWait = 1
    MaxOtpTime = 2
    MaxChallenges = 2
    Searches = {q1, q2, q3}
    Queries = {a1, a2}
    NoQuery = NoQuery
    MinInterval = 2
    MaxOutages = 3
    Editors = {e1, e2}
    Absent = Absent
    AccountIds = {1, 2}
    Usernames = {u1, u2}
    Passwords = {w1, w2}
    AccountBodies <- OneField
    SeedUser = u1
    SeedPassword = w1
    Minutes = {5, 15, 30, 40}
    DeskBodies <- SmallDeskBodies
CHECK_DEADLOCK FALSE
INVARIANTS
    ServicesTypeOK
    QuotasHold
    NoStrayConnection
    ThresholdsOrdered
PROPERTIES
    KeepsOneTimeCode
    SlotsSpaced
    SearchesEnd
    ConsumersStart
    PasswordsKept
