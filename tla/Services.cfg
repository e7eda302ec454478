CONSTANTS
    Components = {"confirmation", "login", "apikey", "upload", "sending", "registry", "grants"}
    Server = {p1, p2}
    Contact = {home, phone}
    KindOf <- MCKindOf
    OwnerOf <- MCOwnerOf
    u1 = u1
    s1 = s1
    Uid = {u1}
    Initial <- MCInitial
    Info = {x, y}
    Nonce = {n1, n2}
    ShortNonce = short
    EndOf <- MCEndOf
    TokenTtl = 1
    Nothing = Nothing
    MaxMails = 2
    MaxEdits = 1
    MaxDay = 2
    home = home
    phone = phone
    x = x
    y = y
    n1 = n1
    n2 = n2
    short = short
    Browser = {web, script}
    KeyUsers = {script}
    Secret = {s1}
    NoSecret = NoSecret
    Backups = 2
    MfaRequired = FALSE
    Ticks = 1
    ReplaySteps = 2
    ShortSteps = 2
    CookieSteps = 2
    Never = Never
    MaxStep = 3
    MaxUses = 1
    MaxBatches = 1
    Worker = {p1, p2}
    Scope = {s1}
    Edits <- MCEdits
    Owner <- MCOwner
    TableTtl = 1
    KeyTtl = 2
    KeyEnds = 2
    MfaApikey = TRUE
    MfaNeeded = FALSE
    NoEntry = NoEntry
    MaxHour = 3
    Encoder = {p1, p2}
    File = {f1, f2, f3}
    Video = {f3}
    AlbumSize = 1
    Absent = Absent
    MaxTold = 3
    MaxFails = 1
    Sender = {p1, p2}
    Address = {a1, a2}
    Texted = {a2}
    DailyMax = 1
    MonthlyMax = 2
    ToUser = ToUser
    Unset = Unset
    MaxTasks = 3
    Backlog = 7
    Host = {h1, h2}
    Replica = {r1, r2, r3}
    HostOf <- MCHostOf
    First = 1
    Interval = 3
    EntryTtl = 6
    Late = 1
    Unlisted = Unlisted
    MaxLapses = 1
    MaxStarts = 3
    r1 = r1
    r2 = r2
    r3 = r3
    h1 = h1
    h2 = h2
    Proc = {p1, p2}
    Limits = {0, 2}
    Default = 1
    Ttl = 2
    NoRow = NoRow
    Nobody = Nobody
SYMMETRY ServicesSymmetry
SPECIFICATION ServicesSpec
INVARIANTS  TokenUsesBounded TwoFactors StaleAccessBounded RefusalsBounded UploadsBounded SendingBounded ListedWhileUp GrantsTypeOK StaleWithinTtl RecordsBounded OwnEditServed
PROPERTIES ReplayBlocked
