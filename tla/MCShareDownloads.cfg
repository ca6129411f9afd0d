SPECIFICATION DownloadsSpec
CONSTANTS
    right = right
    wrong = wrong
    NoPassword = NoPassword
    Shares = {s1}
    Requests = {r1, r2}
    Passwords = {right, wrong}
    Password <- PasswordOf
    InPlace = {}
    Chunks = 2
    MaxValidity = 2
    Grace = 2
    MaxTime = 6
CHECK_DEADLOCK FALSE
INVARIANTS
    TypeOK
    NotBrokenEarly
    OnlyEntitledGetBytes
    DownloadsCounted
PROPERTIES
    RequestsEnd
