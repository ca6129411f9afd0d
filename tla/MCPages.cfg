SPECIFICATION Spec
CONSTANTS
    s1 = s1
    s2 = s2
    secret = secret
    upload = upload
    Sessions = {c1, c2}
    Shares = {s1, s2}
    NoShare = NoShare
    Passwords = {secret, upload}
    NoPassword = NoPassword
    Password <- PasswordOf
    EmptyString = EmptyString
    NotAString = NotAString
    UploadSetting <- PasswordList
    HideCreateLinks = TRUE
SYMMETRY Symmetry
INVARIANTS
    FormGated
    LinkOpens
    ScreenFollowsPath
    NotFoundIsTrue
    OneRemover
