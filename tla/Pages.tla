-------------------------------- MODULE Pages --------------------------------
(***************************************************************************)
(* The pages of the web interface.  Each session (FileShelterApplication)  *)
(* has a stack with one widget per page; a change of the internal path     *)
(* empties all of them, fills the one the path names and puts it in front. *)
(* What a page shows was read from the store when it was filled: meanwhile *)
(* its share may expire, or be removed by another session, fileshelter-cmd *)
(* or the cleaner.  An exception of the store, like a timeout or a closed  *)
(* browser, ends the session; a user who comes back gets a new one.        *)
(*                                                                         *)
(* A share is known here by one name; in the code the download page names  *)
(* it by its uuid, the created and edit pages by its edit uuid.            *)
(***************************************************************************)
EXTENDS Integers, FiniteSets, Sequences

CONSTANTS
    Sessions, Shares,
    NoShare,           \* what a malformed or unknown uuid names
    Passwords,         \* what users type: an empty field is refused unread (setMandatory)
    NoPassword,
    Password,          \* Password[s]: the password of share s
    EmptyString,       \* an empty string in a list
    NotAString,        \* an element of another type in a list of strings
    UploadSetting,     \* upload-passwords: a list
    HideCreateLinks    \* show-create-links-on-download is false

ASSUME PagesAssumption ==
    /\ NoShare \notin Shares /\ NoPassword \notin Passwords
    /\ Password \in [Shares -> Passwords \cup {NoPassword}]
    /\ NotAString \notin Passwords /\ EmptyString \notin Passwords \cup {NotAString}
    /\ UploadSetting \in Seq(Passwords \cup {EmptyString, NotAString})
    /\ HideCreateLinks \in BOOLEAN

VARIABLES
    state,       \* of each share: "absent", "live", "expired" or "gone"
    running,     \* the sessions that exist
    path,        \* the internal path of each session: [page, share]
    front,       \* the widget in front of the stack
    menu,        \* whether the menu has a link to the creation page
    verified,    \* _isPasswordVerified
    create,      \* what the four pages of each session show
    created,
    download,
    edit,
    given,       \* history: the upload passwords each session has given
    removers     \* history: the sessions told that they removed a share

shown   == <<create, created, download, edit>>
screen  == <<running, path, front, menu>>
vars    == <<state, screen, verified, shown, given, removers>>
-----------------------------------------------------------------------------
Show(k, s)  == [kind |-> k, share |-> s, password |-> NoPassword]
Empty       == Show("empty", NoShare)
NotFound    == Show("not found", NoShare)

At(page, s) == [page |-> page, share |-> s]

Default == At("create", NoShare)

Paths == [page : {"create", "tos", "unknown"}, share : {NoShare}]
    \cup [page : {"created", "download", "edit"}, share : Shares \cup {NoShare}]

\* handlePathChange: a path without a page leads to the default path.
Landing(p) == IF p.page = "unknown" THEN Default ELSE p

\* getShareDesc, shareHasPassword and destroyShare throw ShareNotFound otherwise.
IsFound(s) == s \in Shares /\ state[s] = "live"

\* Config::visitStrings gives up at the first element that is not a string.
UploadPasswords ==
    {UploadSetting[i] : i \in {k \in DOMAIN UploadSetting :
                                \A j \in 1..k : UploadSetting[j] # NotAString}}

\* isUploadPassordRequired: empty strings do not count.
Required == UploadPasswords \ {EmptyString} # {}

\* The pages read the store as they are filled: after what the same step did to it.

\* Only a verified session, or one that needs no password, sees the form.
CreatePage(c, p) ==
    IF p.page # "create" THEN Empty
    ELSE IF ~verified[c] /\ Required THEN Show("password", NoShare)
    ELSE Show("form", NoShare)

CreatedPage(c, p) ==
    IF p.page # "created" THEN Empty
    ELSE IF IsFound(p.share)' THEN Show("links", p.share) ELSE NotFound

\* Bug: every share is looked up as one without a password.
DownloadPageOpen(c, p) ==
    IF p.page # "download" THEN Empty
    ELSE IF ~IsFound(p.share)' THEN NotFound
    ELSE IF Password[p.share] # NoPassword THEN NotFound ELSE Show("link", p.share)

DownloadPage(c, p) ==
    IF p.page # "download" THEN Empty
    ELSE IF ~IsFound(p.share)' THEN NotFound
    ELSE Show(IF Password[p.share] = NoPassword THEN "link" ELSE "password", p.share)

\* Bug: the page is not cleared when the path leaves it.
EditPageKept(c, p) ==
    IF p.page # "edit" THEN edit[c]
    ELSE IF IsFound(p.share)' THEN Show("details", p.share) ELSE NotFound

EditPage(c, p) ==
    IF p.page # "edit" THEN Empty
    ELSE IF IsFound(p.share)' THEN Show("details", p.share) ELSE NotFound

\* updateMenuVisibility
MenuFor(c, p) == ~(HideCreateLinks /\ p.page = "download")

NoPage == [c \in Sessions |-> Empty]

Init ==
    /\ state = [s \in Shares |-> "absent"]
    /\ running = {}
    /\ path = [c \in Sessions |-> Default]
    /\ front = [c \in Sessions |-> "create"]
    /\ menu = [c \in Sessions |-> TRUE]
    /\ verified = [c \in Sessions |-> FALSE]
    /\ create = NoPage /\ created = NoPage /\ download = NoPage /\ edit = NoPage
    /\ given = [c \in Sessions |-> {}]
    /\ removers = [s \in Shares |-> {}]
-----------------------------------------------------------------------------
\* The handlers of internalPathChanged: the pages, then the stack.
ChangePath(c, p) ==
    /\ path' = [path EXCEPT ![c] = p]
    /\ create' = [create EXCEPT ![c] = CreatePage(c, p)]
    /\ created' = [created EXCEPT ![c] = CreatedPage(c, p)]
    /\ download' = [download EXCEPT ![c] = DownloadPage(c, p)]
    /\ edit' = [edit EXCEPT ![c] = EditPage(c, p)]
    /\ menu' = [menu EXCEPT ![c] = MenuFor(c, p)]
    /\ front' = [front EXCEPT ![c] = p.page]

\* Only the uuid of a share that was created names one.
Exists(p) == p.share # NoShare => state[p.share] # "absent"

\* initialize: the pages look at the path the session starts with.
Open(c, p) ==
    /\ c \notin running /\ Exists(p)
    /\ UNCHANGED <<state, verified, given, removers>>
    /\ running' = running \cup {c}
    /\ ChangePath(c, Landing(p))

\* Bug: the password is verified once and for all.
EndVerified(c) ==
    /\ c \in running
    /\ running' = running \ {c}
    /\ path' = [path EXCEPT ![c] = Default] /\ front' = [front EXCEPT ![c] = "create"]
    /\ menu' = [menu EXCEPT ![c] = TRUE]
    /\ create' = [create EXCEPT ![c] = Empty] /\ created' = [created EXCEPT ![c] = Empty]
    /\ download' = [download EXCEPT ![c] = Empty] /\ edit' = [edit EXCEPT ![c] = Empty]
    /\ given' = [given EXCEPT ![c] = {}]
    /\ UNCHANGED <<state, verified, removers>>

\* The session ends, and nothing of it is kept.
End(c) ==
    /\ c \in running
    /\ running' = running \ {c}
    /\ path' = [path EXCEPT ![c] = Default] /\ front' = [front EXCEPT ![c] = "create"]
    /\ menu' = [menu EXCEPT ![c] = TRUE]
    /\ create' = [create EXCEPT ![c] = Empty] /\ created' = [created EXCEPT ![c] = Empty]
    /\ download' = [download EXCEPT ![c] = Empty] /\ edit' = [edit EXCEPT ![c] = Empty]
    /\ verified' = [verified EXCEPT ![c] = FALSE]
    /\ given' = [given EXCEPT ![c] = {}]
    /\ UNCHANGED <<state, removers>>

\* The user follows a link or edits the address.
Navigate(c, p) ==
    /\ c \in running /\ Exists(p)
    /\ UNCHANGED <<state, running, verified, given, removers>>
    /\ ChangePath(c, Landing(p))

\* ShareCreatePassword
GiveUploadPassword(c, w) ==
    /\ create[c].kind = "password"
    /\ given' = [given EXCEPT ![c] = @ \cup {w}]
    /\ IF w \in UploadPasswords
       THEN /\ verified' = [verified EXCEPT ![c] = TRUE]
            /\ create' = [create EXCEPT ![c] = Show("form", NoShare)]
       ELSE UNCHANGED <<verified, create>>
    /\ UNCHANGED <<state, screen, created, download, edit, removers>>

\* The form is complete: the share is created and the path names its new page, which
\* runs the handlers of all pages.  The creation page is cleared again after them; the
\* handler has left nothing there.  The share may be removed before its page is filled.
CompleteForm(c, s) ==
    /\ create[c].kind = "form" /\ state[s] = "absent"
    /\ state' \in {[state EXCEPT ![s] = now] : now \in {"live", "gone"}}
    /\ ChangePath(c, At("created", s))
    /\ UNCHANGED <<running, verified, given, removers>>

\* Bug: the page links with what was typed even if it does not open the share.
GiveDownloadPasswordAny(c, w) ==
    /\ download[c].kind = "password"
    /\ download' = [download EXCEPT ![c] =
          IF IsFound(@.share)
          THEN [kind |-> "link", share |-> @.share, password |-> w]
          ELSE @]
    /\ UNCHANGED <<state, screen, verified, create, created, edit, given, removers>>

\* ShareDownloadPassword: a wrong password, and any one for a share that is no
\* longer found, leave the page as it is.
GiveDownloadPassword(c, w) ==
    /\ download[c].kind = "password"
    /\ download' = [download EXCEPT ![c] =
          IF IsFound(@.share) /\ w = Password[@.share]
          THEN [kind |-> "link", share |-> @.share, password |-> w]
          ELSE @]
    /\ UNCHANGED <<state, screen, verified, create, created, edit, given, removers>>

\* The delete button asks.
ClickDelete(c) ==
    /\ edit[c].kind = "details"
    /\ edit' = [edit EXCEPT ![c] = Show("confirm", @.share)]
    /\ UNCHANGED <<state, screen, verified, create, created, download, given, removers>>

Decline(c) ==
    /\ edit[c].kind = "confirm"
    /\ edit' = [edit EXCEPT ![c] = Show("details", @.share)]
    /\ UNCHANGED <<state, screen, verified, create, created, download, given, removers>>

\* Bug: the share on display is removed, or was.
ConfirmUnchecked(c) ==
    /\ edit[c].kind = "confirm"
    /\ state' = [state EXCEPT ![edit[c].share] = "gone"]
    /\ edit' = [edit EXCEPT ![c] = Show("removed", NoShare)]
    /\ removers' = [removers EXCEPT ![edit[c].share] = @ \cup {c}]
    /\ UNCHANGED <<screen, verified, create, created, download, given>>

\* destroyShare, or "not found" if the share is not there any more or has expired.
Confirm(c) ==
    /\ edit[c].kind = "confirm"
    /\ LET s == edit[c].share
       IN  IF IsFound(s)
           THEN /\ state' = [state EXCEPT ![s] = "gone"]
                /\ edit' = [edit EXCEPT ![c] = Show("removed", NoShare)]
                /\ removers' = [removers EXCEPT ![s] = @ \cup {c}]
           ELSE edit' = [edit EXCEPT ![c] = NotFound] /\ UNCHANGED <<state, removers>>
    /\ UNCHANGED <<screen, verified, create, created, download, given>>

\* Time, the cleaner, and fileshelter-cmd.
Lapse(s) ==
    /\ \/ state[s] = "live" /\ state' = [state EXCEPT ![s] = "expired"]
       \/ state[s] \in {"live", "expired"} /\ state' = [state EXCEPT ![s] = "gone"]
    /\ UNCHANGED <<screen, verified, shown, given, removers>>

Next ==
    \/ \E c \in Sessions :
          \/ \E p \in Paths : Open(c, p) \/ Navigate(c, p)
          \/ End(c)
          \/ \E w \in Passwords : GiveUploadPassword(c, w) \/ GiveDownloadPassword(c, w)
          \/ \E s \in Shares : CompleteForm(c, s)
          \/ ClickDelete(c) \/ Decline(c) \/ Confirm(c)
    \/ \E s \in Shares : Lapse(s)

Spec == Init /\ [][Next]_vars
-----------------------------------------------------------------------------
\* Pages of these kinds show a share, or none.
Of(kinds)   == [kind : kinds, share : Shares, password : Passwords \cup {NoPassword}]
None(kinds) == [kind : kinds \cup {"empty"}, share : {NoShare}, password : {NoPassword}]

TypeOK ==
    /\ state \in [Shares -> {"absent", "live", "expired", "gone"}]
    /\ running \subseteq Sessions
    /\ path \in [Sessions -> Paths] /\ front \in [Sessions -> {p.page : p \in Paths}]
    /\ menu \in [Sessions -> BOOLEAN]
    /\ verified \in [Sessions -> BOOLEAN]
    /\ create \in [Sessions -> None({"password", "form"})]
    /\ created \in [Sessions -> Of({"links"}) \cup None({"not found"})]
    /\ download \in [Sessions -> Of({"password", "link"}) \cup None({"not found"})]
    /\ edit \in [Sessions -> Of({"details", "confirm"}) \cup None({"removed", "not found"})]
    /\ given \in [Sessions -> SUBSET Passwords]
    /\ removers \in [Shares -> SUBSET Sessions]

\* The creation form is only shown to a session that has itself given one of the
\* upload passwords, if there are any, wherever it went in the meantime.
FormGated ==
    \A c \in Sessions :
        create[c].kind = "form" /\ Required => given[c] \cap UploadPasswords # {}

\* A download link shown carries the password of its share: it works as long as the
\* share can be downloaded, and nobody has seen it without the password.
LinkOpens ==
    \A c \in Sessions :
        download[c].kind = "link" => download[c].password = Password[download[c].share]

\* The screen is the one of the path, whatever was navigated, created, confirmed or
\* typed before: its page is in front, all others are empty, also of the uploads of a
\* share that was created; the share it shows, or asks to confirm the removal of, is
\* the one of the path; and the link to the creation page is missing only where the
\* setting wants it.
ScreenFollowsPath ==
    \A c \in running :
        LET pages == [create |-> create[c], created |-> created[c],
                      download |-> download[c], edit |-> edit[c]]
        IN  /\ front[c] = path[c].page
            /\ \A page \in DOMAIN pages :
                  /\ page = path[c].page <=> pages[page] # Empty
                  /\ pages[page].share # NoShare => pages[page].share = path[c].share
            /\ ~menu[c] <=> HideCreateLinks /\ path[c].page = "download"

\* "Not found" is never said of a share that can be downloaded.
NotFoundIsTrue ==
    \A c \in Sessions :
        NotFound \in {created[c], download[c], edit[c]} => ~IsFound(path[c].share)

\* Of the sessions that have the same share on their edit page, one is told that it
\* removed the share, the others that there is none; and the share is gone.
OneRemover ==
    \A s \in Shares :
        /\ Cardinality(removers[s]) <= 1
        /\ removers[s] # {} => state[s] = "gone"
=============================================================================
