---------------------------- MODULE PagesProofs ----------------------------
(* Theorems about Pages, for any sessions, shares, passwords and settings. *)
EXTENDS Pages, FiniteSetTheorems, TLAPS

\* A verified session has given an upload password, and a form is only there for a
\* verified one.
Gate ==
    \A c \in Sessions :
        /\ verified[c] => given[c] \cap UploadPasswords # {}
        /\ create[c].kind = "form" /\ Required => verified[c]

\* A share has been removed by one session at most, and then it is gone.
Removals ==
    \A s \in Shares :
        /\ removers[s] = {} \/ \E c \in Sessions : removers[s] = {c}
        /\ removers[s] # {} => state[s] = "gone"

GateInv == TypeOK /\ Gate /\ LinkOpens /\ Removals

LEMMA LandingIsPath == \A p \in Paths : Landing(p) \in Paths
BY DEF Landing, Paths, Default, At

\* What the pages show is of their types.
LEMMA PageTypes ==
    ASSUME TypeOK, NEW c \in Sessions, NEW p \in Paths
    PROVE  /\ CreatePage(c, p) \in None({"password", "form"})
           /\ CreatedPage(c, p) \in Of({"links"}) \cup None({"not found"})
           /\ DownloadPage(c, p) \in Of({"password", "link"}) \cup None({"not found"})
           /\ EditPage(c, p) \in Of({"details", "confirm"}) \cup None({"removed", "not found"})
<1>1. CreatePage(c, p) \in None({"password", "form"})
  BY DEF CreatePage, None, Empty, Show
<1>2. CreatedPage(c, p) \in Of({"links"}) \cup None({"not found"})
  BY DEF CreatedPage, Of, None, Empty, NotFound, Show, IsFound
<1>3. DownloadPage(c, p) \in Of({"password", "link"}) \cup None({"not found"})
  BY DEF DownloadPage, Of, None, Empty, NotFound, Show, IsFound
<1>4. EditPage(c, p) \in Of({"details", "confirm"}) \cup None({"removed", "not found"})
  BY DEF EditPage, Of, None, Empty, NotFound, Show, IsFound
<1> QED BY <1>1, <1>2, <1>3, <1>4

\* The handlers of a change of the path keep the types.
LEMMA ChangePathTypes ==
    ASSUME TypeOK, NEW c \in Sessions, NEW p \in Paths, ChangePath(c, p)
    PROVE  /\ path' \in [Sessions -> Paths] /\ front' \in [Sessions -> {q.page : q \in Paths}]
           /\ menu' \in [Sessions -> BOOLEAN]
           /\ create' \in [Sessions -> None({"password", "form"})]
           /\ created' \in [Sessions -> Of({"links"}) \cup None({"not found"})]
           /\ download' \in [Sessions -> Of({"password", "link"}) \cup None({"not found"})]
           /\ edit' \in [Sessions -> Of({"details", "confirm"}) \cup None({"removed", "not found"})]
<1>1. MenuFor(c, p) \in BOOLEAN /\ p.page \in {q.page : q \in Paths}
  BY DEF MenuFor
<1>2. path' \in [Sessions -> Paths] /\ front' \in [Sessions -> {q.page : q \in Paths}]
  BY <1>1 DEF TypeOK, ChangePath
<1>3. menu' \in [Sessions -> BOOLEAN]
  BY <1>1 DEF TypeOK, ChangePath
<1>4. create' \in [Sessions -> None({"password", "form"})]
  BY PageTypes DEF TypeOK, ChangePath
<1>5. created' \in [Sessions -> Of({"links"}) \cup None({"not found"})]
  BY PageTypes DEF TypeOK, ChangePath
<1>6. download' \in [Sessions -> Of({"password", "link"}) \cup None({"not found"})]
  BY PageTypes DEF TypeOK, ChangePath
<1>7. edit' \in [Sessions -> Of({"details", "confirm"}) \cup None({"removed", "not found"})]
  BY PageTypes DEF TypeOK, ChangePath
<1> QED BY <1>2, <1>3, <1>4, <1>5, <1>6, <1>7

\* A change of the path shows a form, or a link without a password, only where it may.
LEMMA ChangePathGates ==
    ASSUME GateInv, NEW c \in Sessions, NEW p \in Paths, ChangePath(c, p),
           UNCHANGED <<verified, given>>
    PROVE  Gate' /\ LinkOpens'
<1>1. /\ CreatePage(c, p).kind = "form" /\ Required => verified[c]
      /\ DownloadPage(c, p).kind = "link" =>
            DownloadPage(c, p).password = Password[DownloadPage(c, p).share]
  BY DEF CreatePage, DownloadPage, Empty, NotFound, Show
<1>2. Gate'
  BY <1>1 DEF GateInv, Gate, ChangePath, TypeOK, Required, UploadPasswords
<1>3. LinkOpens'
  BY <1>1 DEF GateInv, LinkOpens, ChangePath, TypeOK
<1> QED BY <1>2, <1>3

\* The sessions that were told of a removal are at most one.
LEMMA OneOrNone ==
    ASSUME Removals
    PROVE  OneRemover
<1> SUFFICES ASSUME NEW s \in Shares
             PROVE  Cardinality(removers[s]) <= 1 /\ (removers[s] # {} => state[s] = "gone")
  BY DEF OneRemover
<1>1. CASE removers[s] = {}
  BY <1>1, FS_EmptySet
<1>2. CASE \E c \in Sessions : removers[s] = {c}
  <2>1. PICK c \in Sessions : removers[s] = {c}
    BY <1>2
  <2>2. Cardinality(removers[s]) = 1
    BY <2>1, FS_Singleton
  <2> QED BY <2>2 DEF Removals
<1> QED BY <1>1, <1>2 DEF Removals

LEMMA InitGates == Init => GateInv
<1> SUFFICES ASSUME Init
             PROVE  GateInv
  OBVIOUS
<1>1. TypeOK
  BY DEF Init, TypeOK, Default, At, Paths, NoPage, Empty, Show, None, Of
<1>2. Gate /\ LinkOpens
  BY DEF Init, Gate, LinkOpens, NoPage, Empty, Show
<1>3. Removals
  BY DEF Init, Removals
<1> QED BY <1>1, <1>2, <1>3 DEF GateInv

\* A session starts, and follows a path.
LEMMA OpenGates ==
    ASSUME GateInv, NEW c \in Sessions, NEW p \in Paths, Open(c, p) \/ Navigate(c, p)
    PROVE  GateInv'
<1>1. ChangePath(c, Landing(p)) /\ UNCHANGED <<state, verified, given, removers>>
  BY DEF Open, Navigate
<1>2. Landing(p) \in Paths
  BY LandingIsPath
<1>3. TypeOK'
  <2>1. running' \in SUBSET Sessions
    BY DEF Open, Navigate, GateInv, TypeOK
  <2> QED BY <1>1, <1>2, <2>1, ChangePathTypes DEF GateInv, TypeOK
<1>4. Gate' /\ LinkOpens'
  BY <1>1, <1>2, ChangePathGates
<1>5. Removals'
  BY <1>1 DEF GateInv, Removals
<1> QED BY <1>3, <1>4, <1>5 DEF GateInv

\* A session ends, with all it has verified.
LEMMA EndGates ==
    ASSUME GateInv, NEW c \in Sessions, End(c)
    PROVE  GateInv'
<1>1. TypeOK'
  <2>1. Default \in Paths /\ Default.page = "create"
    BY DEF Default, At, Paths
  <2>2. "create" \in {p.page : p \in Paths}
    BY <2>1
  <2>3. /\ Empty \in None({"password", "form"}) /\ Empty \in None({"not found"})
        /\ Empty \in None({"removed", "not found"})
    BY DEF Empty, Show, None
  <2>4. /\ path' \in [Sessions -> Paths] /\ front' \in [Sessions -> {p.page : p \in Paths}]
        /\ menu' \in [Sessions -> BOOLEAN] /\ running' \in SUBSET Sessions
        /\ verified' \in [Sessions -> BOOLEAN] /\ given' \in [Sessions -> SUBSET Passwords]
    BY <2>1, <2>2 DEF GateInv, TypeOK, End
  <2>5. /\ create' \in [Sessions -> None({"password", "form"})]
        /\ created' \in [Sessions -> Of({"links"}) \cup None({"not found"})]
        /\ download' \in [Sessions -> Of({"password", "link"}) \cup None({"not found"})]
        /\ edit' \in [Sessions -> Of({"details", "confirm"}) \cup None({"removed", "not found"})]
    BY <2>3 DEF GateInv, TypeOK, End
  <2> QED BY <2>4, <2>5 DEF GateInv, TypeOK, End
<1>2. Gate'
  BY DEF GateInv, Gate, TypeOK, End, Empty, Show, UploadPasswords, Required
<1>3. LinkOpens'
  BY DEF GateInv, LinkOpens, TypeOK, End, Empty, Show
<1>4. Removals'
  BY DEF GateInv, Removals, End
<1> QED BY <1>1, <1>2, <1>3, <1>4 DEF GateInv

\* The form appears with the password that is given.
LEMMA UploadPasswordGates ==
    ASSUME GateInv, NEW c \in Sessions, NEW w \in Passwords, GiveUploadPassword(c, w)
    PROVE  GateInv'
<1>1. TypeOK'
  <2>1. Show("form", NoShare) \in None({"password", "form"})
    BY DEF Show, None
  <2>2. /\ create' \in [Sessions -> None({"password", "form"})]
        /\ verified' \in [Sessions -> BOOLEAN]
    BY <2>1 DEF GateInv, TypeOK, GiveUploadPassword
  <2>3. given' \in [Sessions -> SUBSET Passwords]
    BY DEF GateInv, TypeOK, GiveUploadPassword
  <2> QED BY <2>2, <2>3 DEF GateInv, TypeOK, GiveUploadPassword, screen
<1>2. Gate'
  BY DEF GateInv, Gate, TypeOK, GiveUploadPassword, Show, UploadPasswords, Required
<1>3. LinkOpens' /\ Removals'
  BY DEF GateInv, LinkOpens, Removals, GiveUploadPassword
<1> QED BY <1>1, <1>2, <1>3 DEF GateInv

LEMMA CompleteFormGates ==
    ASSUME GateInv, NEW c \in Sessions, NEW s \in Shares, CompleteForm(c, s)
    PROVE  GateInv'
<1> DEFINE q == At("created", s)
<1>1. q \in Paths /\ ChangePath(c, q) /\ UNCHANGED <<running, verified, given, removers>>
  BY DEF At, Paths, CompleteForm
<1>2. TypeOK'
  <2>1. state' \in [Shares -> {"absent", "live", "expired", "gone"}]
    BY DEF GateInv, TypeOK, CompleteForm
  <2> QED BY <1>1, <2>1, ChangePathTypes DEF GateInv, TypeOK
<1>3. Gate' /\ LinkOpens'
  BY <1>1, ChangePathGates
<1>4. Removals'
  BY DEF GateInv, Removals, TypeOK, CompleteForm
<1> QED BY <1>2, <1>3, <1>4 DEF GateInv

LEMMA DownloadPasswordGates ==
    ASSUME GateInv, NEW c \in Sessions, NEW w \in Passwords, GiveDownloadPassword(c, w)
    PROVE  GateInv'
<1>1. TypeOK'
  <2>1. download[c].share \in Shares /\ download[c] \in Of({"password", "link"})
    BY DEF GateInv, TypeOK, GiveDownloadPassword, Of, None
  <2>2. download' \in [Sessions -> Of({"password", "link"}) \cup None({"not found"})]
    BY <2>1 DEF GateInv, TypeOK, GiveDownloadPassword, Of
  <2> QED BY <2>2 DEF GateInv, TypeOK, GiveDownloadPassword, screen
<1>2. Gate' /\ Removals'
  BY DEF GateInv, Gate, Removals, GiveDownloadPassword, UploadPasswords, Required
<1>3. LinkOpens'
  BY DEF GateInv, LinkOpens, TypeOK, GiveDownloadPassword
<1> QED BY <1>1, <1>2, <1>3 DEF GateInv

\* The edit page asks, and is told not to.
LEMMA AskGates ==
    ASSUME GateInv, NEW c \in Sessions, ClickDelete(c) \/ Decline(c)
    PROVE  GateInv'
<1>1. edit[c].share \in Shares
  BY DEF GateInv, TypeOK, ClickDelete, Decline, Of, None
<1>2. edit' \in [Sessions -> Of({"details", "confirm"}) \cup None({"removed", "not found"})]
  <2>1. \A k \in {"details", "confirm"} : Show(k, edit[c].share) \in Of({"details", "confirm"})
    BY <1>1 DEF Show, Of
  <2>2. edit' \in {[edit EXCEPT ![c] = Show(k, edit[c].share)] : k \in {"details", "confirm"}}
    BY DEF GateInv, TypeOK, ClickDelete, Decline
  <2> QED BY <2>1, <2>2 DEF GateInv, TypeOK
<1>3. TypeOK'
  BY <1>2 DEF GateInv, TypeOK, ClickDelete, Decline, screen
<1>4. Gate' /\ LinkOpens' /\ Removals'
  BY DEF GateInv, Gate, LinkOpens, Removals, ClickDelete, Decline, UploadPasswords, Required
<1> QED BY <1>3, <1>4 DEF GateInv

\* Who removes a share finds it live: nobody has removed it before.
LEMMA ConfirmGates ==
    ASSUME GateInv, NEW c \in Sessions, Confirm(c)
    PROVE  GateInv'
<1> DEFINE s == edit[c].share
<1>1. s \in Shares
  BY DEF GateInv, TypeOK, Confirm, Of, None
<1>2. edit' \in [Sessions -> Of({"details", "confirm"}) \cup None({"removed", "not found"})]
  <2>1. Show("removed", NoShare) \in None({"removed", "not found"})
    BY DEF Show, None
  <2>2. NotFound \in None({"removed", "not found"})
    BY DEF Show, NotFound, None
  <2>3. \E page \in None({"removed", "not found"}) : edit' = [edit EXCEPT ![c] = page]
    BY <2>1, <2>2 DEF Confirm
  <2> QED BY <2>3 DEF GateInv, TypeOK
<1>3. /\ state' \in [Shares -> {"absent", "live", "expired", "gone"}]
      /\ removers' \in [Shares -> SUBSET Sessions]
  <2>1. /\ state' \in {state, [state EXCEPT ![s] = "gone"]}
        /\ removers' \in {removers, [removers EXCEPT ![s] = removers[s] \cup {c}]}
    BY DEF Confirm
  <2>2. [state EXCEPT ![s] = "gone"] \in [Shares -> {"absent", "live", "expired", "gone"}]
    BY DEF GateInv, TypeOK
  <2>3. removers[s] \cup {c} \in SUBSET Sessions
    BY <1>1 DEF GateInv, TypeOK
  <2>4. [removers EXCEPT ![s] = removers[s] \cup {c}] \in [Shares -> SUBSET Sessions]
    BY <2>3 DEF GateInv, TypeOK
  <2> QED BY <2>1, <2>2, <2>4 DEF GateInv, TypeOK
<1>4. TypeOK'
  BY <1>2, <1>3 DEF GateInv, TypeOK, Confirm, screen
<1>5. Gate' /\ LinkOpens'
  BY DEF GateInv, Gate, LinkOpens, Confirm, UploadPasswords, Required
<1>6. Removals'
  <2>1. CASE IsFound(s)
    <3>1. /\ state' = [state EXCEPT ![s] = "gone"]
          /\ removers' = [removers EXCEPT ![s] = @ \cup {c}]
      BY <2>1 DEF Confirm
    <3>2. removers[s] = {}
      BY <1>1, <2>1 DEF GateInv, Removals, IsFound
    <3>3. removers'[s] = {c} /\ state'[s] = "gone"
      BY <1>1, <3>1, <3>2 DEF GateInv, TypeOK
    <3>4. \A t \in Shares \ {s} : removers'[t] = removers[t] /\ state'[t] = state[t]
      BY <3>1 DEF GateInv, TypeOK
    <3> QED BY <1>1, <3>3, <3>4 DEF GateInv, Removals
  <2>2. CASE ~IsFound(s)
    BY <2>2 DEF Confirm, GateInv, Removals
  <2> QED BY <2>1, <2>2
<1> QED BY <1>4, <1>5, <1>6 DEF GateInv

LEMMA LapseGates ==
    ASSUME GateInv, NEW s \in Shares, Lapse(s)
    PROVE  GateInv'
<1>1. TypeOK'
  BY DEF GateInv, TypeOK, Lapse, screen, shown
<1>2. Gate' /\ LinkOpens'
  BY DEF GateInv, Gate, LinkOpens, Lapse, shown, UploadPasswords, Required
<1>3. Removals'
  BY DEF GateInv, Removals, TypeOK, Lapse
<1> QED BY <1>1, <1>2, <1>3 DEF GateInv

\* The inductive invariant of the pages.
THEOREM PagesInvariant == Spec => []GateInv
<1>1. GateInv /\ [Next]_vars => GateInv'
  <2> SUFFICES ASSUME GateInv, [Next]_vars
               PROVE  GateInv'
    OBVIOUS
  <2>1. CASE UNCHANGED vars
    <3>1. TypeOK'
      BY <2>1 DEF GateInv, TypeOK, vars, screen, shown
    <3>2. Gate' /\ LinkOpens' /\ Removals'
      BY <2>1 DEF GateInv, Gate, LinkOpens, Removals, vars, screen, shown,
                  UploadPasswords, Required
    <3> QED BY <3>1, <3>2 DEF GateInv
  <2>2. CASE Next
    BY <2>2, OpenGates, EndGates, UploadPasswordGates, CompleteFormGates,
       DownloadPasswordGates, AskGates, ConfirmGates, LapseGates DEF Next
  <2> QED BY <2>1, <2>2
<1> QED BY <1>1, InitGates, PTL DEF Spec

THEOREM PagesTyped == Spec => []TypeOK
<1>1. GateInv => TypeOK
  BY DEF GateInv
<1> QED BY <1>1, PagesInvariant, PTL

\* The creation form is only shown to who has given an upload password.
THEOREM UploadsAreGated == Spec => []FormGated
<1>1. GateInv => FormGated
  BY DEF GateInv, Gate, FormGated
<1> QED BY <1>1, PagesInvariant, PTL

\* A link on display carries the password of its share.
THEOREM LinksOpen == Spec => []LinkOpens
<1>1. GateInv => LinkOpens
  BY DEF GateInv
<1> QED BY <1>1, PagesInvariant, PTL

\* One session at most is told that it removed a share.
THEOREM OneSessionRemoves == Spec => []OneRemover
<1>1. GateInv => OneRemover
  BY OneOrNone DEF GateInv
<1> QED BY <1>1, PagesInvariant, PTL
-----------------------------------------------------------------------------
\* What ScreenFollowsPath says of a session, page by page.
Screen(c) ==
    /\ front[c] = path[c].page
    /\ path[c].page = "create" <=> create[c] # Empty
    /\ path[c].page = "created" <=> created[c] # Empty
    /\ path[c].page = "download" <=> download[c] # Empty
    /\ path[c].page = "edit" <=> edit[c] # Empty
    /\ create[c].share # NoShare => create[c].share = path[c].share
    /\ created[c].share # NoShare => created[c].share = path[c].share
    /\ download[c].share # NoShare => download[c].share = path[c].share
    /\ edit[c].share # NoShare => edit[c].share = path[c].share
    /\ ~menu[c] <=> HideCreateLinks /\ path[c].page = "download"

\* A session that has ended shows nothing; a path names no share that is not there yet,
\* so a share that is not found stays so.
Sound(c) ==
    /\ c \in running => Screen(c)
    /\ c \notin running => {create[c], created[c], download[c], edit[c]} = {Empty}
    /\ path[c].share \in Shares => state[path[c].share] # "absent"
    /\ NotFound \in {created[c], download[c], edit[c]} => ~IsFound(path[c].share)

Screens == \A c \in Sessions : Sound(c)

\* Shares only age.
Ages ==
    \A s \in Shares :
        state[s] # "absent" => state'[s] # "absent" /\ (state'[s] = "live" => state[s] = "live")

LEMMA ShowFacts ==
    /\ Empty.kind = "empty" /\ NotFound.kind = "not found"
    /\ Empty.share = NoShare /\ NotFound.share = NoShare /\ Empty # NotFound
    /\ \A k, s : Show(k, s).kind = k /\ Show(k, s).share = s
<1>1. \A k, s : Show(k, s).kind = k /\ Show(k, s).share = s
  BY DEF Show
<1>2. Empty.kind = "empty" /\ NotFound.kind = "not found"
  BY <1>1 DEF Empty, NotFound
<1>3. Empty.share = NoShare /\ NotFound.share = NoShare
  BY <1>1 DEF Empty, NotFound
<1> QED BY <1>1, <1>2, <1>3

\* A page of this kind is neither empty nor "not found".
Shows(k, s) == Show(k, s) # Empty /\ Show(k, s) # NotFound /\ Show(k, s).share = s

LEMMA SharesShown ==
    ASSUME NEW s,
           NEW k \in {"form", "links", "link", "password", "details", "confirm", "removed"}
    PROVE  Shows(k, s)
<1>1. Show(k, s).kind = k /\ Show(k, s).share = s
  BY ShowFacts
<1> QED BY <1>1, ShowFacts DEF Shows

LEMMA ScreensSuffice ==
    ASSUME TypeOK, Screens
    PROVE  ScreenFollowsPath /\ NotFoundIsTrue
<1>1. ScreenFollowsPath
  <2> SUFFICES ASSUME NEW c \in running
               PROVE  LET pages == [create |-> create[c], created |-> created[c],
                                    download |-> download[c], edit |-> edit[c]]
                      IN  /\ front[c] = path[c].page
                          /\ \A page \in DOMAIN pages :
                                /\ page = path[c].page <=> pages[page] # Empty
                                /\ pages[page].share # NoShare =>
                                      pages[page].share = path[c].share
                          /\ ~menu[c] <=> HideCreateLinks /\ path[c].page = "download"
    BY DEF ScreenFollowsPath
  <2>1. Screen(c)
    BY DEF Screens, Sound, TypeOK
  <2> QED BY <2>1 DEF Screen
<1>2. NotFoundIsTrue
  BY DEF Screens, Sound, NotFoundIsTrue
<1> QED BY <1>1, <1>2

\* A step of one session leaves the screens of the others alone.
LEMMA OthersSound ==
    ASSUME TypeOK, Ages, NEW d \in Sessions, Sound(d),
           d \in running' <=> d \in running,
           path'[d] = path[d], front'[d] = front[d], menu'[d] = menu[d],
           create'[d] = create[d], created'[d] = created[d],
           download'[d] = download[d], edit'[d] = edit[d]
    PROVE  Sound(d)'
<1>1. Screen(d) => Screen(d)'
  BY DEF Screen, Empty, Show
<1>2. path[d].share \in Shares => state'[path[d].share] # "absent"
  BY DEF Ages, Sound
<1>3. IsFound(path[d].share)' => IsFound(path[d].share)
  BY DEF Ages, Sound, IsFound
<1> QED BY <1>1, <1>2, <1>3 DEF Sound, Empty, NotFound, Show

LEMMA InitSound == Init => Screens
<1> SUFFICES ASSUME Init, NEW c \in Sessions
             PROVE  Sound(c)
  BY DEF Screens
<1>1. path[c].share = NoShare /\ c \notin running
  BY DEF Init, Default, At
<1>2. create[c] = Empty /\ created[c] = Empty /\ download[c] = Empty /\ edit[c] = Empty
  BY DEF Init, NoPage
<1>3. NoShare \notin Shares
  BY PagesAssumption
<1>4. NotFound # Empty
  BY ShowFacts
<1>5. NotFound \notin {create[c], created[c], download[c], edit[c]}
  BY <1>2, <1>4
<1> QED BY <1>1, <1>2, <1>3, <1>5 DEF Sound

\* The page of the path is filled from the store, the others are emptied.
LEMMA ChangePathSound ==
    ASSUME TypeOK, NEW c \in Sessions, NEW p \in Paths, Exists(p)', ChangePath(c, p),
           p.page # "unknown", c \in running'
    PROVE  Sound(c)'
<1>1. /\ path'[c] = p /\ front'[c] = p.page /\ menu'[c] = MenuFor(c, p)
      /\ create'[c] = CreatePage(c, p) /\ created'[c] = CreatedPage(c, p)
      /\ download'[c] = DownloadPage(c, p) /\ edit'[c] = EditPage(c, p)
  BY DEF TypeOK, ChangePath
<1>2. p.page \in {"create", "tos", "created", "download", "edit"}
  BY DEF Paths
<1>3. /\ p.page = "create" <=> create'[c] # Empty
      /\ create'[c].share # NoShare => create'[c].share = p.share
  BY <1>1 DEF CreatePage, Empty, Show
<1>4. /\ p.page = "created" <=> created'[c] # Empty
      /\ created'[c].share # NoShare => created'[c].share = p.share
      /\ created'[c] = NotFound => ~IsFound(p.share)'
  <2>1. CASE p.page # "created"
    BY <1>1, <2>1, ShowFacts DEF CreatedPage
  <2>2. CASE p.page = "created" /\ ~IsFound(p.share)'
    BY <1>1, <2>2, ShowFacts DEF CreatedPage
  <2>3. CASE p.page = "created" /\ IsFound(p.share)'
    <3>1. /\ Shows("links", p.share)
      BY SharesShown
    <3> QED BY <1>1, <2>3, <3>1 DEF CreatedPage, Shows
  <2> QED BY <2>1, <2>2, <2>3
<1>5. /\ p.page = "download" <=> download'[c] # Empty
      /\ download'[c].share # NoShare => download'[c].share = p.share
      /\ download'[c] = NotFound => ~IsFound(p.share)'
  <2>1. CASE p.page # "download"
    BY <1>1, <2>1, ShowFacts DEF DownloadPage
  <2>2. CASE p.page = "download" /\ ~IsFound(p.share)'
    BY <1>1, <2>2, ShowFacts DEF DownloadPage
  <2>3. CASE p.page = "download" /\ IsFound(p.share)'
    <3>1. /\ Shows("link", p.share)
          /\ Shows("password", p.share)
      BY SharesShown
    <3> QED BY <1>1, <2>3, <3>1 DEF DownloadPage, Shows
  <2> QED BY <2>1, <2>2, <2>3
<1>6. /\ p.page = "edit" <=> edit'[c] # Empty
      /\ edit'[c].share # NoShare => edit'[c].share = p.share
      /\ edit'[c] = NotFound => ~IsFound(p.share)'
  <2>1. CASE p.page # "edit"
    BY <1>1, <2>1, ShowFacts DEF EditPage
  <2>2. CASE p.page = "edit" /\ ~IsFound(p.share)'
    BY <1>1, <2>2, ShowFacts DEF EditPage
  <2>3. CASE p.page = "edit" /\ IsFound(p.share)'
    <3>1. /\ Shows("details", p.share)
      BY SharesShown
    <3> QED BY <1>1, <2>3, <3>1 DEF EditPage, Shows
  <2> QED BY <2>1, <2>2, <2>3
<1>7. Screen(c)'
  BY <1>1, <1>3, <1>4, <1>5, <1>6 DEF Screen, MenuFor
<1>8. p.share \in Shares => state'[p.share] # "absent"
  BY PagesAssumption DEF Exists
<1>9. NotFound \in {created'[c], download'[c], edit'[c]} => ~IsFound(p.share)'
  BY <1>4, <1>5, <1>6
<1> QED BY <1>1, <1>7, <1>8, <1>9, ShowFacts DEF Sound, Empty, NotFound, Show

LEMMA OpenSound ==
    ASSUME TypeOK, Screens, NEW c \in Sessions, NEW p \in Paths, Open(c, p) \/ Navigate(c, p)
    PROVE  Screens'
<1> DEFINE q == Landing(p)
<1>1. /\ ChangePath(c, q) /\ UNCHANGED state /\ c \in running'
      /\ running' = running \/ running' = running \cup {c}
  BY DEF Open, Navigate
<1>2. q \in Paths /\ q.page # "unknown" /\ Exists(q)'
  BY DEF Landing, Default, At, Paths, Exists, Open, Navigate
<1>3. Sound(c)'
  BY <1>1, <1>2, ChangePathSound
<1>4. ASSUME NEW d \in Sessions \ {c}
      PROVE  Sound(d)'
  <2>1. Ages /\ (d \in running' <=> d \in running)
    BY <1>1 DEF Ages
  <2>2. /\ path'[d] = path[d] /\ front'[d] = front[d] /\ menu'[d] = menu[d]
        /\ create'[d] = create[d] /\ created'[d] = created[d]
        /\ download'[d] = download[d] /\ edit'[d] = edit[d]
    BY <1>1 DEF TypeOK, ChangePath
  <2> QED BY <2>1, <2>2, OthersSound DEF Screens
<1> QED BY <1>3, <1>4 DEF Screens

LEMMA EndSound ==
    ASSUME TypeOK, Screens, NEW c \in Sessions, End(c)
    PROVE  Screens'
<1>1. Sound(c)'
  <2>1. /\ path'[c].share = NoShare /\ c \notin running'
        /\ create'[c] = Empty /\ created'[c] = Empty
        /\ download'[c] = Empty /\ edit'[c] = Empty
    BY DEF TypeOK, End, Default, At
  <2>2. NotFound # Empty
    BY ShowFacts
  <2> QED BY <2>1, <2>2, PagesAssumption DEF Sound, Empty, NotFound, Show
<1>2. ASSUME NEW d \in Sessions \ {c}
      PROVE  Sound(d)'
  <2>1. Ages /\ (d \in running' <=> d \in running)
    BY DEF Ages, End
  <2>2. /\ path'[d] = path[d] /\ front'[d] = front[d] /\ menu'[d] = menu[d]
        /\ create'[d] = create[d] /\ created'[d] = created[d]
        /\ download'[d] = download[d] /\ edit'[d] = edit[d]
    BY DEF TypeOK, End
  <2> QED BY <2>1, <2>2, OthersSound DEF Screens
<1> QED BY <1>1, <1>2 DEF Screens

\* The steps that change what one session shows: the others' screens are theirs.
LEMMA OneScreen ==
    ASSUME TypeOK, Screens, Ages, NEW c \in Sessions, Sound(c)', running' = running,
           \A d \in Sessions \ {c} :
               /\ path'[d] = path[d] /\ front'[d] = front[d] /\ menu'[d] = menu[d]
               /\ create'[d] = create[d] /\ created'[d] = created[d]
               /\ download'[d] = download[d] /\ edit'[d] = edit[d]
    PROVE  Screens'
<1>1. ASSUME NEW d \in Sessions \ {c}
      PROVE  Sound(d)'
  BY OthersSound DEF Screens
<1> QED BY <1>1 DEF Screens

LEMMA UploadPasswordSound ==
    ASSUME TypeOK, Screens, NEW c \in Sessions, NEW w \in Passwords, GiveUploadPassword(c, w)
    PROVE  Screens'
<1>1. create[c].kind = "password" /\ create[c] # Empty /\ Sound(c)
  BY ShowFacts DEF GiveUploadPassword, Screens, Empty, Show
<1>2. c \in running /\ Screen(c)
  BY <1>1 DEF Sound
<1>3. \/ create'[c] = create[c]
      \/ create'[c] # Empty /\ create'[c].share = NoShare
  <2>1. Shows("form", NoShare)
    BY SharesShown
  <2> QED BY <2>1 DEF TypeOK, GiveUploadPassword, Shows
<1>4. UNCHANGED <<state, running, path, front, menu, created, download, edit>>
  BY DEF GiveUploadPassword, screen
<1>5. Screen(c)'
  BY <1>1, <1>2, <1>3, <1>4 DEF Screen, Empty, Show
<1>6. Sound(c)'
  BY <1>1, <1>2, <1>4, <1>5 DEF Sound, IsFound, NotFound, Show
<1>7. Ages
  BY <1>4 DEF Ages
<1>8. \A d \in Sessions \ {c} : create'[d] = create[d]
  BY DEF TypeOK, GiveUploadPassword
<1> QED BY <1>4, <1>6, <1>7, <1>8, OneScreen

LEMMA CompleteFormSound ==
    ASSUME TypeOK, Screens, NEW c \in Sessions, NEW s \in Shares, CompleteForm(c, s)
    PROVE  Screens'
<1> DEFINE q == At("created", s)
<1>1. create[c] # Empty /\ Sound(c)
  BY ShowFacts DEF CompleteForm, Screens, Empty, Show
<1>2. c \in running' /\ running' = running
  BY <1>1 DEF Sound, CompleteForm
<1>3. q \in Paths /\ q.page # "unknown" /\ q.share = s /\ ChangePath(c, q)
  BY DEF At, Paths, CompleteForm
<1>4. state'[s] \in {"live", "gone"}
  BY DEF TypeOK, CompleteForm
<1>5. Sound(c)'
  <2>1. Exists(q)'
    BY <1>3, <1>4 DEF Exists
  <2> HIDE DEF q
  <2> QED BY <1>2, <1>3, <2>1, ChangePathSound
<1>6. Ages
  BY <1>4 DEF Ages, TypeOK, CompleteForm
<1>7. \A d \in Sessions \ {c} :
          /\ path'[d] = path[d] /\ front'[d] = front[d] /\ menu'[d] = menu[d]
          /\ create'[d] = create[d] /\ created'[d] = created[d]
          /\ download'[d] = download[d] /\ edit'[d] = edit[d]
  BY <1>3 DEF TypeOK, ChangePath
<1> QED BY <1>2, <1>5, <1>6, <1>7, OneScreen

LEMMA DownloadPasswordSound ==
    ASSUME TypeOK, Screens, NEW c \in Sessions, NEW w \in Passwords, GiveDownloadPassword(c, w)
    PROVE  Screens'
<1>1. download[c].kind = "password" /\ download[c] # Empty /\ Sound(c)
  BY ShowFacts DEF GiveDownloadPassword, Screens, Empty, Show
<1>2. c \in running /\ Screen(c)
  BY <1>1 DEF Sound
<1>3. /\ download'[c].kind \in {"password", "link"}
      /\ download'[c].share = download[c].share
  BY <1>1 DEF TypeOK, GiveDownloadPassword
<1>4. download'[c] # Empty /\ download'[c] # NotFound
  BY <1>3, ShowFacts
<1>5. UNCHANGED <<state, running, path, front, menu, create, created, edit>>
  BY DEF GiveDownloadPassword, screen
<1>6. Screen(c)'
  BY <1>1, <1>2, <1>3, <1>4, <1>5 DEF Screen, Empty, Show
<1>7. Sound(c)'
  BY <1>1, <1>2, <1>4, <1>5, <1>6 DEF Sound, IsFound, NotFound, Show
<1>8. Ages
  BY <1>5 DEF Ages
<1>9. \A d \in Sessions \ {c} : download'[d] = download[d]
  BY DEF TypeOK, GiveDownloadPassword
<1> QED BY <1>5, <1>7, <1>8, <1>9, OneScreen

\* The edit page keeps its share until it has removed it.
LEMMA EditSound ==
    ASSUME TypeOK, Screens, NEW c \in Sessions, ClickDelete(c) \/ Decline(c) \/ Confirm(c)
    PROVE  Screens'
<1>0. PICK s \in Shares : s = edit[c].share
  BY DEF TypeOK, ClickDelete, Decline, Confirm, Of, None
<1>1. edit[c].kind \in {"details", "confirm"} /\ Sound(c)
  BY DEF ClickDelete, Decline, Confirm, Screens
<1>2. edit[c] # Empty
  BY <1>1 DEF Empty, Show
<1>3. c \in running /\ Screen(c)
  BY <1>1, <1>2 DEF Sound
<1>4. UNCHANGED <<running, path, front, menu, create, created, download>>
  BY DEF ClickDelete, Decline, Confirm, screen
<1>5. Ages
  BY DEF Ages, TypeOK, ClickDelete, Decline, Confirm, IsFound
<1>6. \A d \in Sessions \ {c} : edit'[d] = edit[d]
  BY DEF TypeOK, ClickDelete, Decline, Confirm
<1>7. s = path[c].share
  BY <1>0, <1>3, PagesAssumption DEF Screen
<1>8. \/ edit'[c] \in {Show("details", s), Show("confirm", s), Show("removed", NoShare)}
      \/ edit'[c] = NotFound /\ ~IsFound(s) /\ state' = state
  BY <1>0 DEF TypeOK, ClickDelete, Decline, Confirm
<1>9. /\ edit'[c] # Empty /\ edit'[c].share \in {s, NoShare}
      /\ edit'[c] = NotFound => ~IsFound(s)'
  <2>1. CASE edit'[c] \in {Show("details", s), Show("confirm", s), Show("removed", NoShare)}
    <3>1. /\ Shows("details", s)
          /\ Shows("confirm", s)
          /\ Shows("removed", NoShare)
      BY SharesShown
    <3> QED BY <2>1, <3>1 DEF Shows
  <2>2. CASE edit'[c] = NotFound /\ ~IsFound(s) /\ state' = state
    <3>1. ~IsFound(s)'
      BY <2>2 DEF IsFound
    <3>2. edit'[c] # Empty /\ edit'[c].share = NoShare
      BY <2>2, ShowFacts
    <3> QED BY <3>1, <3>2
  <2> QED BY <1>8, <2>1, <2>2
<1>10. Screen(c)'
  BY <1>2, <1>3, <1>4, <1>7, <1>9 DEF Screen, Empty, Show
<1>11. Sound(c)'
  <2>1. created'[c] = Empty /\ download'[c] = Empty
    BY <1>2, <1>3, <1>4 DEF Screen
  <2>2. NotFound \in {created'[c], download'[c], edit'[c]} => ~IsFound(s)'
    BY <1>9, <2>1, ShowFacts
  <2>3. state'[s] # "absent"
    BY <1>1, <1>5, <1>7 DEF Sound, Ages
  <2> QED BY <1>3, <1>4, <1>7, <1>10, <2>2, <2>3 DEF Sound, NotFound, Show
<1> QED BY <1>4, <1>5, <1>6, <1>11, OneScreen

LEMMA LapseSound ==
    ASSUME TypeOK, Screens, NEW s \in Shares, Lapse(s)
    PROVE  Screens'
<1>1. Ages
  BY DEF Ages, TypeOK, Lapse
<1>2. UNCHANGED <<running, path, front, menu, create, created, download, edit>>
  BY DEF Lapse, screen, shown
<1>3. ASSUME NEW d \in Sessions
      PROVE  Sound(d)'
  BY <1>1, <1>2, OthersSound DEF Screens
<1> QED BY <1>3 DEF Screens

\* What every session shows, in every state.
THEOREM ScreensInvariant == Spec => []Screens
<1>1. TypeOK /\ Screens /\ [Next]_vars => Screens'
  <2> SUFFICES ASSUME TypeOK, Screens, [Next]_vars
               PROVE  Screens'
    OBVIOUS
  <2>1. CASE UNCHANGED vars
    <3>1. Ages
      BY <2>1 DEF Ages, vars
    <3>2. ASSUME NEW d \in Sessions
          PROVE  Sound(d)'
      BY <2>1, <3>1, OthersSound DEF Screens, vars, screen, shown
    <3> QED BY <3>2 DEF Screens
  <2>2. CASE Next
    BY <2>2, OpenSound, EndSound, UploadPasswordSound, CompleteFormSound,
       DownloadPasswordSound, EditSound, LapseSound DEF Next
  <2> QED BY <2>1, <2>2
<1> QED BY <1>1, InitSound, PagesTyped, PTL DEF Spec

\* The screen of every session is the one of its path.
THEOREM ScreensFollowPaths == Spec => []ScreenFollowsPath
<1>1. TypeOK /\ Screens => ScreenFollowsPath
  BY ScreensSuffice
<1> QED BY <1>1, PagesTyped, ScreensInvariant, PTL

\* No page denies a share that can be downloaded.
THEOREM NotFoundIsAlwaysTrue == Spec => []NotFoundIsTrue
<1>1. TypeOK /\ Screens => NotFoundIsTrue
  BY ScreensSuffice
<1> QED BY <1>1, PagesTyped, ScreensInvariant, PTL
=============================================================================
