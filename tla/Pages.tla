-------------------------------- MODULE Pages --------------------------------
(***************************************************************************)
(* The pages of apps/web and the API they call: which role a route shows a *)
(* page to, the queries the page reads, the writes it offers and what each *)
(* does to the query cache once it is answered; and which role the API     *)
(* answers.  There is one player p, with one round r, one course c with a  *)
(* tee t, and one day of PCC.                                              *)
(*                                                                         *)
(* Queries do not depend on each other, so a behaviour follows one of them *)
(* (watched) from page to page.  The cache is TanStack Query's with the    *)
(* defaults App.tsx gives it: a query is fetched when a page mounts it, on *)
(* focus and when it is invalidated, and a fetch under way is shared,      *)
(* except that an invalidation replaces it when there is data already.     *)
(***************************************************************************)
EXTENDS Naturals, FiniteSets, SequencesExt

CONSTANT MaxWrites   \* bound on the writes under way at once

Users    == {"none", "player", "admin", "super_admin"}   \* the page's token: nobody's, or of a role
SignedIn == {"player", "admin", "super_admin"}
Admins   == {"admin", "super_admin"}
SuperAdmins == {"super_admin"}

-----------------------------------------------------------------------------
(* The API: who is answered, what an answer tells, and what a write changes *)

Answers(key, roles, parts) == [key |-> key, for |-> roles, tells |-> parts]
Writes(roles, parts) == [for |-> roles, changes |-> parts]

(* A player's routes answer the player (authorizeForPlayer) and an admin.  *)
RoundQuery   == Answers(<<"rounds", "r">>, SignedIn, {"rounds"})
PlayerRounds == Answers(<<"players", "p", "rounds">>, SignedIn, {"rounds", "courses", "handicap"})

PendingRounds == Answers(<<"admin", "rounds", "pending">>, Admins, {"rounds", "accounts", "courses"})
AllRounds     == Answers(<<"admin", "rounds">>, Admins, {"rounds", "accounts", "courses"})
RoundsOfDay   == Answers(<<"admin", "rounds", "day">>, Admins, {"rounds", "accounts"})

OwnProfile    == Answers(<<"players", "me">>, SignedIn, {"accounts", "handicap"})
PlayerProfile == Answers(<<"players", "p">>, SignedIn, {"accounts", "handicap"})

PlayerDashboard == Answers(<<"dashboard", "player">>, SignedIn, {"rounds", "handicap", "courses", "settings"})
AdminDashboard  == Answers(<<"dashboard", "admin">>, Admins, {"rounds", "accounts", "courses", "settings"})

CourseList   == Answers(<<"courses">>, Users, {"courses"})
CourseQuery  == Answers(<<"courses", "c">>, Users, {"courses"})
TeeQuery     == Answers(<<"tee-configurations", "t">>, Users, {"courses"})
AccountQuery == Answers(<<"auth", "me">>, SignedIn, {"accounts"})

SelfRegistration == Answers(<<"auth", "self-registration-enabled">>, Users, {"settings"})

(* The link of an activation mail: the page posts its token as a query.    *)
ActivationQuery == Answers(<<"auth", "activate", "token">>, Users, {})

UserList   == Answers(<<"admin", "users">>, Admins, {"accounts"})
PlayerList == Answers(<<"admin", "users", "players">>, Admins, {"accounts"})

SettingsQuery == Answers(<<"admin", "settings">>, Admins, {"settings"})
PccQuery      == Answers(<<"admin", "pcc", "t">>, Admins, {"pcc"})
AuditQuery    == Answers(<<"admin", "login-attempts">>, Admins, {"attempts"})

Queries ==
  {RoundQuery, PlayerRounds, PendingRounds, AllRounds, RoundsOfDay, OwnProfile, PlayerProfile,
   PlayerDashboard, AdminDashboard, CourseList, CourseQuery, TeeQuery, AccountQuery,
   SelfRegistration, ActivationQuery, UserList, PlayerList, SettingsQuery, PccQuery, AuditQuery}

PostRound      == Writes(SignedIn, {"rounds"})
AddHoleScore   == Writes(SignedIn, {"rounds"})
SubmitRound    == Writes(SignedIn, {"rounds", "handicap"})
PlayedAt       == Writes(SignedIn, {"rounds"})
Remarks        == Writes(SignedIn, {"rounds"})
RoundStatus    == Writes(Admins, {"rounds", "handicap"})     \* approve, reject
DeleteRound    == Writes(SignedIn, {"rounds", "handicap"})
SetDailyPcc    == Writes(Admins, {"pcc", "rounds", "handicap"})
UserWrite      == Writes(Admins, {"accounts"})               \* create a player, update, status, delete
RoleWrite      == Writes(SuperAdmins, {"accounts"})          \* create an administrator, change a role
CourseWrite    == Writes(Admins, {"courses"})                \* create, update, delete; a tee is created
TeeWrite       == Writes(Admins, {"courses"})                \* update, delete
SettingWrite   == Writes(Admins, {"settings"})
ChangePassword == Writes(SignedIn, {})
Register       == Writes(Users, {"accounts"})
MailRequest    == Writes(Users, {})                          \* an activation or a reset, asked for or confirmed

-----------------------------------------------------------------------------
(* The pages *)

Here == "here"

(* What an answered write does: the queries it invalidates, by the start   *)
(* of their keys, those it removes, and the page it goes to.               *)
Then(stale, drop, to) == [stale |-> stale, drop |-> drop, to |-> to]
Refresh(stale) == Then(stale, {}, Here)
Does(op, then) == [op |-> op, then |-> then]

(* show: the roles the route shows the page to; reads: the queries it      *)
(* mounts; aside: those of which it uses an id or a name only; does: its   *)
(* writes.                                                                 *)
Page(show, reads, does) == [show |-> show, reads |-> reads, aside |-> {}, does |-> does]

LoginPage == Page({"none"}, {SelfRegistration}, {})
RegisterPage == Page({"none"}, {SelfRegistration}, {Does(Register, Refresh({}))})

(* The pages of the links in mails are shown to everybody.                 *)
ActivationPage == Page(Users, {ActivationQuery}, {Does(MailRequest, Refresh({}))})
ForgotPasswordPage == Page(Users, {}, {Does(MailRequest, Refresh({}))})
ResetPasswordPage == Page(Users, {}, {Does(MailRequest, Refresh({}))})
PlayerDashboardPage == Page({"player"}, {PlayerDashboard}, {})
AdminDashboardPage == Page(Admins, {AdminDashboard}, {})
ProfilePage == Page(SignedIn, {AccountQuery}, {Does(ChangePassword, Refresh({}))})

MyRoundsPage ==
  [Page(SignedIn, {OwnProfile, PlayerRounds},
        {Does(DeleteRound, Then({<<"players", "p", "rounds">>}, {RoundQuery}, Here))})
   EXCEPT !.aside = {OwnProfile}]

NewRoundPage(user) ==
  Page(SignedIn,
       {CourseList, CourseQuery,
        IF user \in Admins THEN PlayerList ELSE OwnProfile},
       {Does(PostRound, Then({<<"players", "p", "rounds">>}, {}, "roundEntry"))})

RoundEntryPage ==
  Page(SignedIn, {RoundQuery, TeeQuery},
       {Does(SubmitRound, Then({<<"rounds", "r">>, <<"players">>}, {}, "home")),
        Does(AddHoleScore, Refresh({<<"rounds", "r">>})),
        Does(PlayedAt, Refresh({<<"rounds", "r">>}))})

(* Of its list of rounds this page shows the name of the course.           *)
RoundDetailsPage ==
  [Page(SignedIn, {RoundQuery, TeeQuery, PlayerRounds},
        {Does(PlayedAt, Refresh({<<"rounds", "r">>})),
         Does(Remarks, Refresh({<<"rounds", "r">>}))})
   EXCEPT !.aside = {PlayerRounds}]

AdminRoundReviewPage ==
  [Page(Admins, {RoundQuery, PlayerProfile, TeeQuery},
        {Does(RoundStatus, Then({<<"rounds", "r">>, <<"admin", "rounds">>}, {}, "pendingQueue")),
         Does(DeleteRound, Then({<<"admin", "rounds">>}, {RoundQuery}, "roundsList")),
         Does(Remarks, Refresh({<<"rounds", "r">>}))})
   EXCEPT !.aside = {PlayerProfile}]

AdminRoundsListPage ==
  Page(Admins, {AllRounds},
       {Does(DeleteRound, Then({<<"admin", "rounds">>}, {RoundQuery}, Here))})

AdminPendingQueuePage == Page(Admins, {PendingRounds}, {})

\* Mutant: a changed PCC leaves the day's rounds as the page has them.
DailyPccPageKeepsRounds ==
  Page(Admins, {CourseList, CourseQuery, PccQuery, RoundsOfDay},
       {Does(SetDailyPcc, Refresh({<<"admin", "pcc", "t">>}))})

DailyPccPage ==
  Page(Admins, {CourseList, CourseQuery, PccQuery, RoundsOfDay},
       {Does(SetDailyPcc, Refresh({<<"admin", "pcc", "t">>, <<"admin", "rounds">>}))})

(* The field for a role is rendered for a super_admin only, and to send a  *)
(* role is a write that the API grants to nobody else.                     *)
AccountWrites(user) == IF user \in SuperAdmins THEN {UserWrite, RoleWrite} ELSE {UserWrite}

\* Mutant: the edit dialog renders the role for whoever opens it.
AdminAccountsPageWithRoles(user) ==
  Page(Admins, {UserList},
       {Does(op, Refresh({<<"admin", "users">>})) : op \in {UserWrite, RoleWrite}})

AdminAccountsPage(user) ==
  Page(Admins, {UserList},
       {Does(op, Refresh({<<"admin", "users">>})) : op \in AccountWrites(user)})

AdminCreateUserPage(user) == Page(Admins, {}, {Does(op, Refresh({})) : op \in AccountWrites(user)})
AdminSettingsPage == Page(Admins, {SettingsQuery}, {Does(SettingWrite, Refresh({<<"admin", "settings">>}))})
AdminLoginAttemptsPage == Page(Admins, {AuditQuery}, {})

CourseListPage == Page(SignedIn, {CourseList}, {})
CreateCoursePage == Page(Admins, {}, {Does(CourseWrite, Then({}, {}, "course"))})

(* The forms of a course are an administrator's.                           *)
TeeConfigurationsSection ==
  {Does(op, Refresh({<<"courses", "c">>, <<"courses">>})) : op \in {CourseWrite, TeeWrite}}
CourseEditForm == Does(CourseWrite, Refresh({<<"courses", "c">>, <<"courses">>}))
CourseDetailPage(user) ==
  Page(SignedIn, {CourseQuery},
       IF user \in Admins
       THEN TeeConfigurationsSection \cup {CourseEditForm, Does(CourseWrite, Then({<<"courses">>}, {}, "courses"))}
       ELSE {})

(* HomeRoute shows one of two pages.                                       *)
HomeRoute(user) == IF user = "player" THEN PlayerDashboardPage ELSE [AdminDashboardPage EXCEPT !.show = SignedIn]

AppRoutes == [user \in Users |->
  [login |-> LoginPage, register |-> RegisterPage, activate |-> ActivationPage,
   forgotPassword |-> ForgotPasswordPage, resetPassword |-> ResetPasswordPage, home |-> HomeRoute(user), profile |-> ProfilePage,
   courses |-> CourseListPage, course |-> CourseDetailPage(user), rounds |-> MyRoundsPage,
   newRound |-> NewRoundPage(user), roundEntry |-> RoundEntryPage, roundDetails |-> RoundDetailsPage,
   accounts |-> AdminAccountsPage(user), createUser |-> AdminCreateUserPage(user), createCourse |-> CreateCoursePage,
   pendingQueue |-> AdminPendingQueuePage, roundsList |-> AdminRoundsListPage,
   review |-> AdminRoundReviewPage, pcc |-> DailyPccPage, settings |-> AdminSettingsPage,
   audit |-> AdminLoginAttemptsPage]]

PageNames == DOMAIN AppRoutes["none"]

-----------------------------------------------------------------------------
VARIABLES
  watched,   \* the query this behaviour follows
  user,      \* whose token the page holds
  changed,   \* history: the token's role, or its owner, has changed
  screen,    \* the page on the screen
  mounted,   \* whether it has mounted the watched query
  data,      \* the query's data: "none", "current", or "behind" a write of this page's
  asking,    \* its fetch: "idle", "sent", or the data it brings
  writes,    \* the writes under way
  unsure,    \* history: a fetch was shared, an answer lost, or a page left before its write's answer
  denied     \* history: a role was refused although it had not changed

pageVars == <<watched, user, changed, screen, mounted, data, asking, writes, unsure, denied>>

Now == AppRoutes[user]

(* RequireAuth, RequireAdmin and RedirectIfAuthenticated.                  *)
Landing(page, u) ==
  IF u \in AppRoutes[u][page].show THEN page ELSE IF u = "none" THEN "login" ELSE "home"

PagesInit ==
  /\ watched \in Queries
  /\ user \in Users /\ changed = FALSE
  /\ screen = Landing("home", user) /\ mounted = FALSE
  /\ data = "none" /\ asking = "idle" /\ writes = {}
  /\ unsure = FALSE /\ denied = FALSE

Elsewhere(ws) == {[w EXCEPT !.here = FALSE] : w \in ws}
LeftBehind(ws) == \E w \in ws : ~ w.here

Show(page, u) ==
  /\ screen' = Landing(page, u)
  /\ mounted' = FALSE

(* What a write means for a query: whether it hits the answer, and whether  *)
(* its own answer makes the query stale or drops it.                       *)
Effect(query, w) ==
  [for   |-> w.op.for,
   hits  |-> w.op.changes \cap query.tells # {},
   stale |-> \E start \in w.then.stale : IsPrefix(start, query.key),
   drops |-> query \in w.then.drop,
   to    |-> w.then.to]

(* The writes of a page that have to do with a query.                      *)
EffectsOn(query, page) ==
  {e \in {Effect(query, w) : w \in page.does} : e.hits \/ e.stale \/ e.drops}

(* The pages that have to do with the watched query, and the profile's for *)
(* all others.                                                             *)
Matters ==
  LET routes == Now IN
  {page \in PageNames : /\ user \in routes[page].show
                        /\ \/ page = "profile" \/ watched \in routes[page].reads
                           \/ EffectsOn(watched, routes[page]) # {}}

Visit(page) ==
  /\ page # screen
  /\ Show(page, user)
  /\ writes' = Elsewhere(writes)
  /\ UNCHANGED <<watched, user, changed, data, asking, unsure, denied>>

Refetch == asking' = "sent" /\ unsure' = LeftBehind(writes')

(* useQuery, at once or when what the key is made of is known.             *)
Mount ==
  /\ ~ mounted /\ watched \in Now[screen].reads
  /\ mounted' = TRUE
  /\ UNCHANGED writes
  /\ IF asking = "idle" THEN Refetch ELSE unsure' = TRUE /\ UNCHANGED asking
  /\ UNCHANGED <<watched, user, changed, screen, data, denied>>

Refocus ==
  /\ mounted /\ asking = "idle"
  /\ UNCHANGED writes /\ Refetch
  /\ UNCHANGED <<watched, user, changed, screen, mounted, data, denied>>

(* requireAuth, then requireRole or authorizeForPlayer: nobody's token is  *)
(* refused with a 401, which is the session's end and not a denial.        *)
Refused(roles) ==
  /\ user \notin roles
  /\ denied' = (denied \/ (user # "none" /\ ~ changed))

(* A refused fetch leaves the data that is there.                          *)
ServeQuery ==
  /\ asking = "sent"
  /\ \/ user \in watched.for /\ asking' = "current" /\ UNCHANGED denied
     \/ Refused(watched.for) /\ asking' = "idle"
  /\ UNCHANGED <<watched, user, changed, screen, mounted, data, writes, unsure>>

QueryAnswers ==
  /\ asking \in {"current", "behind"}
  /\ data' = asking /\ asking' = "idle"
  /\ UNCHANGED <<watched, user, changed, screen, mounted, writes, unsure, denied>>

(* A page starts no write while one of an earlier page is under way (a     *)
(* bound).                                                                 *)
Write(effect) ==
  /\ Cardinality(writes) < MaxWrites /\ ~ LeftBehind(writes)
  /\ LET w == [effect |-> effect, done |-> FALSE, here |-> TRUE] IN
     w \notin writes /\ writes' = writes \cup {w}
  /\ UNCHANGED <<watched, user, changed, screen, mounted, data, asking, unsure, denied>>

MadeOld(d) == IF d = "current" THEN "behind" ELSE d

ServeWrite(w) ==
  /\ ~ w.done
  /\ \/ /\ user \in w.effect.for
        /\ writes' = (writes \ {w}) \cup {[w EXCEPT !.done = TRUE]}
        /\ IF w.effect.hits THEN data' = MadeOld(data) /\ asking' = MadeOld(asking)
           ELSE UNCHANGED <<data, asking>>
        /\ UNCHANGED denied
     \/ Refused(w.effect.for) /\ UNCHANGED <<writes, data, asking>>
  /\ UNCHANGED <<watched, user, changed, screen, mounted, unsure>>

(* onSuccess runs, and navigates, whatever page is on the screen by then.  *)
WriteAnswered(w) ==
  /\ w.done
  /\ LET left == writes \ {w}
         moves == w.effect.to # Here /\ Landing(w.effect.to, user) # screen
     IN IF moves THEN Show(w.effect.to, user) /\ writes' = Elsewhere(left)
        ELSE UNCHANGED screen /\ mounted' = (mounted /\ ~ w.effect.drops) /\ writes' = left
  /\ CASE w.effect.drops -> data' = "none" /\ asking' = "idle" /\ UNCHANGED unsure
       [] w.effect.stale /\ mounted /\ ~ w.effect.drops ->
            /\ IF asking = "idle" \/ data # "none" THEN Refetch ELSE unsure' = TRUE /\ UNCHANGED asking
            /\ UNCHANGED data
       [] OTHER -> UNCHANGED <<data, asking, unsure>>
  /\ UNCHANGED <<watched, user, changed, denied>>

WriteFails(w) ==
  /\ writes' = writes \ {w}
  /\ unsure' = (unsure \/ w.done)
  /\ UNCHANGED <<watched, user, changed, screen, mounted, data, asking, denied>>

(* A login; then one logout, or an exchange of the token for one of        *)
(* another role (a bound).                                                 *)
RoleChanges(u) ==
  /\ u # user /\ ~ changed
  /\ user' = u /\ changed' = (user # "none")
  /\ IF user = "none" \/ u = "none" THEN Show(IF u = "none" THEN "login" ELSE "home", u)
     ELSE Show(screen, u)
  /\ writes' = Elsewhere(writes)
  /\ UNCHANGED <<watched, data, asking, unsure, denied>>

PagesNext ==
  \/ \E page \in Matters : Visit(page)
  \/ Mount \/ Refocus \/ ServeQuery \/ QueryAnswers
  \/ \E effect \in EffectsOn(watched, Now[screen]) : Write(effect)
  \/ \E w \in writes : ServeWrite(w) \/ WriteAnswered(w) \/ WriteFails(w)
  \/ \E u \in Users : RoleChanges(u)

PagesSpec == PagesInit /\ [][PagesNext]_pageVars

-----------------------------------------------------------------------------
(* Once everything is answered, a page shows what its own writes changed:  *)
(* each of them invalidates every query of the page whose answer it        *)
(* changes, under a key the query has.  Excepted are pages left before the *)
(* answer, answers that were lost, and fetches that were shared.           *)
OwnWritesAreShown ==
  asking = "idle" /\ writes = {} /\ mounted /\ ~ unsure
    => data # "behind" \/ watched \in Now[screen].aside

(* The routes and the pages ask of the API what it grants: only a token    *)
(* that has changed since the page was loaded is ever refused for its role.*)
PagesAskWhatTheyMay == ~ denied

-----------------------------------------------------------------------------
(* What the two properties rest on.                                        *)

(* What is granted to nobody's token is granted to every one, so that a    *)
(* login does not take it away.                                            *)
Granted(u, roles) == u \in roles /\ (u = "none" => roles = Users)

EffectType == [for : SUBSET Users, hits : BOOLEAN, stale : BOOLEAN, drops : BOOLEAN,
               to : PageNames \cup {Here}]
WriteType == [effect : EffectType, done : BOOLEAN, here : BOOLEAN]

PagesTypeOK ==
  /\ watched \in Queries /\ user \in Users /\ screen \in PageNames
  /\ data \in {"none", "current", "behind"} /\ asking \in {"idle", "sent", "current", "behind"}
  /\ writes \in SUBSET WriteType
  /\ changed \in BOOLEAN /\ mounted \in BOOLEAN /\ unsure \in BOOLEAN /\ denied \in BOOLEAN

(* The page on the screen is one its user is shown, and reads what it has  *)
(* mounted; the writes that are its own are among those it offers.         *)
ScreenInv ==
  /\ user \in Now[screen].show
  /\ mounted => watched \in Now[screen].reads
  /\ mounted /\ ~ unsure => ~ LeftBehind(writes)
  /\ \A w \in writes : w.here => w.effect \in EffectsOn(watched, Now[screen])

(* While the token's role has not changed, all that is under way is granted.*)
GrantedInv ==
  /\ ~ denied
  /\ ~ changed /\ asking = "sent" => Granted(user, watched.for)
  /\ ~ changed => \A w \in writes : Granted(user, w.effect.for)

(* A query that is, or will be, behind a write of its page is put right by *)
(* the answer of a write.                                                  *)
Behind == asking = "behind" \/ (asking = "idle" /\ data = "behind")

BehindInv ==
  mounted /\ ~ unsure /\ watched \notin Now[screen].aside /\ Behind
    => \E w \in writes : w.done /\ (w.effect.stale \/ w.effect.drops)

PagesInv == PagesTypeOK /\ ScreenInv /\ GrantedInv /\ BehindInv
=============================================================================
