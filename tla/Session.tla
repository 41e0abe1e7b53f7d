------------------------------ MODULE Session ------------------------------
(***************************************************************************)
(* The session of one browser tab: the token and the user it is shown as   *)
(* (AuthContext), the interceptors that refresh an expired token once for  *)
(* all the calls that ran into it (api/client), the login page with its    *)
(* second factor, forced two-factor set-up, reloads, and the routes.  A    *)
(* document's calls are lost when it is reloaded; what the server has done *)
(* for them is not.                                                        *)
(***************************************************************************)
EXTENDS Navigation, Naturals, FiniteSets

CONSTANTS
  PageCalls,      \* calls the pages may have under way
  Accounts,       \* what the user's row may be at first
  FeatureSets,    \* configurations of the server: sets of features
  Visits,         \* pages the user visits
  MaxExpiries,    \* bound: times the token or the cookie expires
  MaxChanges      \* bound: changes of the account

ASSUME SessionAssumption ==
  /\ PageCalls \cap {"me", "global"} = {}
  /\ Accounts \subseteq [role: Staff, alliance: BOOLEAN, mfa: BOOLEAN, key: BOOLEAN]
  /\ \A f \in FeatureSets : f \subseteq Features
  /\ Visits \subseteq Paths
  /\ MaxExpiries \in Nat /\ MaxChanges \in Nat

VARIABLES
  account,    \* the users row of the member of staff who uses the browser
  enabled,    \* the server's features
  token,      \* localStorage's token: its life, and the role it was issued for
  cookie,     \* whose refresh token the cookie holds
  leaving,    \* window.location is set: the document is about to go
  loading,    \* AuthContext is hydrating; nothing is rendered
  user, path,
  loaded,     \* AppContext has got the features
  calls,      \* calls[c]: the server's verdict on its way, or where the call waits
  retried,    \* calls whose config has _retry
  enabling,   \* page calls that set up the second factor
  refresh,    \* POST /refresh: idle (isRefreshing is false), or its verdict on the way
  form,       \* the login page: tab, step, hasWebAuthn, and the request it waits for
  expiries, changes

store == <<token, cookie>>
client == <<calls, retried, enabling, refresh>>
server == <<account, enabled, expiries, changes>>
vars == <<server, store, client, leaving, loading, user, path, loaded, form>>

Calls == {"me", "global"} \cup PageCalls
Verdicts == {"ok", "401", "refused"}       \* refused: any other error, or no answer
Account == [role: Staff, alliance: BOOLEAN, mfa: BOOLEAN, key: BOOLEAN]
NoToken == [life |-> "none", role |-> "none"]
EmptyForm == [tab |-> "player", step |-> 1, key |-> FALSE, wait |-> "none"]

TypeOK ==
  /\ account \in Account /\ enabled \in FeatureSets
  /\ token \in {NoToken} \cup [life: {"live", "expired"}, role: Staff \cup {"player"}]
  /\ cookie \in {"none", "staff", "player"}
  /\ leaving \in BOOLEAN /\ loading \in BOOLEAN /\ loaded \in BOOLEAN
  /\ user \in User \cup {NoUser}
  /\ path \in Paths \cup {"/login", "/404"}
  /\ calls \in [Calls -> Verdicts \cup {"idle", "queued", "waiting"}]
  /\ retried \subseteq Calls /\ enabling \subseteq PageCalls
  /\ refresh \in {"idle", "ok", "failed"}
  /\ form \in [tab: {"player", "staff"}, step: 1..2, key: BOOLEAN,
               wait: {"none", "player", "staff", "code", "begin", "finish"}]
  /\ expiries \in 0..MaxExpiries /\ changes \in 0..MaxChanges

-----------------------------------------------------------------------------
\* What the server will answer

\* AuthMiddleware, then the handler: /admin/auth/me is for the role admin only; a wrong old
\* password is a 401 too.  A page that is refused does what it does when it is answered.
VerdictOf(c, t, setup) ==
  IF t.life # "live" THEN {"401"}
  ELSE CASE c = "me" -> IF t.role = "admin" THEN {"ok", "refused"} ELSE {"refused"}
         [] c \in PageCalls -> {"ok", IF c \in setup THEN "refused" ELSE "401"}
         [] OTHER -> {"ok", "refused"}

\* Refresh looks the name in the cookie up among the staff.
RefreshVerdicts == IF cookie = "staff" THEN {"ok", "failed"} ELSE {"failed"}

\* The request interceptor, for several calls: each goes out with the token of now.
SendAll(cs, t, now) ==
  {[c \in Calls |-> IF c \in cs THEN v[c] ELSE now[c]] :
     v \in {v \in [cs -> Verdicts] : \A c \in cs : v[c] \in VerdictOf(c, t, enabling)}}

Quiet == [c \in Calls |-> "idle"]

-----------------------------------------------------------------------------
\* AuthContext and AppContext

StaffUser == [role |-> account.role, alliance |-> account.alliance, mfa |-> account.mfa]
PlayerUser == [NoUser EXCEPT !.role = "player"]

FeaturesNow == Copy(loaded, enabled)

\* setUser: AppContext fetches for a member of staff; the guards look at the route again.
SetUser(u, t, now, target) ==
  /\ user' = u
  /\ path' = Landing(u, FeaturesNow, target)
  /\ calls' \in IF u.role \in Staff THEN SendAll({"global"}, t, now) ELSE {now}

\* Mutation: the user stays on the screen.
LogoutOfStore(now, target) ==
  /\ token' = NoToken
  /\ user' = user /\ calls' = now /\ path' = Landing(user, FeaturesNow, target)

\* logout: what the server has of the session stays.
Logout(now, target) ==
  /\ token' = NoToken
  /\ SetUser(NoUser, NoToken, now, target)

\* A new document: hydrateSession looks at the token, and asks the server whose it is
\* unless it is a player's.
Load(target, t) ==
  /\ leaving' = FALSE /\ loaded' = FALSE
  /\ retried' = {} /\ enabling' = {} /\ refresh' = "idle" /\ form' = EmptyForm
  /\ CASE t.life # "live" ->
            /\ loading' = FALSE /\ token' = NoToken /\ user' = NoUser /\ calls' = Quiet
            /\ path' = Landing(NoUser, Copy(FALSE, enabled), target)
       [] t.life = "live" /\ t.role = "player" ->
            /\ loading' = FALSE /\ token' = t /\ user' = PlayerUser /\ calls' = Quiet
            /\ path' = Landing(PlayerUser, Copy(FALSE, enabled), target)
       [] OTHER ->
            /\ loading' = TRUE /\ token' = t /\ user' = NoUser /\ path' = target
            /\ calls' \in SendAll({"me"}, t, Quiet)

\* window.location.reload
Reload(target) ==
  /\ Load(target, token)
  /\ UNCHANGED <<server, cookie>>

\* The navigation to /login that a failed refresh starts.
Unload ==
  /\ leaving
  /\ Reload("/login")

\* What the caller of c does with its promise; now: the calls as they then stand.
Settle(c, ok, now) ==
  CASE c = "me" /\ ok ->
         /\ loading' = FALSE
         /\ SetUser(StaffUser, token, now, path)
         /\ UNCHANGED <<token, loaded, leaving, form, refresh>>
    [] c = "me" /\ ~ok ->
         /\ loading' = FALSE
         /\ Logout(now, path)
         /\ UNCHANGED <<loaded, leaving, form, refresh>>
    [] c = "global" /\ ok ->
         /\ loaded' = TRUE /\ calls' = now
         /\ path' = Landing(user, Copy(TRUE, enabled), path)
         /\ UNCHANGED <<token, user, loading, leaving, form, refresh>>
    [] OTHER ->
         /\ calls' = now
         /\ UNCHANGED <<token, user, path, loaded, loading, leaving, form, refresh>>

-----------------------------------------------------------------------------
\* The response interceptor

\* Mutation: the call is not marked.
AnswerUnmarked(c) ==
  /\ calls[c] \in Verdicts
  /\ \/ /\ calls[c] = "401"
        /\ IF refresh # "idle"
           THEN calls' = [calls EXCEPT ![c] = "queued"] /\ UNCHANGED refresh
           ELSE /\ calls' = [calls EXCEPT ![c] = "waiting"]
                /\ refresh' \in RefreshVerdicts
        /\ UNCHANGED <<server, store, retried, enabling, leaving, loading, user, path, loaded,
                       form>>
     \/ /\ calls[c] # "401"
        /\ ~(c \in enabling /\ calls[c] = "ok")
        /\ Settle(c, calls[c] = "ok", [calls EXCEPT ![c] = "idle"])
        /\ enabling' = enabling \ {c}
        /\ UNCHANGED <<server, cookie, retried>>
     \/ /\ c \in enabling /\ calls[c] = "ok"
        /\ Reload(path)

\* A 401 joins the queue of a refresh that is under way, or starts one, unless the call
\* has been through it; any other answer goes to the caller.  Enabling the second factor
\* ends in a reload.
Answer(c) ==
  /\ calls[c] \in Verdicts
  /\ \/ /\ calls[c] = "401" /\ c \notin retried
        /\ IF refresh # "idle"
           THEN calls' = [calls EXCEPT ![c] = "queued"] /\ UNCHANGED <<retried, refresh>>
           ELSE /\ calls' = [calls EXCEPT ![c] = "waiting"]
                /\ retried' = retried \cup {c}
                /\ refresh' \in RefreshVerdicts
        /\ UNCHANGED <<server, store, enabling, leaving, loading, user, path, loaded, form>>
     \/ /\ calls[c] # "401" \/ c \in retried
        /\ ~(c \in enabling /\ calls[c] = "ok")
        /\ Settle(c, calls[c] = "ok", [calls EXCEPT ![c] = "idle"])
        /\ retried' = retried \ {c} /\ enabling' = enabling \ {c}
        /\ UNCHANGED <<server, cookie>>
     \/ /\ c \in enabling /\ calls[c] = "ok"
        /\ Reload(path)

Waiting == {c \in Calls : calls[c] \in {"queued", "waiting"}}

\* The row once calls sent with token t have reached the server.  A player's name is not
\* among the users: for him the update is of no row, and a success.
Applied(now, t) ==
  [account EXCEPT !.mfa =
     @ \/ (t.role \in Staff /\ \E c \in enabling' : now[c] = "ok" /\ calls[c] \notin Verdicts)]

\* The refresh succeeds: the token is stored whoever is logged in by now, and every call
\* that waited goes out again.
RefreshDone ==
  /\ refresh = "ok"
  /\ token' = [life |-> "live", role |-> account.role]
  /\ enabling' = enabling
  /\ calls' \in SendAll(Waiting, token', calls)
  /\ account' = Applied(calls', token')
  /\ refresh' = "idle"
  /\ UNCHANGED <<enabled, expiries, changes, cookie, retried, leaving, loading, user,
                 path, loaded, form>>

\* Mutation: the calls in the queue are not told.
RefreshFailedAlone ==
  /\ refresh = "failed"
  /\ token' = NoToken
  /\ calls' = [c \in Calls |-> IF calls[c] = "waiting" THEN "idle" ELSE calls[c]]
  /\ retried' = {c \in retried : calls[c] # "waiting"}
  /\ leaving' = TRUE /\ loading' = FALSE /\ refresh' = "idle"
  /\ UNCHANGED <<server, cookie, enabling, user, path, loaded, form>>

\* It fails, for whatever reason: those calls are rejected, the token is dropped and the
\* document left.  (A hydration among them ends here too.)
RefreshFailed ==
  /\ refresh = "failed"
  /\ token' = NoToken
  /\ calls' = [c \in Calls |-> IF c \in Waiting THEN "idle" ELSE calls[c]]
  /\ retried' = retried \ Waiting /\ enabling' = enabling \ Waiting
  /\ leaving' = TRUE /\ loading' = FALSE /\ refresh' = "idle"
  /\ UNCHANGED <<server, cookie, user, path, loaded, form>>

-----------------------------------------------------------------------------
\* The pages of a member of staff (AdminLayout)

Rendered == ~loading /\ user # NoUser /\ path \notin {"/login", "/404"}

\* Home shows a player a page of its own, without the layout.
OnPlayerDashboard == user.role = "player" /\ path = "/"

PlayerControls == {"logout"}
MfaSetupControls == {"enable"}     \* forced: the modal has no way out

\* The buttons on the screen: until the second factor is set up, only that and Disconnect.
LayoutControls ==
  IF ~Rendered THEN {}
  ELSE IF OnPlayerDashboard THEN PlayerControls
  ELSE IF ~user.mfa THEN MfaSetupControls \cup {"logout"}
  ELSE {"links", "logout", "pull"}

CallOut(c, setup) ==
  /\ calls[c] = "idle"
  /\ enabling' = setup
  /\ calls' \in {[calls EXCEPT ![c] = v] : v \in VerdictOf(c, token, enabling')}
  /\ account' = Applied(calls', token)
  /\ UNCHANGED <<enabled, expiries, changes, store, retried, refresh, leaving, loading, user,
                 path, loaded, form>>

\* What a page fetches or writes, the layout's poll of the pending transfers among it,
\* which does not wait for the second factor.
PageCall(c) == Rendered /\ CallOut(c, enabling)

\* handleEnableMfa
EnableMfa(c) ==
  /\ "enable" \in LayoutControls /\ enabling = {}     \* verifying disables the button
  /\ CallOut(c, {c})

HandleLogout ==
  /\ "logout" \in LayoutControls
  /\ Logout(calls, "/login")
  /\ UNCHANGED <<server, cookie, retried, enabling, refresh, leaving, loading, loaded, form>>

\* The tab has been asleep for two minutes.
WakeUp == Rendered /\ ~OnPlayerDashboard /\ Reload(path)

PullToRefresh == "pull" \in LayoutControls /\ Reload(path)

\* The browser's own reload, or an address typed in.
Browse(target) == ~loading /\ Reload(target)

Shown == {l.path : l \in filteredLinks(user, FeaturesNow)}
Cards == IF path = "/" THEN {l.path : l \in activeNavCards(user, FeaturesNow)} ELSE {}

Visit(target) ==
  /\ "links" \in LayoutControls /\ target \in Shown \cup Cards
  /\ path' = Landing(user, FeaturesNow, target)
  /\ UNCHANGED <<server, store, client, leaving, loading, user, loaded, form>>

\* The not-found page's only link.
ReturnToBase ==
  /\ path = "/404" /\ ~loading
  /\ path' = Landing(user, FeaturesNow, "/")
  /\ UNCHANGED <<server, store, client, leaving, loading, user, loaded, form>>

-----------------------------------------------------------------------------
\* The login page

LoginControls ==
  IF path # "/login" \/ loading THEN {}
  ELSE {"tabs"} \cup
    (IF form.tab = "player" THEN (IF form.wait = "none" THEN {"player"} ELSE {})
     ELSE IF form.step = 1 THEN (IF form.wait = "none" THEN {"staff"} ELSE {})
     ELSE {"back"} \cup (IF form.wait # "none" THEN {}
                         ELSE {"code"} \cup (IF form.key THEN {"begin"} ELSE {})))

FormStep(f) ==
  /\ form' = f
  /\ UNCHANGED <<server, store, client, leaving, loading, user, path, loaded>>

\* Tabs and Back answer while a request is under way.
SwitchTab(tab) == "tabs" \in LoginControls /\ FormStep([form EXCEPT !.tab = tab, !.step = 1])

Back == "back" \in LoginControls /\ FormStep([form EXCEPT !.step = 1])

\* handlePlayerSubmit, handleStaffSubmit, triggerBiometricLogin: the request goes out.
Submit(what) ==
  /\ what \in LoginControls \cap {"player", "staff", "code", "begin"}
  /\ FormStep([form EXCEPT !.wait = what])

\* Any of them refused (an MFA session lives in Redis for five minutes), or the device's
\* prompt cancelled.
LoginRefused == form.wait # "none" /\ FormStep([form EXCEPT !.wait = "none"])

\* login: the answer holds token and user, and the form is left behind.
Enter(t, c, u) ==
  /\ token' = t /\ cookie' = c
  /\ SetUser(u, t, calls, "/")
  /\ form' = EmptyForm
  /\ UNCHANGED <<account, enabled, expiries, changes, retried, enabling, refresh, leaving, loading, loaded>>

PlayerEntered ==
  /\ form.wait = "player"
  /\ Enter([life |-> "live", role |-> "player"], "player", PlayerUser)

EnterStaff(mfa) ==
  Enter([life |-> "live", role |-> account.role], "staff", [StaffUser EXCEPT !.mfa = mfa])

\* Login: in at once without a second factor; with one, an MFA session, and the device's
\* prompt if there is one.
PasswordAccepted ==
  /\ form.wait = "staff"
  /\ \/ ~account.mfa /\ EnterStaff(FALSE)
     \/ /\ account.mfa
        /\ form' = [form EXCEPT !.step = 2, !.key = account.key,
                                !.wait = IF account.key THEN "begin" ELSE "none"]
        /\ UNCHANGED <<account, enabled, expiries, changes, store, client, leaving, loading,
                       user, path, loaded>>

\* Mutation: the finished answer has no role.
SecondFactorNoRole ==
  /\ form.wait \in {"code", "finish"}
  /\ Enter([life |-> "live", role |-> account.role], "staff", [StaffUser EXCEPT !.role = "none"])

\* VerifyMFA, WebAuthNLoginEnd
SecondFactorAccepted ==
  /\ form.wait \in {"code", "finish"}
  /\ EnterStaff(TRUE)

\* The challenge arrives and the user touches the device.
BiometricStep == form.wait = "begin" /\ FormStep([form EXCEPT !.wait = "finish"])

-----------------------------------------------------------------------------
\* Time, and other admins

ExpireToken ==
  /\ token.life = "live" /\ expiries < MaxExpiries
  /\ token' = [token EXCEPT !.life = "expired"]
  /\ expiries' = expiries + 1
  /\ UNCHANGED <<account, enabled, changes, cookie, client, leaving, loading, user,
                 path, loaded, form>>

ExpireCookie ==
  /\ cookie # "none" /\ expiries < MaxExpiries
  /\ cookie' = "none"
  /\ expiries' = expiries + 1
  /\ UNCHANGED <<account, enabled, changes, token, client, leaving, loading, user, path,
                 loaded, form>>

\* UpdateUser and ResetUserSecurity, from another browser.  (A deleted account is refused
\* what an expired cookie is refused.)
ChangeAccount ==
  /\ changes < MaxChanges
  /\ changes' = changes + 1
  /\ account' \in {[account EXCEPT !.role = IF @ = "admin" THEN "moderator" ELSE "admin"],
                   [account EXCEPT !.mfa = FALSE, !.key = FALSE]}
  /\ UNCHANGED <<enabled, expiries, store, client, leaving, loading, user, path,
                 loaded, form>>

-----------------------------------------------------------------------------
\* A browser that has never been here.
Init ==
  /\ account \in Accounts
  /\ enabled \in FeatureSets
  /\ token = NoToken /\ cookie = "none"
  /\ leaving = FALSE /\ loading = FALSE /\ loaded = FALSE
  /\ user = NoUser /\ path = "/login"
  /\ calls = Quiet /\ retried = {} /\ enabling = {} /\ refresh = "idle"
  /\ form = EmptyForm
  /\ expiries = 0 /\ changes = 0

LoginStep ==
  \/ \E tab \in {"player", "staff"} : SwitchTab(tab)
  \/ \E what \in {"player", "staff", "code", "begin"} : Submit(what)
  \/ Back \/ LoginRefused \/ PlayerEntered \/ PasswordAccepted \/ SecondFactorAccepted
  \/ BiometricStep

Next ==
  \/ LoginStep \/ HandleLogout \/ Unload
  \/ \E target \in Visits : Visit(target)
  \/ ReturnToBase \/ WakeUp \/ PullToRefresh
  \/ \E target \in Visits \cup {path} : Browse(target)
  \/ \E c \in Calls : Answer(c)
  \/ \E c \in PageCalls : PageCall(c) \/ EnableMfa(c)
  \/ RefreshDone \/ RefreshFailed
  \/ ExpireToken \/ ExpireCookie \/ ChangeAccount

Spec == Init /\ [][Next]_vars

\* The network answers or gives up, and the browser follows window.location.
FairSpec ==
  /\ Spec
  /\ \A c \in Calls : WF_vars(Answer(c))
  /\ WF_vars(RefreshDone) /\ WF_vars(RefreshFailed) /\ WF_vars(Unload)

-----------------------------------------------------------------------------
\* No call waits for a refresh that is not under way: the queue is emptied, one way or the
\* other, in the step that ends the refresh, before another call may start the next one.
WaitersHaveRefresh == Waiting # {} => refresh # "idle"

\* Who is shown as logged in has a token, even through logouts and logins while calls and a
\* refresh of the session before are still under way: what takes the token away either
\* clears the user or leaves the document.
SignedInHasToken == user # NoUser => token # NoToken \/ leaving

\* Once the features are known every link and card leads to its page: the filters of the
\* sidebar and of the home page agree with the guards of the routes.
LinksLead ==
  loaded => \A target \in Shown \cup Cards : Landing(user, FeaturesNow, target) = target

\* Every call comes to an end, through expiry, refreshes that fail and a 401 that a new
\* token does not cure.
CallsSettle == \A c \in Calls : (calls[c] # "idle") ~> (calls[c] = "idle")
=============================================================================
