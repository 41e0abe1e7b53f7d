--------------------------- MODULE SessionProofs ---------------------------
(***************************************************************************)
(* Proofs about a browser's session, for any pages, features and accounts  *)
(* and any number of expiries: no call waits for a refresh that is not     *)
(* under way, whoever is shown as logged in has a token, every variable    *)
(* keeps its type, and links and cards lead to their pages.                *)
(***************************************************************************)
EXTENDS Session, TLAPS

Answers == Verdicts \cup {"idle", "queued", "waiting"}

\* WaitersHaveRefresh is inductive with the type of the calls.
QueueInv ==
  /\ calls \in [Calls -> Answers]
  /\ WaitersHaveRefresh

IsToken(t) == t = [life |-> t.life, role |-> t.role]

\* SignedInHasToken needs to know of a document that hydrates: it has a token, asks with
\* the one call "me", waits for a refresh only if that call does, and nothing else goes on.
TokenInv ==
  /\ SignedInHasToken
  /\ IsToken(token)
  /\ loading \in BOOLEAN
  /\ loading => /\ token # NoToken \/ leaving
                /\ form.wait = "none"
                /\ refresh # "idle" => calls["me"] = "waiting"
                /\ \A c \in Calls : c # "me" => calls[c] = "idle"
  /\ ~loading => calls["me"] = "idle"

SessionInv == QueueInv /\ TokenInv

LEMMA MeIsACall == "me" \in Calls /\ "global" \in Calls
BY DEF Calls

\* What goes out gets a verdict; other calls stay as they are.
LEMMA VerdictsSent ==
  ASSUME NEW cs \in SUBSET Calls, NEW now \in [Calls -> Answers], NEW w \in [cs -> Verdicts]
  PROVE LET v == [c \in Calls |-> IF c \in cs THEN w[c] ELSE now[c]] IN
        /\ v \in [Calls -> Answers]
        /\ \A c \in Calls : IF c \in cs THEN v[c] \in Verdicts ELSE v[c] = now[c]
BY DEF Answers

\* setUser sends at most AppContext's fetch.
LEMMA SetUserSends ==
  ASSUME NEW u, NEW t, NEW target, NEW now \in [Calls -> Answers], SetUser(u, t, now, target)
  PROVE /\ user' = u
        /\ calls' \in [Calls -> Answers]
        /\ \A c \in Calls : calls'[c] = now[c] \/ (c = "global" /\ calls'[c] \in Verdicts)
<1>1. user' = u BY DEF SetUser
<1>2. CASE calls' \in SendAll({"global"}, t, now)
  <2>1. {"global"} \in SUBSET Calls BY MeIsACall
  <2>2. PICK w \in [{"global"} -> Verdicts] :
          calls' = [c \in Calls |-> IF c \in {"global"} THEN w[c] ELSE now[c]]
    BY <1>2 DEF SendAll
  <2>3. /\ calls' \in [Calls -> Answers]
        /\ \A c \in Calls : IF c \in {"global"} THEN calls'[c] \in Verdicts ELSE calls'[c] = now[c]
    BY <2>1, <2>2, VerdictsSent
  <2> QED BY <1>1, <2>3
<1>3. CASE calls' = now
  BY <1>1, <1>3
<1> QED BY <1>2, <1>3 DEF SetUser

\* A new document has no call but "me", and that only with a token.
LEMMA LoadKeepsInv ==
  ASSUME NEW target, NEW t, IsToken(t), Load(target, t)
  PROVE SessionInv'
<1>1. /\ leaving' = FALSE /\ refresh' = "idle" /\ form'.wait = "none"
  BY DEF Load, EmptyForm
<1>2. Quiet \in [Calls -> Answers] /\ \A c \in Calls : Quiet[c] = "idle"
  BY DEF Quiet, Answers
<1>3. CASE t.life # "live"
  <2>1. loading' = FALSE /\ token' = NoToken /\ user' = NoUser /\ calls' = Quiet
    BY <1>3 DEF Load
  <2>2. IsToken(token)' BY <2>1 DEF NoToken, IsToken
  <2> QED
    BY <1>1, <1>2, <2>1, <2>2, MeIsACall
       DEF SessionInv, QueueInv, TokenInv, SignedInHasToken, WaitersHaveRefresh, Waiting
<1>4. CASE t.life = "live" /\ t.role = "player"
  <2>1. loading' = FALSE /\ token' = t /\ calls' = Quiet
    BY <1>4 DEF Load
  <2>2. token' # NoToken /\ IsToken(token)' BY <1>4, <2>1 DEF NoToken, IsToken
  <2> QED
    BY <1>1, <1>2, <2>1, <2>2, MeIsACall
       DEF SessionInv, QueueInv, TokenInv, SignedInHasToken, WaitersHaveRefresh, Waiting
<1>5. CASE t.life = "live" /\ t.role # "player"
  <2>1. /\ loading' = TRUE /\ token' = t /\ user' = NoUser
        /\ calls' \in SendAll({"me"}, t, Quiet)
    BY <1>5 DEF Load
  <2>2. token' # NoToken /\ IsToken(token)' BY <1>5, <2>1 DEF NoToken, IsToken
  <2>3. /\ calls' \in [Calls -> Answers]
        /\ \A c \in Calls : IF c \in {"me"} THEN calls'[c] \in Verdicts ELSE calls'[c] = Quiet[c]
    <3>1. {"me"} \in SUBSET Calls BY MeIsACall
    <3>2. PICK w \in [{"me"} -> Verdicts] :
            calls' = [c \in Calls |-> IF c \in {"me"} THEN w[c] ELSE Quiet[c]]
      BY <2>1 DEF SendAll
    <3> QED BY <1>2, <3>1, <3>2, VerdictsSent
  <2>4. \A c \in Calls : calls'[c] \notin {"queued", "waiting"}
    BY <1>2, <2>3 DEF Verdicts
  <2> QED
    BY <1>1, <1>2, <2>1, <2>2, <2>3, <2>4, MeIsACall
       DEF SessionInv, QueueInv, TokenInv, SignedInHasToken, WaitersHaveRefresh, Waiting
<1> QED BY <1>3, <1>4, <1>5

\* A step that leaves the calls, the refresh, the token, the user and the document alone,
\* and starts no request of the form while the document hydrates.
LEMMA InvStutters ==
  ASSUME SessionInv, UNCHANGED <<calls, refresh, token, user, loading, leaving>>,
         form'.wait = form.wait \/ ~loading
  PROVE SessionInv'
BY DEF SessionInv, QueueInv, TokenInv, SignedInHasToken, WaitersHaveRefresh, Waiting

LEMMA InitInv == Init => SessionInv
<1> SUFFICES ASSUME Init PROVE SessionInv
  OBVIOUS
<1>1. /\ calls = Quiet /\ refresh = "idle" /\ user = NoUser /\ loading = FALSE
      /\ IsToken(token)
  BY DEF Init, IsToken, NoToken
<1>2. Quiet \in [Calls -> Answers] /\ \A c \in Calls : Quiet[c] = "idle"
  BY DEF Quiet, Answers
<1> QED
  BY <1>1, <1>2, MeIsACall
     DEF SessionInv, QueueInv, TokenInv, SignedInHasToken, WaitersHaveRefresh, Waiting

\* What the caller does with an answer: only the hydration's end changes token or user.
LEMMA SettleKeepsInv ==
  ASSUME SessionInv, NEW c \in Calls, calls[c] \in Verdicts, NEW ok \in BOOLEAN,
         Settle(c, ok, [calls EXCEPT ![c] = "idle"])
  PROVE SessionInv'
<1> DEFINE now == [calls EXCEPT ![c] = "idle"]
<1>1. /\ calls \in [Calls -> Answers] /\ now \in [Calls -> Answers]
      /\ now[c] = "idle" /\ \A d \in Calls : d # c => now[d] = calls[d]
  BY DEF SessionInv, QueueInv, Answers
<1>2. refresh' = refresh BY DEF Settle
<1>3. calls[c] \notin {"idle", "queued", "waiting"} BY DEF Verdicts
<1>4. CASE c = "me" /\ ok
  <2>1. /\ loading' = FALSE /\ token' = token /\ leaving' = leaving
        /\ SetUser(StaffUser, token, now, path)
    BY <1>4 DEF Settle
  <2>2. loading BY <1>3, <1>4 DEF SessionInv, TokenInv
  <2>3. token # NoToken \/ leaving BY <2>2 DEF SessionInv, TokenInv
  <2> HIDE DEF now
  <2>4. /\ calls' \in [Calls -> Answers]
        /\ \A d \in Calls : calls'[d] = now[d] \/ (d = "global" /\ calls'[d] \in Verdicts)
    BY <1>1, <2>1, SetUserSends
  <2> QED
    BY <1>1, <1>2, <1>4, <2>1, <2>3, <2>4, MeIsACall
       DEF SessionInv, QueueInv, TokenInv, SignedInHasToken, IsToken, WaitersHaveRefresh, Waiting,
           Verdicts
<1>5. CASE c = "me" /\ ~ok
  <2>1. loading' = FALSE /\ leaving' = leaving /\ token' = NoToken
        /\ SetUser(NoUser, NoToken, now, path)
    BY <1>5 DEF Settle, Logout
  <2> HIDE DEF now
  <2>3. IsToken(token)' BY <2>1 DEF NoToken, IsToken
  <2>2. /\ user' = NoUser /\ calls' \in [Calls -> Answers]
        /\ \A d \in Calls : calls'[d] = now[d] \/ (d = "global" /\ calls'[d] \in Verdicts)
    BY <1>1, <2>1, SetUserSends
  <2> QED
    BY <1>1, <1>2, <1>5, <2>1, <2>2, <2>3, MeIsACall
       DEF SessionInv, QueueInv, TokenInv, SignedInHasToken, WaitersHaveRefresh, Waiting, Verdicts
<1>6. CASE c # "me"
  <2>1. ~loading /\ IsToken(token) BY <1>3, <1>6 DEF SessionInv, TokenInv
  <2>2. /\ calls' = now
        /\ UNCHANGED <<token, user, loading, leaving, form, refresh>>
    BY <1>6 DEF Settle
  <2> HIDE DEF now
  <2> QED
    BY <1>1, <1>2, <1>6, <2>1, <2>2, MeIsACall
       DEF SessionInv, QueueInv, TokenInv, SignedInHasToken, WaitersHaveRefresh, Waiting
<1> QED BY <1>4, <1>5, <1>6

\* The response interceptor.
LEMMA AnswerKeepsInv ==
  ASSUME SessionInv, NEW c \in Calls, Answer(c)
  PROVE SessionInv'
<1>1. calls[c] \in Verdicts BY DEF Answer
<1>2. CASE /\ calls[c] = "401" /\ refresh # "idle"
           /\ calls' = [calls EXCEPT ![c] = "queued"] /\ refresh' = refresh
           /\ UNCHANGED <<token, leaving, loading, user, form>>
  <2>1. ~loading BY <1>2, MeIsACall DEF SessionInv, TokenInv
  <2> QED
    BY <1>2, <2>1, MeIsACall
       DEF SessionInv, QueueInv, TokenInv, SignedInHasToken, WaitersHaveRefresh, Waiting, Answers
<1>3. CASE /\ calls[c] = "401" /\ refresh = "idle"
           /\ calls' = [calls EXCEPT ![c] = "waiting"] /\ refresh' \in RefreshVerdicts
           /\ UNCHANGED <<token, leaving, loading, user, form>>
  <2>1. refresh' # "idle" BY <1>3 DEF RefreshVerdicts
  <2>2. calls \in [Calls -> Answers] BY DEF SessionInv, QueueInv
  <2>3. /\ calls' \in [Calls -> Answers] /\ calls'[c] = "waiting"
        /\ \A d \in Calls : d # c => calls'[d] = calls[d]
    BY <1>3, <2>2 DEF Answers
  <2> QED
    BY <1>3, <2>1, <2>3, MeIsACall
       DEF SessionInv, QueueInv, TokenInv, SignedInHasToken, WaitersHaveRefresh, Waiting
<1>4. CASE Settle(c, calls[c] = "ok", [calls EXCEPT ![c] = "idle"])
  BY <1>1, <1>4, SettleKeepsInv
<1>5. CASE Load(path, token)
  BY <1>5, LoadKeepsInv DEF SessionInv, TokenInv
<1> QED BY <1>2, <1>3, <1>4, <1>5 DEF Answer, Reload, store, server

\* A refresh that succeeds sends every call that waited again, "me" alone when hydrating.
LEMMA RefreshDoneKeepsInv ==
  ASSUME SessionInv, RefreshDone
  PROVE SessionInv'
<1>1. /\ refresh' = "idle" /\ token' # NoToken /\ IsToken(token)'
      /\ calls' \in SendAll(Waiting, token', calls)
      /\ UNCHANGED <<leaving, loading, user, form>>
  BY DEF RefreshDone, NoToken, IsToken
<1>2. Waiting \in SUBSET Calls /\ calls \in [Calls -> Answers]
  BY DEF Waiting, SessionInv, QueueInv
<1>3. PICK w \in [Waiting -> Verdicts] :
        calls' = [c \in Calls |-> IF c \in Waiting THEN w[c] ELSE calls[c]]
  BY <1>1 DEF SendAll
<1>4. /\ calls' \in [Calls -> Answers]
      /\ \A c \in Calls : IF c \in Waiting THEN calls'[c] \in Verdicts ELSE calls'[c] = calls[c]
  BY <1>2, <1>3, VerdictsSent
<1>5. Waiting' = {}
  BY <1>4 DEF Waiting, Verdicts
<1>6. loading => \A c \in Calls : c # "me" => calls'[c] = "idle"
  BY <1>4 DEF SessionInv, TokenInv, Waiting
<1>7. ~loading => calls'["me"] = "idle"
  BY <1>4, MeIsACall DEF SessionInv, TokenInv, Waiting
<1> QED
  BY <1>1, <1>4, <1>5, <1>6, <1>7
     DEF SessionInv, QueueInv, TokenInv, SignedInHasToken, WaitersHaveRefresh

\* One that fails rejects them all, takes the token away and leaves the document.
LEMMA RefreshFailedKeepsInv ==
  ASSUME SessionInv, RefreshFailed
  PROVE SessionInv'
<1>1. /\ refresh = "failed" /\ leaving' = TRUE /\ loading' = FALSE
      /\ token' = NoToken /\ IsToken(token)'
      /\ calls' = [c \in Calls |-> IF c \in Waiting THEN "idle" ELSE calls[c]]
  BY DEF RefreshFailed, NoToken, IsToken
<1>2. calls \in [Calls -> Answers]
  BY DEF SessionInv, QueueInv
<1>3. /\ calls' \in [Calls -> Answers]
      /\ \A c \in Calls : calls'[c] = IF c \in Waiting THEN "idle" ELSE calls[c]
  BY <1>1, <1>2 DEF Answers
<1>4. Waiting' = {}
  BY <1>3 DEF Waiting
<1>5. calls'["me"] = "idle"
  BY <1>1, <1>3, MeIsACall DEF SessionInv, TokenInv, Waiting
<1> QED
  BY <1>1, <1>3, <1>4, <1>5
     DEF SessionInv, QueueInv, TokenInv, SignedInHasToken, WaitersHaveRefresh

\* A page's call, from a document that does not hydrate.
LEMMA CallOutKeepsInv ==
  ASSUME SessionInv, ~loading, NEW c \in PageCalls, NEW setup, CallOut(c, setup)
  PROVE SessionInv'
<1>1. c \in Calls /\ c # "me"
  BY SessionAssumption DEF Calls
<1>2. PICK v \in VerdictOf(c, token, enabling') : calls' = [calls EXCEPT ![c] = v]
  BY DEF CallOut
<1>3. v \in Verdicts
  BY <1>1 DEF VerdictOf, Verdicts
<1>4. calls \in [Calls -> Answers]
  BY DEF SessionInv, QueueInv
<1>5. /\ calls' \in [Calls -> Answers] /\ calls'[c] \in Verdicts
      /\ \A d \in Calls : d # c => calls'[d] = calls[d]
  BY <1>1, <1>2, <1>3, <1>4 DEF Answers
<1>6. Waiting' \subseteq Waiting
  BY <1>5 DEF Waiting, Verdicts
<1>7. UNCHANGED <<token, refresh, leaving, loading, user, form>>
  BY DEF CallOut, store
<1> QED
  BY <1>1, <1>5, <1>6, <1>7, MeIsACall
     DEF SessionInv, QueueInv, TokenInv, SignedInHasToken, IsToken, WaitersHaveRefresh

\* A step of setUser outside the hydration that leaves whoever is shown with a token.
LEMMA SetUserKeepsInv ==
  ASSUME SessionInv, ~loading, NEW u, NEW t, NEW target, SetUser(u, t, calls, target),
         UNCHANGED <<refresh, leaving, loading>>, IsToken(token'),
         u # NoUser => token' # NoToken
  PROVE SessionInv'
<1>1. calls \in [Calls -> Answers] /\ calls["me"] = "idle"
  BY DEF SessionInv, QueueInv, TokenInv
<1>2. /\ user' = u /\ calls' \in [Calls -> Answers]
      /\ \A c \in Calls : calls'[c] = calls[c] \/ (c = "global" /\ calls'[c] \in Verdicts)
  BY <1>1, SetUserSends
<1>3. Waiting' \subseteq Waiting
  BY <1>2 DEF Waiting, Verdicts
<1>4. calls'["me"] = "idle"
  BY <1>1, <1>2, MeIsACall
<1>5. QueueInv'
  BY <1>2, <1>3 DEF SessionInv, QueueInv, WaitersHaveRefresh
<1>6. TokenInv'
  BY <1>2, <1>4 DEF SessionInv, TokenInv, SignedInHasToken
<1> QED BY <1>5, <1>6 DEF SessionInv

\* The login page: what it starts or takes in, it does in a document that does not hydrate.
LEMMA LoginKeepsInv ==
  ASSUME SessionInv, LoginStep
  PROVE SessionInv'
<1>1. ASSUME NEW f, FormStep(f), f.wait = form.wait \/ ~loading
      PROVE SessionInv'
  <2>1. UNCHANGED <<calls, refresh, token, user, loading, leaving>> /\ form' = f
    BY <1>1 DEF FormStep, client, store
  <2> QED BY <1>1, <2>1, InvStutters
<1>2. form.wait # "none" => ~loading
  BY DEF SessionInv, TokenInv
<1>3. LoginControls # {} => ~loading
  BY DEF LoginControls
<1>4. ASSUME NEW t, NEW k, NEW u, Enter(t, k, u), IsToken(t), t # NoToken, ~loading
      PROVE SessionInv'
  <2>1. /\ token' = t /\ SetUser(u, t, calls, "/")
        /\ UNCHANGED <<refresh, leaving, loading>>
    BY <1>4 DEF Enter
  <2>2. IsToken(token')
    BY <1>4, <2>1
  <2> QED BY <1>4, <2>1, <2>2, SetUserKeepsInv
<1>5. ASSUME NEW tab, SwitchTab(tab) PROVE SessionInv'
  BY <1>1, <1>3, <1>5 DEF SwitchTab
<1>6. ASSUME NEW what, Submit(what) PROVE SessionInv'
  BY <1>1, <1>3, <1>6 DEF Submit
<1>7. CASE Back
  BY <1>1, <1>3, <1>7 DEF Back
<1>8. CASE LoginRefused
  BY <1>1, <1>2, <1>8 DEF LoginRefused
<1>9. CASE BiometricStep
  BY <1>1, <1>2, <1>9 DEF BiometricStep
<1>10. \A r : LET t == [life |-> "live", role |-> r] IN IsToken(t) /\ t # NoToken
  BY DEF IsToken, NoToken
<1>11. CASE PlayerEntered
  BY <1>2, <1>4, <1>10, <1>11 DEF PlayerEntered
<1>12. ASSUME NEW mfa, EnterStaff(mfa), form.wait # "none" PROVE SessionInv'
  BY <1>2, <1>4, <1>10, <1>12 DEF EnterStaff
<1>13. CASE PasswordAccepted
  <2>1. CASE EnterStaff(FALSE)
    BY <1>12, <1>13, <2>1 DEF PasswordAccepted
  <2>2. CASE ~EnterStaff(FALSE)
    <3>1. UNCHANGED <<calls, refresh, token, user, loading, leaving>> /\ ~loading
      BY <1>2, <1>13, <2>2 DEF PasswordAccepted, client, store
    <3> QED BY <3>1, InvStutters
  <2> QED BY <2>1, <2>2
<1>14. CASE SecondFactorAccepted
  BY <1>12, <1>14 DEF SecondFactorAccepted
<1> QED BY <1>5, <1>6, <1>7, <1>8, <1>9, <1>11, <1>13, <1>14 DEF LoginStep

\* Every step keeps the invariant.
LEMMA NextKeepsInv ==
  ASSUME SessionInv, [Next]_vars
  PROVE SessionInv'
<1>1. CASE LoginStep
  BY <1>1, LoginKeepsInv
<1>2. CASE HandleLogout
  <2>1. ~loading
    BY <1>2 DEF HandleLogout, LayoutControls, Rendered
  <2>2. /\ token' = NoToken /\ SetUser(NoUser, NoToken, calls, "/login")
        /\ UNCHANGED <<refresh, leaving, loading>>
    BY <1>2 DEF HandleLogout, Logout
  <2>3. IsToken(token')
    BY <2>2 DEF IsToken, NoToken
  <2> QED BY <2>1, <2>2, <2>3, SetUserKeepsInv
<1>3. ASSUME NEW target, Reload(target) PROVE SessionInv'
  BY <1>3, LoadKeepsInv DEF Reload, SessionInv, TokenInv
<1>4. CASE Unload \/ WakeUp \/ PullToRefresh
  BY <1>3, <1>4 DEF Unload, WakeUp, PullToRefresh
<1>5. ASSUME NEW target, Browse(target) PROVE SessionInv'
  BY <1>3, <1>5 DEF Browse
<1>6. ASSUME NEW target, Visit(target) PROVE SessionInv'
  BY <1>6, InvStutters DEF Visit, store, client
<1>7. CASE ReturnToBase
  BY <1>7, InvStutters DEF ReturnToBase, store, client
<1>8. ASSUME NEW c \in Calls, Answer(c) PROVE SessionInv'
  BY <1>8, AnswerKeepsInv
<1>9. ASSUME NEW c \in PageCalls, PageCall(c) \/ EnableMfa(c) PROVE SessionInv'
  <2>1. ~loading
    BY <1>9 DEF PageCall, EnableMfa, Rendered, LayoutControls
  <2> QED BY <1>9, <2>1, CallOutKeepsInv DEF PageCall, EnableMfa
<1>10. CASE RefreshDone \/ RefreshFailed
  BY <1>10, RefreshDoneKeepsInv, RefreshFailedKeepsInv
<1>11. CASE ExpireToken
  <2>1. /\ token' = [token EXCEPT !.life = "expired"]
        /\ UNCHANGED <<calls, refresh, leaving, loading, user, form>>
    BY <1>11 DEF ExpireToken, client
  <2>2. token' = [life |-> "expired", role |-> token.role]
    BY <2>1 DEF SessionInv, TokenInv, IsToken
  <2>3. token' # NoToken /\ IsToken(token)'
    BY <2>2 DEF NoToken, IsToken
  <2> QED
    BY <2>1, <2>3
       DEF SessionInv, QueueInv, TokenInv, SignedInHasToken, WaitersHaveRefresh, Waiting
<1>12. CASE ExpireCookie \/ ChangeAccount
  BY <1>12, InvStutters DEF ExpireCookie, ChangeAccount, store, client
<1>13. CASE UNCHANGED vars
  BY <1>13, InvStutters DEF vars, store, client
<1> QED
  BY <1>1, <1>2, <1>4, <1>5, <1>6, <1>7, <1>8, <1>9, <1>10, <1>11, <1>12, <1>13 DEF Next

LEMMA InvHolds == Spec => []SessionInv
<1>1. SessionInv /\ [Next]_vars => SessionInv'
  BY NextKeepsInv
<1> QED BY InitInv, <1>1, PTL DEF Spec

\* No call ever waits for a refresh that is not under way, whatever the number of calls and
\* however their 401s, the refresh's end and reloads interleave: processQueue leaves none
\* behind (api/client).
THEOREM WaitersHaveRefreshHolds == Spec => []WaitersHaveRefresh
<1>1. SessionInv => WaitersHaveRefresh
  BY DEF SessionInv, QueueInv
<1> QED BY InvHolds, <1>1, PTL

\* Whoever is shown as logged in has a token in the store or a document that is being left,
\* whatever calls and refresh of an earlier session are still under way (AuthContext).
THEOREM SignedInHasTokenHolds == Spec => []SignedInHasToken
<1>1. SessionInv => SignedInHasToken
  BY DEF SessionInv, TokenInv
<1> QED BY InvHolds, <1>1, PTL
-----------------------------------------------------------------------------
\* Links.

Places == Paths \cup {"/login", "/404"}

\* What the list of links says of each agrees with the guards of its route.
LEMMA LinksGuarded ==
  \A l \in navLinks :
    /\ l.roles \subseteq Staff
    /\ l.path \notin {"/login", "/404"}
    /\ l.path \in AdminRoutes => l.roles = {"admin"}
    /\ l.path \in AllianceRoutes => l.alliance
    /\ l.path \in DOMAIN FeatureRoutes => /\ l.feature = FeatureRoutes[l.path]
                                         /\ l.feature \in Features
BY DEF navLinks, Link, Staff, AdminRoutes, AllianceRoutes, FeatureRoutes, Features

LEMMA NoFeatureIsNone == "none" \notin Features
BY DEF Features

\* What both filters ask of a link.
Kept(l) ==
  /\ user.role \in l.roles
  /\ l.alliance => user.alliance
  /\ l.feature = "none" \/ FeaturesNow[l.feature] # "off"

\* A link that is kept leads to its page.
LEMMA KeptLinkLeads ==
  ASSUME loaded, NEW l \in navLinks, Kept(l)
  PROVE Landing(user, FeaturesNow, l.path) = l.path
<1> DEFINE p == l.path
<1>1. /\ user.role \in Staff /\ p \notin {"/login", "/404"}
      /\ p \in AdminRoutes => user.role = "admin"
      /\ p \in AllianceRoutes => user.alliance
  BY LinksGuarded DEF Kept
<1>2. user # NoUser BY <1>1 DEF NoUser, Staff
<1>3. p \in DOMAIN FeatureRoutes => FeaturesNow[FeatureRoutes[p]] = "on"
  <2> SUFFICES ASSUME p \in DOMAIN FeatureRoutes PROVE FeaturesNow[FeatureRoutes[p]] = "on"
    OBVIOUS
  <2>1. l.feature = FeatureRoutes[p] /\ l.feature \in Features BY LinksGuarded
  <2>2. FeaturesNow[l.feature] \in {"on", "off"} BY <2>1 DEF FeaturesNow, Copy
  <2>3. FeaturesNow[l.feature] # "off" BY <2>1, NoFeatureIsNone DEF Kept
  <2> QED BY <2>1, <2>2, <2>3
<1> HIDE DEF p
<1>4. Landing(user, FeaturesNow, p) = p
  BY <1>1, <1>2, <1>3 DEF Landing, RequireAlliance
<1> QED BY <1>4 DEF p

LEMMA LinksLeadAlways == LinksLead
<1> SUFFICES ASSUME loaded, NEW target \in Shown \cup Cards
             PROVE Landing(user, FeaturesNow, target) = target
  BY DEF LinksLead
<1>1. CASE target \in Shown
  <2>1. PICK l \in navLinks : target = l.path /\ Kept(l)
    BY <1>1 DEF Shown, filteredLinks, Kept
  <2> QED BY <2>1, KeptLinkLeads
<1>2. CASE target \in Cards
  <2>1. PICK l \in navLinks : target = l.path /\ Kept(l)
    BY <1>2 DEF Cards, activeNavCards, Kept
  <2> QED BY <2>1, KeptLinkLeads
<1> QED BY <1>1, <1>2

-----------------------------------------------------------------------------
\* Types.

TypeInv == SessionInv /\ TypeOK

LEMMA LandingTyped ==
  ASSUME NEW u, NEW f, NEW p \in Places
  PROVE Landing(u, f, p) \in Places
<1>1. "/" \in Places /\ "/login" \in Places /\ "/404" \in Places
  BY DEF Places, Paths, navLinks, Link
<1> QED BY <1>1 DEF Landing, RequireAlliance

LEMMA SomeUserTyped ==
  ASSUME TypeOK
  PROVE /\ StaffUser \in User /\ PlayerUser \in User
        /\ [StaffUser EXCEPT !.mfa = TRUE] \in User
        /\ [StaffUser EXCEPT !.mfa = FALSE] \in User
BY DEF TypeOK, Account, StaffUser, PlayerUser, NoUser, User

\* The part of the types that a new document has; the rest is the calls' (SessionInv).
DocumentTypes ==
  /\ token \in {NoToken} \cup [life: {"live", "expired"}, role: Staff \cup {"player"}]
  /\ leaving \in BOOLEAN /\ loading \in BOOLEAN /\ loaded \in BOOLEAN
  /\ user \in User \cup {NoUser}
  /\ path \in Places
  /\ retried \subseteq Calls /\ enabling \subseteq PageCalls
  /\ refresh \in {"idle", "ok", "failed"}
  /\ form \in [tab: {"player", "staff"}, step: 1..2, key: BOOLEAN,
               wait: {"none", "player", "staff", "code", "begin", "finish"}]

ServerTypes ==
  /\ account \in Account /\ enabled \in FeatureSets
  /\ cookie \in {"none", "staff", "player"}
  /\ expiries \in 0..MaxExpiries /\ changes \in 0..MaxChanges

LEMMA TypesSplit == TypeInv <=> SessionInv /\ DocumentTypes /\ ServerTypes
BY DEF TypeInv, SessionInv, QueueInv, TypeOK, DocumentTypes, ServerTypes, Places, Answers

LEMMA LoadTypes ==
  ASSUME TypeInv, NEW target \in Places, Load(target, token)
  PROVE DocumentTypes'
<1>1. /\ leaving' = FALSE /\ loaded' = FALSE /\ retried' = {} /\ enabling' = {}
      /\ refresh' = "idle" /\ form' = EmptyForm
  BY DEF Load
<1>2. /\ loading' \in BOOLEAN /\ token' \in {NoToken, token}
      /\ user' \in {NoUser, PlayerUser} /\ path' \in Places
  <2>1. CASE token.life # "live"
    BY <2>1, LandingTyped DEF Load
  <2>2. CASE token.life = "live" /\ token.role = "player"
    BY <2>2, LandingTyped DEF Load
  <2>3. CASE token.life = "live" /\ token.role # "player"
    BY <2>3 DEF Load
  <2> QED BY <2>1, <2>2, <2>3
<1>3. PlayerUser \in User BY SomeUserTyped DEF TypeInv
<1>4. form' \in [tab: {"player", "staff"}, step: 1..2, key: BOOLEAN,
                 wait: {"none", "player", "staff", "code", "begin", "finish"}]
  BY <1>1 DEF EmptyForm
<1> QED BY <1>1, <1>2, <1>3, <1>4, TypesSplit DEF DocumentTypes

LEMMA ReloadTypes ==
  ASSUME TypeInv, NEW target \in Places, Reload(target)
  PROVE DocumentTypes' /\ ServerTypes'
<1>1. Load(target, token) /\ UNCHANGED <<server, cookie>> BY DEF Reload
<1> QED BY <1>1, LoadTypes, TypesSplit DEF ServerTypes, server

\* The caller's part of an answer.
LEMMA SettleTypes ==
  ASSUME TypeInv, NEW c \in Calls, NEW ok \in BOOLEAN, NEW now, Settle(c, ok, now)
  PROVE /\ token' \in {token, NoToken}
        /\ user' \in {user, StaffUser, NoUser} /\ path' \in Places
        /\ loading' \in {loading, FALSE} /\ loaded' \in {loaded, TRUE}
        /\ UNCHANGED <<leaving, form, refresh>>
<1>1. path \in Places BY TypesSplit DEF DocumentTypes
<1>2. CASE c = "me" /\ ok
  BY <1>1, <1>2, LandingTyped DEF Settle, SetUser
<1>3. CASE c = "me" /\ ~ok
  BY <1>1, <1>3, LandingTyped DEF Settle, Logout, SetUser
<1>4. CASE c # "me"
  BY <1>1, <1>4, LandingTyped DEF Settle
<1> QED BY <1>2, <1>3, <1>4

LEMMA AnswerTypes ==
  ASSUME TypeInv, NEW c \in Calls, Answer(c)
  PROVE DocumentTypes' /\ ServerTypes'
<1> USE TypesSplit
<1>1. CASE /\ retried' \subseteq retried \cup {c}
           /\ refresh' \in RefreshVerdicts \cup {refresh}
           /\ UNCHANGED <<server, store, enabling, leaving, loading, user, path, loaded, form>>
  <2>1. refresh' \in {"idle", "ok", "failed"}
    BY <1>1 DEF RefreshVerdicts, DocumentTypes
  <2> QED BY <1>1, <2>1 DEF DocumentTypes, ServerTypes, server, store
<1>2. CASE /\ Settle(c, calls[c] = "ok", [calls EXCEPT ![c] = "idle"])
           /\ retried' = retried \ {c} /\ enabling' = enabling \ {c}
           /\ UNCHANGED <<server, cookie>>
  <2>1. /\ token' \in {token, NoToken}
        /\ user' \in {user, StaffUser, NoUser} /\ path' \in Places
        /\ loading' \in {loading, FALSE} /\ loaded' \in {loaded, TRUE}
        /\ UNCHANGED <<leaving, form, refresh>>
    <3>1. (calls[c] = "ok") \in BOOLEAN OBVIOUS
    <3> QED BY <1>2, <3>1, SettleTypes
  <2>2. StaffUser \in User BY SomeUserTyped DEF TypeInv
  <2>3. /\ token' \in {NoToken} \cup [life: {"live", "expired"}, role: Staff \cup {"player"}]
        /\ user' \in User \cup {NoUser}
    BY <2>1, <2>2 DEF DocumentTypes
  <2>4. loading' \in BOOLEAN /\ loaded' \in BOOLEAN BY <2>1 DEF DocumentTypes
  <2>5. retried' \subseteq Calls /\ enabling' \subseteq PageCalls BY <1>2 DEF DocumentTypes
  <2>6. DocumentTypes' BY <2>1, <2>3, <2>4, <2>5 DEF DocumentTypes
  <2>7. ServerTypes' BY <1>2 DEF ServerTypes, server
  <2> QED BY <2>6, <2>7
<1>3. CASE Reload(path)
  BY <1>3, ReloadTypes DEF DocumentTypes
<1> QED BY <1>1, <1>2, <1>3 DEF Answer

LEMMA AppliedTyped ==
  ASSUME TypeOK, NEW now, NEW t
  PROVE Applied(now, t) \in Account
<1> DEFINE b == account.mfa \/ (t.role \in Staff /\ \E c \in enabling' : now[c] = "ok"
                                                       /\ calls[c] \notin Verdicts)
<1>1. Applied(now, t) = [account EXCEPT !.mfa = b] BY DEF Applied
<1>2. b \in BOOLEAN OBVIOUS
<1> HIDE DEF b
<1> QED BY <1>1, <1>2 DEF TypeOK, Account

LEMMA RefreshTypes ==
  ASSUME TypeInv, RefreshDone \/ RefreshFailed
  PROVE DocumentTypes' /\ ServerTypes'
<1> USE TypesSplit
<1>1. CASE RefreshDone
  <2>1. account' \in Account
    BY <1>1, AppliedTyped DEF RefreshDone, TypeInv
  <2>2. token' \in [life: {"live", "expired"}, role: Staff \cup {"player"}]
    BY <1>1 DEF RefreshDone, ServerTypes, Account
  <2> QED BY <1>1, <2>1, <2>2 DEF RefreshDone, DocumentTypes, ServerTypes
<1>2. CASE RefreshFailed
  BY <1>2 DEF RefreshFailed, DocumentTypes, ServerTypes, server
<1> QED BY <1>1, <1>2

LEMMA CallOutTypes ==
  ASSUME TypeInv, NEW c \in PageCalls, PageCall(c) \/ EnableMfa(c)
  PROVE DocumentTypes' /\ ServerTypes'
<1> USE TypesSplit
<1>1. PICK setup \in SUBSET PageCalls : CallOut(c, setup)
  BY DEF PageCall, EnableMfa, DocumentTypes
<1>2. account' \in Account
  BY <1>1, AppliedTyped DEF CallOut, TypeInv
<1> QED BY <1>1, <1>2 DEF CallOut, DocumentTypes, ServerTypes, store

LEMMA FormSwitched ==
  ASSUME NEW Waits, NEW t \in {"player", "staff"},
         NEW f \in [tab: {"player", "staff"}, step: 1..2, key: BOOLEAN, wait: Waits]
  PROVE [f EXCEPT !.tab = t, !.step = 1]
          \in [tab: {"player", "staff"}, step: 1..2, key: BOOLEAN, wait: Waits]
<1> DEFINE Tabs == {"player", "staff"}
           Steps == 1..2
<1>1. 1 \in Steps /\ t \in Tabs OBVIOUS
<1> HIDE DEF Tabs, Steps
<1>2. f \in [tab: Tabs, step: Steps, key: BOOLEAN, wait: Waits] BY DEF Tabs, Steps
<1>3. [f EXCEPT !.tab = t, !.step = 1] \in [tab: Tabs, step: Steps, key: BOOLEAN, wait: Waits]
  BY <1>1, <1>2
<1> QED BY <1>3 DEF Tabs, Steps

LEMMA LoginTypes ==
  ASSUME TypeInv, LoginStep
  PROVE DocumentTypes' /\ ServerTypes'
<1> USE TypesSplit
<1> DEFINE Forms == [tab: {"player", "staff"}, step: 1..2, key: BOOLEAN,
                     wait: {"none", "player", "staff", "code", "begin", "finish"}]
<1>0. form \in Forms BY DEF DocumentTypes
<1>1. ASSUME NEW f \in Forms, FormStep(f) PROVE DocumentTypes' /\ ServerTypes'
  BY <1>1 DEF FormStep, DocumentTypes, ServerTypes, server, store, client
<1>2. ASSUME NEW t \in [life: {"live"}, role: Staff \cup {"player"}],
             NEW k \in {"staff", "player"}, NEW u \in User, Enter(t, k, u)
      PROVE DocumentTypes' /\ ServerTypes'
  <2>1. EmptyForm \in Forms BY DEF EmptyForm
  <2>2. /\ token' = t /\ cookie' = k /\ user' = u /\ form' = EmptyForm
        /\ path' = Landing(u, FeaturesNow, "/")
        /\ UNCHANGED <<account, enabled, expiries, changes, retried, enabling, refresh,
                       leaving, loading, loaded>>
    BY <1>2 DEF Enter, SetUser
  <2>3. path' \in Places
    <3>1. "/" \in Places BY DEF Places, Paths, navLinks, Link
    <3> QED BY <2>2, <3>1, LandingTyped
  <2> QED BY <2>1, <2>2, <2>3 DEF DocumentTypes, ServerTypes
<1>3. ASSUME NEW tab \in {"player", "staff"}, SwitchTab(tab)
      PROVE DocumentTypes' /\ ServerTypes'
  <2>1. [form EXCEPT !.tab = tab, !.step = 1] \in Forms BY <1>0, FormSwitched
  <2> QED BY <1>1, <1>3, <2>1 DEF SwitchTab
<1>4. ASSUME NEW what \in {"player", "staff", "code", "begin"}, Submit(what)
      PROVE DocumentTypes' /\ ServerTypes'
  <2>1. [form EXCEPT !.wait = what] \in Forms BY <1>0
  <2> QED BY <1>1, <1>4, <2>1 DEF Submit
<1>5. CASE Back
  <2>1. [form EXCEPT !.step = 1] \in Forms BY <1>0
  <2> QED BY <1>1, <1>5, <2>1 DEF Back
<1>6. CASE LoginRefused \/ BiometricStep
  <2>1. [form EXCEPT !.wait = "none"] \in Forms /\ [form EXCEPT !.wait = "finish"] \in Forms
    BY <1>0
  <2> QED BY <1>1, <1>6, <2>1 DEF LoginRefused, BiometricStep
<1>7. CASE PlayerEntered
  BY <1>2, <1>7, SomeUserTyped DEF PlayerEntered, TypeInv
<1>8. ASSUME NEW mfa \in BOOLEAN, EnterStaff(mfa) PROVE DocumentTypes' /\ ServerTypes'
  <2>1. [StaffUser EXCEPT !.mfa = mfa] \in User BY <1>8, SomeUserTyped DEF TypeInv
  <2>2. [life |-> "live", role |-> account.role] \in [life: {"live"}, role: Staff \cup {"player"}]
    BY DEF ServerTypes, Account
  <2> QED BY <1>2, <1>8, <2>1, <2>2 DEF EnterStaff
<1>9. CASE PasswordAccepted
  <2>1. CASE EnterStaff(FALSE)
    BY <1>8, <2>1
  <2>2. CASE /\ form' = [form EXCEPT !.step = 2, !.key = account.key,
                                     !.wait = IF account.key THEN "begin" ELSE "none"]
             /\ UNCHANGED <<account, enabled, expiries, changes, store, client, leaving,
                            loading, user, path, loaded>>
    <3>1. account.key \in BOOLEAN BY DEF ServerTypes, Account
    <3>2. form' = [tab |-> form.tab, step |-> 2, key |-> account.key,
                   wait |-> IF account.key THEN "begin" ELSE "none"]
      BY <1>0, <2>2
    <3>3. form' \in Forms BY <1>0, <3>1, <3>2
    <3> QED BY <2>2, <3>3 DEF DocumentTypes, ServerTypes, store, client
  <2> QED BY <1>9, <2>1, <2>2 DEF PasswordAccepted
<1>10. CASE SecondFactorAccepted
  BY <1>8, <1>10 DEF SecondFactorAccepted
<1> QED BY <1>3, <1>4, <1>5, <1>6, <1>7, <1>9, <1>10 DEF LoginStep
LEMMA TypesNext == TypeInv /\ [Next]_vars => TypeInv'
<1> SUFFICES ASSUME TypeInv, [Next]_vars PROVE DocumentTypes' /\ ServerTypes'
  <2>1. TypeInv /\ [Next]_vars => SessionInv' BY NextKeepsInv DEF TypeInv
  <2> QED BY <2>1 DEF TypeInv, SessionInv, QueueInv, TypeOK, DocumentTypes, ServerTypes,
                      Places, Answers
<1> USE TypesSplit
<1>1. CASE LoginStep
  BY <1>1, LoginTypes
<1>2. "/" \in Places /\ "/login" \in Places
  BY DEF Places, Paths, navLinks, Link
<1>3. CASE HandleLogout
  <2>1. /\ token' = NoToken /\ user' = NoUser
        /\ path' = Landing(NoUser, FeaturesNow, "/login")
        /\ UNCHANGED <<server, cookie, retried, enabling, refresh, leaving, loading, loaded,
                       form>>
    BY <1>3 DEF HandleLogout, Logout, SetUser
  <2>2. path' \in Places BY <1>2, <2>1, LandingTyped
  <2> QED BY <2>1, <2>2 DEF DocumentTypes, ServerTypes, server
<1>4. ASSUME NEW target \in Places, Reload(target) PROVE DocumentTypes' /\ ServerTypes'
  BY <1>4, ReloadTypes
<1>5. path \in Places BY DEF DocumentTypes
<1>6. CASE Unload \/ WakeUp \/ PullToRefresh
  BY <1>2, <1>4, <1>5, <1>6 DEF Unload, WakeUp, PullToRefresh
<1>7. ASSUME NEW target \in Visits \cup {path}, Browse(target)
      PROVE DocumentTypes' /\ ServerTypes'
  <2>1. target \in Places BY <1>5, SessionAssumption DEF Places
  <2> QED BY <1>4, <1>7, <2>1 DEF Browse
<1>8. ASSUME NEW target \in Places, path' = Landing(user, FeaturesNow, target),
             UNCHANGED <<server, store, client, leaving, loading, user, loaded, form>>
      PROVE DocumentTypes' /\ ServerTypes'
  <2>1. path' \in Places BY <1>8, LandingTyped
  <2> QED BY <1>8, <2>1 DEF DocumentTypes, ServerTypes, server, store, client
<1>9. ASSUME NEW target \in Visits, Visit(target) PROVE DocumentTypes' /\ ServerTypes'
  <2>1. target \in Places BY SessionAssumption DEF Places
  <2> QED BY <1>8, <1>9, <2>1 DEF Visit
<1>10. CASE ReturnToBase
  BY <1>2, <1>8, <1>10 DEF ReturnToBase
<1>11. ASSUME NEW c \in Calls, Answer(c) PROVE DocumentTypes' /\ ServerTypes'
  BY <1>11, AnswerTypes
<1>12. ASSUME NEW c \in PageCalls, PageCall(c) \/ EnableMfa(c)
       PROVE DocumentTypes' /\ ServerTypes'
  BY <1>12, CallOutTypes
<1>13. CASE RefreshDone \/ RefreshFailed
  BY <1>13, RefreshTypes
<1>14. CASE ExpireToken
  <2>1. token.life = "live" /\ token' = [token EXCEPT !.life = "expired"]
    BY <1>14 DEF ExpireToken
  <2>2. token' \in [life: {"live", "expired"}, role: Staff \cup {"player"}]
    BY <2>1 DEF DocumentTypes, NoToken
  <2>3. expiries' \in 0..MaxExpiries
    BY <1>14, SessionAssumption DEF ExpireToken, ServerTypes
  <2> QED BY <1>14, <2>2, <2>3 DEF ExpireToken, DocumentTypes, ServerTypes, client
<1>15. CASE ExpireCookie
  <2>1. expiries' \in 0..MaxExpiries
    BY <1>15, SessionAssumption DEF ExpireCookie, ServerTypes
  <2> QED BY <1>15, <2>1 DEF ExpireCookie, DocumentTypes, ServerTypes, client
<1>16. CASE ChangeAccount
  <2>1. changes' \in 0..MaxChanges
    BY <1>16, SessionAssumption DEF ChangeAccount, ServerTypes
  <2>2. account' \in Account
    BY <1>16 DEF ChangeAccount, ServerTypes, Account, Staff
  <2> QED BY <1>16, <2>1, <2>2 DEF ChangeAccount, DocumentTypes, ServerTypes, store, client
<1>17. CASE UNCHANGED vars
  BY <1>17 DEF vars, server, store, client, DocumentTypes, ServerTypes
<1> QED
  BY <1>1, <1>3, <1>6, <1>7, <1>9, <1>10, <1>11, <1>12, <1>13, <1>14, <1>15, <1>16, <1>17
     DEF Next

LEMMA TypesInit == Init => TypeInv
<1> SUFFICES ASSUME Init PROVE DocumentTypes /\ ServerTypes
  BY InitInv, TypesSplit
<1>1. account \in Account
  BY SessionAssumption DEF Init, Account
<1>2. ServerTypes
  BY <1>1, SessionAssumption DEF Init, ServerTypes
<1>3. EmptyForm \in [tab: {"player", "staff"}, step: 1..2, key: BOOLEAN,
                     wait: {"none", "player", "staff", "code", "begin", "finish"}]
  BY DEF EmptyForm
<1>4. DocumentTypes
  BY <1>3 DEF Init, DocumentTypes, Places
<1> QED BY <1>2, <1>4

\* Every part of the session keeps its type.  The parts that could fail: the user shown is
\* one of a role the pages know however he got in (the second factor's answers included),
\* the router ends on a page there is, and only page calls set up the second factor.
THEOREM SessionTypes == Spec => []TypeOK
<1>1. TypeInv => TypeOK BY DEF TypeInv
<1> QED BY TypesInit, TypesNext, <1>1, PTL DEF Spec

\* Once the features are known every link of the sidebar and every card of the home page
\* leads to its page, whoever is shown as logged in and whatever the server has enabled:
\* the lists of Layout and Home and the guards of App, written apart, agree.
THEOREM LinksLeadHolds == Spec => []LinksLead
BY LinksLeadAlways, PTL
=============================================================================
