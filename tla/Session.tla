------------------------------ MODULE Session ------------------------------
(***************************************************************************)
(* One tab's session with CouchDB: ApiClient's shared 401 probe,           *)
(* AuthService, the PKCE login and the RP-initiated logout of oidc-service,*)
(* and the boot and screen swap of app.ts.                                 *)
(*                                                                         *)
(* A credential is an AuthSession cookie or a JWT.  The cookie jar is the  *)
(* browser's: other tabs change it too.  sessionStorage (user, token, rp,  *)
(* attempt, rpState) outlives a reload of the tab, the bearer held by      *)
(* ApiClient and the requests in flight do not.  A request carries the     *)
(* credential of the moment it was sent; it is answered, and the rest of   *)
(* the code that awaits it runs, in one later step.                        *)
(***************************************************************************)
EXTENDS Naturals, FiniteSets

CONSTANTS
  Cookies, Tokens,  \* the credentials CouchDB and the IdP may issue: a bound
  None,             \* no credential: an anonymous request
  MaxAttempts,      \* bound on the PKCE logins started
  MaxReloads,       \* bound on the reloads of the tab
  MaxFaults         \* bound on the requests the network loses

ASSUME CredentialAssumption == Cookies \cap Tokens = {} /\ None \notin Cookies \cup Tokens
ASSUME BoundAssumption == MaxAttempts \in Nat /\ MaxReloads \in Nat /\ MaxFaults \in Nat

VARIABLES
  deploy,   \* same origin, cross-site, or cross-site where the browser drops the cookie
  live,     \* the credentials CouchDB accepts
  issued,   \* those that were ever issued
  jar,      \* the browser's AuthSession cookie
  bearer,   \* ApiClient.credential
  user,     \* cca_user: [kind, cred], what CouchDB last vouched for
  token,    \* cca_token
  rp,       \* the RP-logout record, as the token it came with
  attempt,  \* the PKCE attempt in sessionStorage; 0 for none
  begun,    \* PKCE attempts begun so far
  rpState,  \* a logout round trip left this tab
  url,      \* the query of the address bar: [kind, of]
  boot,     \* how far bootstrap() is
  screen,   \* what is mounted, or where the browser went
  net,      \* requests in flight: [op, cred]
  reloads, faults,
  spent,    \* [attempts -> how often their code and verifier were exchanged]
  crossed,  \* history: a logout ran while a boot or a login was under way
  cut       \* history: the tab was reloaded inside consumeOidcCallback

tab == <<bearer, user, token, rp>>
idp == <<attempt, begun, rpState, url, spent>>
budget == <<reloads, faults, cut>>
couch == <<live, issued>>
vars == <<deploy, couch, jar, tab, idp, boot, screen, net, budget, crossed>>

Credentials == Cookies \cup Tokens
Attempts == 1..MaxAttempts
NoUser == [kind |-> "none", cred |-> None]
NoQuery == [kind |-> "none", of |-> 0]
CallbackKinds == {"code", "error"}
Ops == {"read", "probe", "login", "confirm", "vouch", "restore", "exchange", "discover", "delete"}

\* The requests a login screen waits for with its form disabled.
LoggingIn == \E r \in net : r.op \in {"login", "confirm", "vouch"}

\* CouchDB tries the JWT handler before the cookie handler.
Carried(b, j) == IF b # None THEN b ELSE j
Current == Carried(bearer, jar)

KindOf(c) == IF c \in Tokens THEN "jwt" ELSE "cookie"
Screen(u) == IF u = NoUser THEN "login" ELSE "shell"

CouchTypeOK ==
  /\ deploy \in {"same-origin", "spa", "cookieless"}
  /\ live \subseteq issued /\ issued \subseteq Credentials
  /\ jar \in Cookies \cup {None}

TabTypeOK ==
  /\ bearer \in Tokens \cup {None}
  /\ user \in {NoUser} \cup [kind : {"cookie", "jwt"}, cred : Credentials]
  /\ token \in Tokens \cup {None}
  /\ rp \in Tokens \cup {None}

IdpTypeOK ==
  /\ begun \in 0..MaxAttempts /\ attempt \in 0..begun
  /\ rpState \in BOOLEAN
  /\ url \in [kind : {"none", "code", "error"}, of : 0..MaxAttempts]
  /\ spent \in [Attempts -> Nat]

PageTypeOK ==
  /\ boot \in {"start", "exchange", "vouch", "restore", "discover", "done"}
  /\ screen \in {"none", "login", "shell", "signingIn", "signingOut"}
  /\ net \subseteq [op : Ops, cred : Credentials \cup {None} \cup Attempts]
  /\ crossed \in BOOLEAN /\ cut \in BOOLEAN

BudgetTypeOK == reloads \in 0..MaxReloads /\ faults \in 0..MaxFaults

\* Every variable keeps its shape, whatever is answered, reloaded or returned to.
TypeOK == CouchTypeOK /\ TabTypeOK /\ IdpTypeOK /\ PageTypeOK /\ BudgetTypeOK

Init ==
  /\ deploy \in {"same-origin", "spa", "cookieless"}
  /\ live = {} /\ issued = {} /\ jar = None
  /\ bearer = None /\ user = NoUser /\ token = None /\ rp = None
  /\ attempt = 0 /\ begun = 0 /\ rpState = FALSE /\ url = NoQuery
  /\ boot = "start" /\ screen = "none" /\ net = {}
  /\ reloads = 0 /\ faults = 0
  /\ spent = [a \in Attempts |-> 0] /\ crossed = FALSE /\ cut = FALSE

-----------------------------------------------------------------------------
(* Requests *)

Request(op, c) == {[op |-> op, cred |-> c]}

Issue(c) == issued' = issued \cup {c} /\ live' = live \cup {c}

\* The network loses request or answer.
Fault == faults < MaxFaults /\ faults' = faults + 1
NoFault == UNCHANGED faults

\* GET /_session for credential c names a user, or does not, or fails.
Vouched(c) == c \in live /\ NoFault
NotVouched(c) == Fault \/ (c \notin live /\ NoFault)

-----------------------------------------------------------------------------
(* AuthService *)

ClearSession_KeepRp == bearer' = None /\ token' = None /\ user' = NoUser /\ UNCHANGED rp
ClearSession_EmptyUser ==
  bearer' = None /\ token' = None /\ rp' = None /\ user' = [NoUser EXCEPT !.kind = "cookie"]
ClearSession == bearer' = None /\ token' = None /\ rp' = None /\ user' = NoUser

\* logout(): a session of kind "cookie", which no session also counts as, is
\* deleted at the server without waiting for the answer.
LoggedOut(n) ==
  /\ net' = n \cup (IF user.kind = "jwt" THEN {} ELSE Request("delete", Current))
  /\ ClearSession
  /\ crossed' = (crossed \/ boot # "done" \/ LoggingIn)

\* restore(), on the user, token and record the boot has come to, and what
\* bootstrap() does at once when there is nothing to ask CouchDB.
EnterRestore(u, t, r, n) ==
  LET lost == u.kind = "jwt" /\ t = None
      asks == ~lost /\ (u # NoUser \/ deploy = "same-origin")
      b    == IF u.kind = "jwt" THEN t ELSE None    \* a page that boots holds no bearer
  IN  /\ bearer' = b /\ token' = t
      /\ user' = (IF lost THEN NoUser ELSE u)
      /\ rp' = (IF lost THEN None ELSE r)
      /\ boot' = (IF asks THEN "restore" ELSE "discover")
      /\ net' = n \cup (IF asks THEN Request("restore", Carried(b, jar))
                                ELSE Request("discover", None))

ArriveRestore(r) ==
  /\ r.op = "restore"
  /\ \/ /\ Vouched(r.cred)
        /\ user' = [kind |-> KindOf(r.cred), cred |-> r.cred]
        /\ boot' = "done" /\ screen' = "shell"
        /\ net' = net \ {r}
        /\ UNCHANGED <<bearer, token, rp>>
     \/ /\ NotVouched(r.cred)
        /\ IF r.cred \in Tokens THEN ClearSession
                                ELSE user' = NoUser /\ UNCHANGED <<bearer, token, rp>>
        /\ boot' = "discover"
        /\ net' = (net \ {r}) \cup Request("discover", None)
        /\ UNCHANGED screen
  /\ UNCHANGED <<deploy, couch, jar, idp, reloads, cut, crossed>>

\* login(): the same-origin deployment takes the 200 for a session, the
\* cross-site one asks for the session first.
ConfirmsSession_Never == FALSE
ConfirmsSession == deploy # "same-origin"

SubmitPassword ==
  /\ screen = "login" /\ ~LoggingIn
  /\ net' = net \cup Request("login", Current)
  /\ UNCHANGED <<deploy, couch, jar, tab, idp, boot, screen, budget, crossed>>

ArriveLogin(r) ==
  /\ r.op = "login"
  /\ \/ \E c \in Cookies \ issued :
          /\ NoFault /\ Issue(c)
          /\ jar' = (IF deploy = "cookieless" THEN jar ELSE c)
          /\ IF ConfirmsSession
             THEN /\ net' = (net \ {r}) \cup Request("confirm", Carried(bearer, jar'))
                  /\ UNCHANGED <<user, screen>>
             ELSE /\ net' = net \ {r}
                  /\ user' = [kind |-> "cookie", cred |-> c]
                  /\ screen' = "shell"
     \/ /\ NoFault \/ Fault    \* a wrong password, or no answer
        /\ net' = net \ {r}
        /\ UNCHANGED <<couch, jar, user, screen>>
  /\ UNCHANGED <<deploy, bearer, token, rp, idp, boot, reloads, cut, crossed>>

ArriveConfirm(r) ==
  /\ r.op = "confirm"
  /\ net' = net \ {r}
  /\ \/ /\ Vouched(r.cred)
        /\ user' = [kind |-> "cookie", cred |-> r.cred]
        /\ screen' = "shell"
     \/ NotVouched(r.cred) /\ UNCHANGED <<user, screen>>
  /\ UNCHANGED <<deploy, couch, jar, bearer, token, rp, idp, boot, reloads, cut, crossed>>

\* handlePastedToken: loginWithToken up to its await, with a token got elsewhere;
\* it may expire before CouchDB sees it.
PasteToken ==
  /\ screen = "login" /\ ~LoggingIn
  /\ \E t \in Tokens \ issued :
       /\ Issue(t)
       /\ bearer' = t
       /\ net' = net \cup Request("vouch", t)
  /\ UNCHANGED <<deploy, jar, user, token, rp, idp, boot, screen, budget, crossed>>

\* The end of loginWithToken, for a pasted token and for the callback.
ArriveVouch(r) ==
  /\ r.op = "vouch"
  /\ LET u == [kind |-> "jwt", cred |-> r.cred]
         rest == net \ {r}
     IN  \/ /\ Vouched(r.cred)
            /\ screen' = "shell"
            /\ IF boot = "vouch"
               THEN EnterRestore(u, r.cred, rp, rest) /\ url' = NoQuery
               ELSE /\ token' = r.cred /\ user' = u /\ net' = rest
                    /\ UNCHANGED <<bearer, rp, boot, url>>
         \/ /\ NotVouched(r.cred)
            /\ IF boot = "vouch"
               THEN EnterRestore(NoUser, None, None, rest) /\ url' = NoQuery
               ELSE ClearSession /\ net' = rest /\ UNCHANGED <<boot, url>>
            /\ UNCHANGED screen
  /\ UNCHANGED <<deploy, couch, jar, attempt, begun, rpState, spent, reloads, cut, crossed>>

-----------------------------------------------------------------------------
(* oidc-service and the two ways out of the page *)

\* The page is gone with its requests: a DELETE may still have been answered.
Deleting == \E r \in net : r.op = "delete"
Unload ==
  /\ net' = {} /\ boot' = "start"
  /\ jar' \in (IF Deleting THEN {jar, None} ELSE {jar})

\* beginLogin: the form is disabled while another login is under way.
StartIdpLogin ==
  /\ screen = "login" /\ ~LoggingIn /\ begun < MaxAttempts
  /\ begun' = begun + 1 /\ attempt' = begun + 1
  /\ screen' = "signingIn" /\ Unload /\ bearer' = None
  /\ UNCHANGED <<deploy, couch, user, token, rp, rpState, url, spent, budget, crossed>>

\* The IdP, or the back button, returns the browser to the app: with the answer
\* to some attempt, or with nothing a login could complete.
Return ==
  /\ screen \in {"signingIn", "signingOut"}
  /\ screen' = "none"
  /\ url' \in {NoQuery} \cup [kind : CallbackKinds, of : 1..begun]
  /\ UNCHANGED <<deploy, couch, jar, tab, attempt, begun, rpState, spent, boot, net, budget, crossed>>

\* The callback completes only for the attempt the tab started last.
MatchesAttempt == url.kind = "code" /\ attempt # 0 /\ url.of = attempt

\* completeLogin up to its await: the attempt is dropped whatever comes of it.
ConsumeCallback_Late ==
  /\ url.kind \in CallbackKinds
  /\ attempt' = IF MatchesAttempt THEN attempt ELSE 0
  /\ IF MatchesAttempt
     THEN /\ spent' = [spent EXCEPT ![attempt] = @ + 1]
          /\ boot' = "exchange"
          /\ net' = net \cup Request("exchange", attempt)
          /\ UNCHANGED <<tab, url>>
     ELSE url' = NoQuery /\ EnterRestore(user, token, rp, net) /\ UNCHANGED spent
  /\ UNCHANGED rpState
ConsumeCallback ==
  /\ url.kind \in CallbackKinds
  /\ attempt' = 0
  /\ IF MatchesAttempt
     THEN /\ spent' = [spent EXCEPT ![attempt] = @ + 1]
          /\ boot' = "exchange"
          /\ net' = net \cup Request("exchange", attempt)
          /\ UNCHANGED <<tab, url>>
     ELSE /\ url' = NoQuery
          /\ EnterRestore(user, token, rp, net)
          /\ UNCHANGED spent
  /\ UNCHANGED rpState

\* bootstrap(): a login callback first, else the return leg of a logout, then
\* the session.
Boot ==
  /\ boot = "start" /\ screen = "none"
  /\ \/ ConsumeCallback
     \/ /\ url.kind \notin CallbackKinds
        /\ rpState' = FALSE
        /\ EnterRestore(user, token, rp, net)
        /\ UNCHANGED <<attempt, url, spent>>
  /\ UNCHANGED <<deploy, couch, jar, begun, screen, budget, crossed>>

\* The end of completeLogin, and loginWithToken up to its await.  The provider
\* may publish no end_session_endpoint.
ArriveExchange(r) ==
  /\ r.op = "exchange"
  /\ LET rest == net \ {r}
     IN  \/ \E t \in Tokens \ issued :
              /\ NoFault /\ Issue(t)
              /\ bearer' = t /\ rp' \in {t, None}
              /\ boot' = "vouch"
              /\ net' = rest \cup Request("vouch", t)
              /\ UNCHANGED <<user, token, url>>
         \/ /\ NoFault \/ Fault    \* refused, or no answer
            /\ url' = NoQuery
            /\ EnterRestore(user, token, rp, rest)
            /\ UNCHANGED couch
  /\ UNCHANGED <<deploy, jar, attempt, begun, rpState, spent, screen, reloads, cut, crossed>>

\* The end of bootstrap() for someone restore() found no session for.
ArriveDiscover(r) ==
  /\ r.op = "discover"
  /\ net' = net \ {r}
  /\ boot' = "done" /\ screen' = "login"
  /\ UNCHANGED <<deploy, couch, jar, tab, idp, budget, crossed>>

-----------------------------------------------------------------------------
(* Requests of the shell, and the end of a session *)

Read ==
  /\ screen = "shell" /\ ~\E r \in net : r.op = "read"
  /\ net' = net \cup Request("read", Current)
  /\ UNCHANGED <<deploy, couch, jar, tab, idp, boot, screen, budget, crossed>>

Probing == \E r \in net : r.op = "probe"

\* send(): some endpoints answer whoever asks (the reachability service's GET
\* /_up), the others refuse a dead credential, and with the same 401 a live one
\* that is not an admin's.  A 401 starts the probe or joins the one under way.
ArriveRead(r) ==
  /\ r.op = "read"
  /\ \/ /\ NoFault \/ Fault    \* an answer, or none
        /\ net' = net \ {r}
     \/ /\ NoFault
        /\ net' = (net \ {r}) \cup (IF Probing THEN {} ELSE Request("probe", Current))
  /\ UNCHANGED <<deploy, couch, jar, tab, idp, boot, screen, reloads, cut, crossed>>

\* probeSessionAndMaybeLogout reads no answer, a refusal and an anonymous
\* answer alike.
FoundDead_Anonymous(c) == c \notin live \cup Tokens
FoundDead_Unasked(c) == TRUE
FoundDead(c) == c \notin live

ArriveProbe(r) ==
  /\ r.op = "probe"
  /\ \/ /\ Fault \/ (NoFault /\ FoundDead(r.cred))
        /\ LoggedOut(net \ {r})
        /\ screen' = "login"
     \/ /\ NoFault /\ ~FoundDead(r.cred)
        /\ net' = net \ {r}
        /\ UNCHANGED <<tab, screen, crossed>>
  /\ UNCHANGED <<deploy, couch, jar, idp, boot, reloads, cut>>

\* CouchDB answers the DELETE with an expired cookie, whichever the jar holds.
ArriveDelete(r) ==
  /\ r.op = "delete"
  /\ net' = net \ {r}
  /\ (jar' = None /\ NoFault) \/ (UNCHANGED jar /\ Fault)
  /\ UNCHANGED <<deploy, couch, tab, idp, boot, screen, reloads, cut, crossed>>

\* handleLogoutConfirmed without the round trip to the IdP.
Logout ==
  /\ screen = "shell"
  /\ LoggedOut(net)
  /\ screen' = "login"
  /\ UNCHANGED <<deploy, couch, jar, idp, boot, budget>>

\* handleLogoutConfirmed with it: teardown first, then the redirect.
TornDown_OnReturn == UNCHANGED <<tab, crossed>>
TornDown ==
  /\ ClearSession
  /\ crossed' = (crossed \/ boot # "done" \/ LoggingIn)

LogoutEverywhere ==
  /\ screen = "shell" /\ rp # None
  /\ TornDown
  /\ rpState' = TRUE
  /\ net' = {} /\ boot' = "start" /\ screen' = "signingOut"
  /\ jar' \in (IF user.kind # "jwt" \/ Deleting THEN {jar, None} ELSE {jar})
  /\ UNCHANGED <<deploy, couch, attempt, begun, url, spent, budget>>

-----------------------------------------------------------------------------
(* The world around the tab *)

Expire(c) ==
  /\ live' = live \ {c}
  /\ UNCHANGED <<deploy, issued, jar, tab, idp, boot, screen, net, budget, crossed>>

\* Another tab signs in or out with the same cookie jar.
OtherTab ==
  /\ deploy # "cookieless"
  /\ \/ jar # None /\ jar' = None /\ UNCHANGED couch
     \/ \E c \in Cookies \ issued : Issue(c) /\ jar' = c
  /\ UNCHANGED <<deploy, tab, idp, boot, screen, net, budget, crossed>>

Reload ==
  /\ screen \in {"none", "login", "shell"} /\ reloads < MaxReloads
  /\ reloads' = reloads + 1
  /\ cut' = (cut \/ boot = "vouch")
  /\ Unload /\ bearer' = None /\ screen' = "none"
  /\ UNCHANGED <<deploy, couch, user, token, rp, idp, faults, crossed>>

Arrive(r) ==
  \/ ArriveRestore(r) \/ ArriveLogin(r) \/ ArriveConfirm(r) \/ ArriveVouch(r)
  \/ ArriveExchange(r) \/ ArriveDiscover(r)
  \/ ArriveRead(r) \/ ArriveProbe(r) \/ ArriveDelete(r)

ArriveOp(op) == \E r \in net : r.op = op /\ (ArriveProbe(r) \/ ArriveRestore(r))

Next ==
  \/ \E r \in net : Arrive(r)
  \/ SubmitPassword \/ PasteToken \/ StartIdpLogin \/ Return \/ Boot
  \/ Read \/ Logout \/ LogoutEverywhere
  \/ \E c \in live : Expire(c)
  \/ OtherTab \/ Reload

Spec == Init /\ [][Next]_vars

\* A fetch is answered or fails (needed of these two only), and a page that loads
\* boots.  Nothing makes the shell send a request: most screens load once.
Fairness == WF_vars(ArriveOp("probe")) /\ WF_vars(ArriveOp("restore")) /\ WF_vars(Boot)

FairSpec == Spec /\ Fairness

-----------------------------------------------------------------------------
(* Properties *)

\* A code and its verifier reach the token endpoint at most once, whatever is
\* reloaded or revisited (completeLogin clears the attempt before anything).
CallbackSpentOnce == \A a \in Attempts : spent[a] <= 1

\* Unless a logout crossed a login or a boot under way, or a reload cut the
\* callback short, a booted tab mounts the shell exactly when it records a
\* user, holds the token on both sides exactly for a JWT user, and keeps no RP
\* record for any other.
NoFragments ==
  boot = "done" /\ ~crossed /\ ~cut =>
    /\ (screen = "shell") = (user # NoUser)
    /\ user.kind = "jwt" => token = user.cred /\ bearer = user.cred
    /\ user.kind # "jwt" => token = None /\ rp = None /\ (bearer # None => LoggingIn)

\* Where the browser drops the cross-site cookie nobody is told that a password
\* signed them in (confirmCrossSiteSession), short of the same crossing.
NoSessionNobodyHolds == deploy = "cookieless" /\ ~crossed => user.kind # "cookie"

\* The browser leaves for the IdP's logout with no token, record or user kept.
SignedOutBeforeLeaving ==
  screen = "signingOut" => user = NoUser /\ token = None /\ rp = None /\ bearer = None

\* A session ended without its user asking was dead, or the network lost the
\* probe, or the probe had carried another session's credential.
Probes(c) == \E r \in net : r.op = "probe" /\ r.cred = c
OnlyDeadSessionsEnd ==
  [][ screen = "shell" /\ screen' = "login" /\ user # NoUser /\ ~Logout /\ boot = "done"
        => Current \notin live \/ faults' > faults \/ ~Probes(Current) ]_vars

\* A session signed into with a password never offers to end one at the IdP
\* (readRpLogout: the record is null for a cookie session).
RpNamesThisSession == user.kind = "cookie" => rp = None

\* What a session leaves when it ends is not half of one: no JWT user without its
\* token (clearSession, the single teardown point).
JwtUserHoldsToken == user.kind = "jwt" => token # None

\* Once a refusal has made the tab ask about its session, and the session is dead
\* before CouchDB answers, no user of it stays recorded: the answer ends it, no
\* answer does, and a reload that drops the probe asks again; or somebody signs in
\* (probeSessionAndMaybeLogout, and restore() after the reload).
RefusedSessionEnds ==
  (screen = "shell" /\ user # NoUser /\ Current \notin live /\ Probes(Current))
    ~> (user = NoUser \/ Current \in live)
=============================================================================
