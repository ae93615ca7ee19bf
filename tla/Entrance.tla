------------------------------ MODULE Entrance ------------------------------
(***************************************************************************)
(* The page: bootstrap() and the swap of login screen and shell (app.ts),  *)
(* the discovery of identity providers, the login screen with the servers  *)
(* it remembers, and the shell with its plugins, its banner and its logout *)
(* dialog.  What a session is and when it ends is Session's; here it has   *)
(* one of four kinds and CouchDB or the user ends it at any moment.        *)
(***************************************************************************)
EXTENDS Naturals, Sequences, FiniteSets, SequencesExt

CONSTANTS
  Deployments,  \* [spa, password, native, config, jwt, banners]: what the page may find
  Urls,         \* server addresses as they may be typed
  Stripped,         \* [Urls -> Urls]: the address without its trailing slashes
  Invalid,      \* those that are no URL
  Plugins,      \* the plugins whose screens are visited
  None, Forever,
  MAX_ENTRIES,  \* of the recent servers; 20 in the code
  TIMER_MAX,    \* the longest delay of a browser timer, in ticks
  MaxTime,      \* bound on the clock
  MaxRequests   \* bound on the sign-ins under way at once

VARIABLES
  world,      \* the deployment this page met
  boot,       \* how far bootstrap() is
  discovery,  \* the page's cache: [idps, jwt], whether it asked and missed an answer
  screen,     \* what is mounted, or "away" at the provider
  form,       \* the login screen
  requests,   \* sign-ins under way: [kind, server, mine]
  servers,    \* cca_recent_servers, the latest first
  session,    \* "none", "cookie", "jwt", or "rp": a jwt whose provider can be left too
  shell,      \* the shell
  loader,     \* [registered, modules]: PluginLoader, which outlives the shells
  everywhere, \* ccaFullIdpLogout: end the provider's session too
  now

vars == <<world, boot, discovery, screen, form, requests, servers, session,
          shell, loader, everywhere, now>>

Nothing == [idps |-> <<>>, jwt |-> FALSE, asked |-> FALSE, missed |-> FALSE]
NoForm == [idps |-> <<>>, jwt |-> FALSE, loading |-> FALSE, recent |-> <<>>,
           server |-> None, adding |-> FALSE, typed |-> None, complaint |-> FALSE]
NoShell == [plugins |-> "none", route |-> None, draft |-> FALSE, reading |-> FALSE,
            banner |-> None, timer |-> None, dialog |-> None]

Init ==
  /\ world \in Deployments
  /\ boot = "start" /\ discovery = Nothing /\ screen = "none"
  /\ form = NoForm /\ requests = {} /\ session = "none" /\ shell = NoShell
  /\ servers \in {<<>>} \cup {<<Stripped[u]>> : u \in Urls \ Invalid}
  /\ loader = [registered |-> 0, modules |-> [p \in Plugins |-> "absent"]]
  /\ everywhere = TRUE /\ now = 1

-----------------------------------------------------------------------------
(* Discovery *)

\* normalize: the entries a login can use, the first of each issuer.
normalize(entries) ==
  LET usable == SelectSeq(entries, LAMBDA e : e.complete)
      again(i) == \E j \in 1..(i - 1) : usable[j].issuer = usable[i].issuer
      Keep(f, i) == IF again(i) THEN f ELSE Append(f, usable[i])
      kept[i \in 0..Len(usable)] == IF i = 0 THEN <<>> ELSE Keep(kept[i - 1], i)
  IN  kept[Len(usable)]

-----------------------------------------------------------------------------
(* The swap *)

FreshForm ==
  [NoForm EXCEPT !.recent = servers, !.server = IF servers = <<>> THEN None ELSE Head(servers)]

Orphaned == {[r EXCEPT !.mine = FALSE] : r \in requests}

\* initLogin: a login screen that is up already is only told what was found.
initLogin(found) ==
  /\ screen' = "login" /\ shell' = NoShell
  /\ form' = [(IF screen = "login" THEN form ELSE FreshForm)
                EXCEPT !.idps = found.idps, !.jwt = found.jwt]

\* discoverAndRegister, from the shell's connectedCallback and from the
\* notification that mounted it.
discoverAndRegister == IF loader.registered = 0 THEN 1 ELSE loader.registered

\* initApp: a shell that is up stays, drawn again by the notification.
initApp(notified) ==
  /\ screen' = "shell" /\ form' = NoForm
  /\ IF screen = "shell"
     THEN /\ shell' = [shell EXCEPT !.draft = @ /\ ~notified]
          /\ UNCHANGED loader
     ELSE /\ shell' = [NoShell EXCEPT !.plugins = "loading"]
          /\ loader' = [loader EXCEPT !.registered = discoverAndRegister]

-----------------------------------------------------------------------------
(* bootstrap() *)

\* A login callback that completes: the shell is there before the boot ends.
Callback ==
  /\ boot = "start" /\ screen = "none"
  /\ session' \in {"jwt", "rp"}
  /\ initApp(TRUE)
  /\ UNCHANGED <<world, boot, discovery, requests, servers, everywhere, now>>

\* A logout while CouchDB is asked has forgotten the provider's record.
Alive ==
  IF session # "none" THEN {session}
  ELSE {"cookie", "jwt"} \cup (IF screen = "none" THEN {"rp"} ELSE {})

Restore ==
  /\ boot = "start"
  /\ \/ /\ session' \in Alive
        /\ boot' = "done"
        /\ initApp(FALSE)
        /\ requests' = Orphaned
     \/ /\ session' = "none" /\ boot' = "native"
        /\ UNCHANGED <<screen, form, requests, shell, loader>>
  /\ UNCHANGED <<world, discovery, servers, everywhere, now>>

\* discoverIdps: /_idp, then /idp/config unless that offered something.
Found(idps, missed) ==
  /\ discovery' = [discovery EXCEPT !.idps = idps, !.asked = TRUE, !.missed = @ \/ missed]
  /\ boot' = IF idps # <<>> \/ boot = "config" THEN "session" ELSE "config"

Discover ==
  /\ boot \in {"native", "config"}
  /\ \/ world[boot] # None /\ Found(normalize(world[boot]), FALSE)
     \/ Found(<<>>, world[boot] # None)
  /\ UNCHANGED <<world, screen, form, requests, servers, session, shell, loader, everywhere, now>>

\* Its end, GET /_session, and the end of bootstrap(): the login screen, by
\* what the session was before the discovery.
Discovered ==
  /\ boot = "session" /\ boot' = "done"
  /\ \/ discovery' = [discovery EXCEPT !.jwt = world.jwt]
     \/ world.jwt /\ discovery' = [discovery EXCEPT !.missed = TRUE]
  /\ initLogin(discovery')
  /\ UNCHANGED <<world, requests, servers, session, loader, everywhere, now>>

-----------------------------------------------------------------------------
(* The login screen *)

Login(f) ==
  /\ screen = "login" /\ form' = f
  /\ UNCHANGED <<world, boot, discovery, screen, session, shell, loader, everywhere, now>>

passwordLoginVisible == world.password \/ ~\E i \in DOMAIN form.idps : form.idps[i].only
ServerVisible == passwordLoginVisible /\ world.spa

Typing(f) == Login(f) /\ UNCHANGED <<requests, servers>>

\* The address is a text field until there are servers to choose from.
handleCompanionInput ==
  /\ ServerVisible /\ form.recent = <<>>
  /\ \E u \in Urls : Typing([form EXCEPT !.server = u])

handleCompanionSelectChange ==
  /\ ServerVisible /\ form.recent # <<>>
  /\ \/ \E u \in ToSet(form.recent) : Typing([form EXCEPT !.server = u])
     \/ Typing([form EXCEPT !.adding = TRUE, !.typed = None, !.complaint = FALSE])

handleAddServerInput ==
  /\ form.adding
  /\ \E u \in Urls : Typing([form EXCEPT !.typed = u, !.complaint = FALSE])

Closed(f) == [f EXCEPT !.adding = FALSE, !.typed = None, !.complaint = FALSE]
cancelAddServer == form.adding /\ Typing(Closed(form))

\* recordRecentServer reads what is stored now, whoever wrote it.
recordRecentServer(u) ==
  LET latest == <<u>> \o SelectSeq(servers, LAMBDA s : s # u)
  IN  SubSeq(latest, 1, IF Len(latest) < MAX_ENTRIES THEN Len(latest) ELSE MAX_ENTRIES)

confirmAddServer ==
  /\ form.adding
  /\ IF form.typed \in Invalid \cup {None}
     THEN Typing([form EXCEPT !.complaint = TRUE])
     ELSE /\ servers' = recordRecentServer(form.typed)
          /\ Login(Closed([form EXCEPT !.recent = servers', !.server = form.typed]))
          /\ UNCHANGED requests

\* The list written back is the one this screen read when it came up.
clearCurrentServer ==
  /\ ServerVisible /\ form.recent # <<>>
  /\ LET left == SelectSeq(form.recent, LAMBDA s : s # form.server)
     IN  /\ servers' = left
         /\ Login([form EXCEPT !.recent = left, !.server = None])
         /\ UNCHANGED requests

\* Each of the three ways in waits with every button of the form disabled.
Ask(kind, server) ==
  /\ ~form.loading /\ Cardinality(requests) < MaxRequests
  /\ requests' = requests \cup {[kind |-> kind, server |-> server, mine |-> TRUE]}
  /\ Login([form EXCEPT !.loading = TRUE])
  /\ UNCHANGED servers

handleSubmit ==
  /\ passwordLoginVisible
  /\ world.spa => form.server \notin Invalid \cup {None}    \* else only an error is shown
  /\ Ask("password", IF world.spa THEN form.server ELSE None)

handlePastedToken == form.idps = <<>> /\ form.jwt /\ Ask("token", None)

\* A provider that declares neither its endpoints nor its document is refused at once.
startIdpLogin ==
  \E i \in DOMAIN form.idps : form.idps[i].endpoints # "nowhere" /\ Ask("provider", None)

Answered(r) == requests \ {r}

\* auth.login and loginWithToken notify before they return: the screen is swapped.
SignedIn(r) ==
  /\ r.kind # "provider"
  /\ session' = IF r.kind = "token" THEN "jwt" ELSE "cookie"
  /\ servers' = IF r.server = None THEN servers ELSE recordRecentServer(Stripped[r.server])
  /\ requests' = {[q EXCEPT !.mine = FALSE] : q \in Answered(r)}
  /\ initApp(TRUE)
  /\ UNCHANGED <<world, boot, discovery, everywhere, now>>

Refused(r) ==
  /\ form' = [form EXCEPT !.loading = @ /\ ~r.mine]
  /\ session' = IF r.kind = "token" THEN "none" ELSE session    \* loginWithToken clears it
  /\ requests' = Answered(r)
  /\ UNCHANGED <<world, boot, discovery, screen, servers, shell, loader, everywhere, now>>

\* resolveEndpoints and beginLogin: the page is left.
Redirected(r) ==
  /\ r.kind = "provider"
  /\ screen' = "away" /\ form' = NoForm /\ shell' = NoShell /\ requests' = {}
  /\ UNCHANGED <<world, boot, discovery, servers, session, loader, everywhere, now>>

\* Another tab adds a server to the list.
Elsewhere ==
  /\ screen = "login"
  /\ \E u \in Urls \ Invalid : servers' = recordRecentServer(Stripped[u])
  /\ UNCHANGED <<world, boot, discovery, screen, form, requests, session, shell, loader, everywhere, now>>

-----------------------------------------------------------------------------
(* The shell *)

Shell(s) ==
  /\ screen = "shell" /\ shell' = s
  /\ UNCHANGED <<world, boot, discovery, screen, form, requests, servers, session, now>>

\* Every drawing of the shell makes the current screen anew: renderContent.
Drawn(s) == [s EXCEPT !.draft = FALSE]

\* The router calls back with a route: its screen is drawn, and the plugin it
\* belongs to is imported unless that is done or under way.
Routed(s, p) ==
  /\ Shell(Drawn([s EXCEPT !.route = p]))
  /\ loader' = [loader EXCEPT !.modules =
                  [q \in Plugins |-> IF q = p /\ @[q] = "absent" THEN "loading" ELSE @[q]]]
  /\ UNCHANGED everywhere

\* The end of loadPlugins, the route of the address bar, and the banner is asked for.
loadPlugins ==
  /\ shell.plugins = "loading"
  /\ \E p \in Plugins \cup {"home"} :
       Routed([shell EXCEPT !.plugins = "loaded", !.reading = TRUE], p)

navigate(p) == shell.plugins = "loaded" /\ Routed(shell, p)

\* ensureComponentLoaded: an import that failed is forgotten.
Imported(p) ==
  /\ loader.modules[p] = "loading"
  /\ \E m \in {"ready", "absent"} : loader' = [loader EXCEPT !.modules[p] = m]
  /\ UNCHANGED <<world, boot, discovery, screen, form, requests, servers, session, shell, everywhere, now>>

Work ==
  /\ shell.route \in Plugins /\ loader.modules[shell.route] = "ready"
  /\ Shell([shell EXCEPT !.draft = TRUE])
  /\ UNCHANGED <<loader, everywhere>>

\* toggleNavCollapsed, syncIsMobile.
Redraw == shell.draft /\ Shell(Drawn(shell)) /\ UNCHANGED <<loader, everywhere>>

\* getActiveBanner: the first without an end or not over yet; an end that is no
\* date is 0.  A failed read finds none.
Active(u) == u = Forever \/ (u # Forever /\ u > now)
getActiveBanner ==
  LET active == {i \in DOMAIN world.banners : Active(world.banners[i])}
  IN  IF active = {} THEN None ELSE world.banners[CHOOSE i \in active : \A j \in active : i <= j]

\* A browser timer set further ahead than it can count fires at once.
Delay(u) == IF u - now > TIMER_MAX THEN 0 ELSE u - now

applyBanner(b) ==
  Drawn([shell EXCEPT !.reading = FALSE, !.banner = b,
                      !.timer = IF b \in {None, Forever} THEN None ELSE now + Delay(b)])

BannerRead ==
  /\ shell.reading
  /\ \E b \in {getActiveBanner, None} : Shell(applyBanner(b))
  /\ UNCHANGED <<loader, everywhere>>

Due == screen = "shell" /\ shell.timer # None /\ shell.timer <= now

BannerOver ==
  /\ Due
  /\ Shell(Drawn([shell EXCEPT !.banner = None, !.timer = None]))
  /\ UNCHANGED <<loader, everywhere>>

\* The timer is taken to be on time.
Tick ==
  /\ now < MaxTime /\ ~Due
  /\ now' = now + 1
  /\ UNCHANGED <<world, boot, discovery, screen, form, requests, servers, session, shell, loader, everywhere>>

\* The dialog reads the record and the remembered answer each time it opens.
handleLogout ==
  /\ shell.plugins # "none" /\ shell.dialog = None
  /\ Shell([shell EXCEPT !.dialog = [rp |-> session = "rp", everywhere |-> everywhere]])
  /\ UNCHANGED <<loader, everywhere>>

toggleEverywhere ==
  /\ shell.dialog # None /\ shell.dialog.rp
  /\ Shell([shell EXCEPT !.dialog.everywhere = ~@])
  /\ UNCHANGED <<loader, everywhere>>

closeDialog ==
  /\ shell.dialog # None
  /\ Shell([shell EXCEPT !.dialog = None])
  /\ UNCHANGED <<loader, everywhere>>

\* Only an answer that was asked for is remembered; the local session goes
\* first, then the page.
Remembered(asked) == IF asked.rp THEN asked.everywhere ELSE everywhere

handleLogoutConfirmed ==
  /\ shell.dialog # None
  /\ session' = "none"
  /\ everywhere' = Remembered(shell.dialog)
  /\ IF shell.dialog.rp /\ shell.dialog.everywhere /\ session = "rp"
     THEN screen' = "away" /\ shell' = NoShell /\ UNCHANGED form
     ELSE initLogin(discovery)
  /\ UNCHANGED <<world, boot, discovery, requests, servers, loader, now>>

\* A 401 the probe confirms: logout().
Expire ==
  /\ screen = "shell"
  /\ session' = "none" /\ initLogin(discovery)
  /\ UNCHANGED <<world, boot, discovery, requests, servers, loader, everywhere, now>>

-----------------------------------------------------------------------------

LoginStep ==
  \/ handleCompanionInput \/ handleCompanionSelectChange \/ handleAddServerInput
  \/ cancelAddServer \/ confirmAddServer \/ clearCurrentServer \/ Elsewhere
  \/ handleSubmit \/ handlePastedToken \/ startIdpLogin
  \/ (\E r \in requests : SignedIn(r) \/ Refused(r) \/ Redirected(r))

ShellStep ==
  \/ loadPlugins \/ (\E p \in Plugins : navigate(p) \/ Imported(p))
  \/ Work \/ Redraw \/ BannerRead \/ BannerOver \/ Tick
  \/ handleLogout \/ toggleEverywhere \/ closeDialog \/ handleLogoutConfirmed \/ Expire

Next == Callback \/ Restore \/ Discover \/ Discovered \/ LoginStep \/ ShellStep

Spec == Init /\ [][Next]_vars

-----------------------------------------------------------------------------
(* Properties *)

\* The screens, the session and what is stored keep their shape.
TypeOK ==
  /\ boot \in {"start", "native", "config", "session", "done"}
  /\ screen \in {"none", "login", "shell", "away"}
  /\ servers \in Seq(Urls) /\ form.recent \in Seq(Urls)
  /\ form.server \in Urls \cup {None} /\ form.typed \in Urls \cup {None}
  /\ session \in {"none", "cookie", "jwt", "rp"}
  /\ shell.plugins \in {"none", "loading", "loaded"}
  /\ shell.route \in Plugins \cup {"home", None}
  /\ loader.modules \in [Plugins -> {"absent", "loading", "ready"}]
  /\ everywhere \in BOOLEAN /\ now \in 1..MaxTime

Usable(path) == IF world[path] = None THEN <<>> ELSE normalize(world[path])

\* Once nothing was missed, the login screen offers a provider when CouchDB's own
\* list or, failing that, the idp database has a usable one: neither an empty
\* answer nor a refused one hides the other (discoverIdps, initLogin).
OffersWhatIsPublished ==
  screen = "login" /\ boot = "done" /\ discovery.asked /\ ~discovery.missed =>
    /\ form.jwt = world.jwt
    /\ \/ Usable("native") # <<>> /\ form.idps = Usable("native")
       \/ Usable("native") = <<>> /\ form.idps = Usable("config")

\* A button of the login screen is for one issuer, no other is for that issuer
\* too, and it can start a login (normalize, dedupeByIssuer).
OneButtonEach ==
  \A i \in DOMAIN form.idps :
    /\ form.idps[i].complete
    /\ \A j \in DOMAIN form.idps : form.idps[i].issuer = form.idps[j].issuer => i = j

\* The buttons are disabled exactly while a sign-in of this login screen is
\* under way, however the screens were swapped meanwhile.
LoadingIsWaiting == form.loading = \E r \in requests : r.mine

\* The server selected is one the select shows, whatever was added, cleared or
\* written by another tab (cca-login, recent-servers).
ChosenIsOffered ==
  form.recent # <<>> /\ form.server # None => form.server \in ToSet(form.recent)

\* The remembered servers are distinct and bounded, the last used first.
ServersOnce ==
  Cardinality(ToSet(servers)) = Len(servers) /\ Len(servers) <= MAX_ENTRIES

\* Every shell of the page shows the plugins, which are registered once however
\* many shells come and go (loadPlugins, discoverAndRegister).
PluginsOnce ==
  /\ loader.registered <= 1
  /\ screen = "shell" => loader.registered = 1

\* A banner does not outlive its end, on whichever shell it is (applyBanner).
BannerInTime ==
  shell.banner \notin {None, Forever} => shell.timer # None /\ (shell.banner > now \/ Due)

\* Once the boot is over the dialog offers to leave the provider exactly when there
\* is a session there that this browser can end (cca-logout-dialog).
DialogOffersWhatCanEnd ==
  boot = "done" /\ shell.dialog # None => shell.dialog.rp = (session = "rp")

\* The remembered answer changes only by one who was asked.
AnswerIsTheUsersStep == everywhere' # everywhere => shell.dialog # None /\ shell.dialog.rp
AnswerIsTheUsers == [][AnswerIsTheUsersStep]_vars

\* The boot over, the shell is there exactly when there is a session.
ScreenIsTheSessions == boot = "done" /\ screen # "away" => (screen = "shell") = (session # "none")

\* A banner is taken away only at its end.
BannerStaysStep ==
  screen = "shell" /\ screen' = "shell" /\ shell.banner # None /\ shell'.banner = None =>
    shell.banner # Forever /\ shell.banner <= now
BannerStays == [][BannerStaysStep]_vars

\* Work on a screen is lost only by leaving the screen.
WorkSurvivesStep ==
  shell.draft /\ screen' = "shell" /\ shell'.route = shell.route => shell'.draft
WorkSurvives == [][WorkSurvivesStep]_vars

\* One server is remembered once.
OneServerOnce == \A i, j \in DOMAIN servers : Stripped[servers[i]] = Stripped[servers[j]] => i = j

\* Clearing one server forgets no other.
OthersKeptStep ==
  Len(form'.recent) < Len(form.recent) => ToSet(servers) \ {form.server} \subseteq ToSet(servers')
OthersKept == [][OthersKeptStep]_vars

\* A page that started with a session still offers the providers after it ends.
StillOffered ==
  screen = "login" /\ boot = "done" /\ ~discovery.missed => discovery.asked
=============================================================================
