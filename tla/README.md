# Couch Companion in TLA+

Couch Companion is an admin UI for CouchDB with no server of its own: every tab
is a program that talks straight to CouchDB, to GitHub and to an identity
provider (IdP). There is no lock and no transaction anywhere. What makes it hard
is that each operation is a chain of HTTP requests, that other tabs, other
admins, `git push` and expiry act between any two of them, and that a tab may be
reloaded or closed in the middle of a chain. Its screens add a hazard of their
own: a user goes on clicking and typing while answers are outstanding, and an
answer is applied to whatever the screen shows by then.

The modules here model that: one atomic step per request, taken when its server
acts on it, with everything that may happen in between as actions of their own.
TLC checks small instances; TLAPS proves the central facts for all of them.
Source paths below are relative to the repository's `src/`.

## 1. Inventory

### Design-document sync

`services/design-mgmt-service.ts` (sync half), `services/git/*`.

- *State*: the design documents and their revisions in CouchDB; the branch of a
  GitHub repository; `sync:` records (the revision and blob sha last known equal)
  and `conflict:` records in the `couchcompanion` database; the local variables of
  each running call.
- *Operations*: `syncToRepo`, `syncToCouch`, `deleteRepoDocs`, `forgetSyncState`,
  `resolveConflict`; inside them `listTree`, `readAndClassify` (three concurrent
  reads), `commitFiles`, `saveSyncState`, `writeConflict`.
- *Hard*: the sha a document is classified by and the content it is compared with
  come from different reads; the commit is built on a tip read later still; the
  record of a write is another request that can fail; two tabs can do all of this
  at once.
- *Correct when*: no direction overwrites content that exists nowhere else;
  records are true; conflicts are real and stay acknowledged; every call ends.

### Repository registry

`registerRepo`, `unlinkRepo`, `deleteRepo`, `detachTarget` of
`services/design-mgmt-service.ts`; `services/repo-targets.ts`;
`services/git/couchcompanion-store.ts`.

- *State*: `git_repo` documents with their targets, and the records that name one.
- *Hard*: a get, then a put that carries a revision of its own over a body built
  from an older listing; `Promise.all` over several strips, of which one may fail
  while the rest go on.
- *Correct when*: a database belongs to one repository; a registration that fails
  half-way leaves it tracked; other databases are not disturbed; no record is left
  naming a repository that does not track its database.

### Session, login and logout

`services/api-client.ts`, `auth-service.ts`, `oidc-service.ts`,
`deployment-mode.ts`, `app.ts`, `cca-login.ts`, `cca-shell.ts`.

- *State*: the browser's cookie jar (shared with other tabs), `sessionStorage` of
  the tab, the bearer in memory, requests in flight, the screen mounted, the
  servers remembered in `localStorage`.
- *Operations*: password login with its cross-site confirmation, pasted token, PKCE
  login and its callback, `restore()` at boot, the shared 401 probe, logout with and
  without the round trip to the IdP; discovery of what a server offers; the shell's
  banner, plugins and logout dialog.
- *Hard*: every one of them awaits a request and then acts on what it knew before;
  redirects and reloads cut them at any point; sessions expire by themselves.
- *Correct when*: a session starts whole, ends whole, and ends only when it should;
  a dead one is noticed; an authorization code is spent once; the login screen offers
  what the selected server publishes.

### Identity providers

`services/idp-service.ts` with `idp-discovery.ts`, `native-idp.ts`,
`oidc-ini.ts`, `idp-origins.ts`, `jwk-to-pem.ts`, the screens of `plugins/idp/`
and the policy switch `cca-csp-check.ts`.

- *State*: sections `[oidc]` and `[jwt_keys]` of CouchDB's configuration, from which
  a provider is put together; the four keys an apply writes; the database `idp` with
  its one document; the `connect-src` list of the Content-Security-Policy.
- *Operations*: `createIdp`, `updateIdp`, `refreshIdp`, `deleteIdp`, `applyIdp`,
  `restartNode`; `releaseCspOrigins` after a delete; the callout that adds origins and
  takes them back.
- *Hard*: configuration has no revisions and no transaction; every operation may stop
  between any two keys; the policy is read, changed and replaced.
- *Correct when*: a provider is whole, or at least still there, and visible when it is
  trusted; it is advertised only once it works; no origin is taken from another one.

### Companion store and git credentials

`CouchCompanionStore` creates its database lazily, with one shared look-up and a
cached "exists" flag; `GitCredentialStore` keeps a token in memory, IndexedDB or
CouchDB, as the user chose. Hard: two tabs creating at once, a look-up that outlives
the database, a `get` in flight while the token is forgotten. Correct when: an
operation takes effect at most once and what it reports was so while it ran; a token
is only where the account says it is kept, whatever copies a tab still had in hand.

### Services without a screen

- *View runner* (`view-runner.ts`, `view-runner-host.ts`): map and reduce in a worker
  whose late answer races a timeout, or in the page when there is no worker.
- *Reachability* (`reachability-status-service.ts`, `cca-real-time-status.ts`): one
  polling session per server, overlapping checks, paused with visibility.
- *Router* (`router.ts`): its own hash writes told from the user's by a counter;
  guards for unsaved work; a depth that says whether Back stays inside.
- *Cross-tab events* (`customEventRouter.ts`, `transports/*`): callbacks that publish
  and unsubscribe in turn; relayed by a shared worker or a broadcast channel.

### Screens that list

Version control (`repo-overview.ts`), documents of a database (`doc-browser.ts`),
databases (`db-list.ts`), design documents (`design-list.ts`), Mango query
(`doc-query.ts`), nodes compared (`cca-config-compare.ts`), users
(`cca-users-list.ts`, `cca-user-detail.ts`), recorded conflicts
(`conflict-viewer.ts`), replications (`repl-list.ts`), topology
(`server-topology.ts`, `topology-model.ts`), server dashboard
(`server-dashboard-service.ts`, `active-tasks.ts`), and the page around them
(`app.ts`, `cca-login.ts`, `cca-shell.ts`). Their state is rows, a page position, a
selection, dialogs and the loads in flight. Hard: loads overlap, a row's dialog
outlives the row, a page token belongs to another sort, a deletion uses the revision
that was listed. Correct when: once nothing is in flight the rows are the server's;
an action hits the row that was chosen; a spinner is up exactly while one waits.

### Screens that edit

Design document (`view-editor.ts`), document and attachments (`doc-editor.ts`,
`attachments.ts`), replication (`repl-editor.ts`, `replication-service.ts`) and its
endpoints (`repl-auth-panel.ts`, `repl-db-browser.ts`, `repl-filter-*.ts`), query
history (`query_history.ts`), indexes (`index-manage.ts`), selector builder
(`cca-mango.ts`), repository drawer (`design-list.ts`), policy callout
(`cca-csp-check.ts`), permissions and creation of a database
(`manage-permissions.ts`, `db-create.ts`), node configuration and CORS
(`cca-config.ts`, `cca-config-cors.ts`), provider forms (`idp-add.ts`,
`idp-detail.ts`). Their state is a draft, what it was loaded from, and saves in
flight. Hard: the answer of a save lands on a draft that has moved on; what was loaded
is stale when it is written back; a mask stands for a credential. Correct when:
unsaved work is known to be unsaved; a save stores what its author saw; nothing the
user did not touch is lost; no credential in a URL follows it to another server.

### How they interact

Everything goes through `ApiClient.send`, whose 401s feed the session component.
The registry decides which repository a sync talks to (`resolveSyncTarget`), and its
sweeps remove the sync's records: DesignSync has the sweep as the action
`StartSweep`, and RepoRegistry has the saving of a record as `StartSync`/`PutMark`,
so that each module holds the part of the other it is exposed to. Both use the
companion store's `put`, `get` and `delete`. A screen's services are seen from the
screen: one request, served at one moment between its sending and its answer; the
inside of the request is the service's own module.

## 2. Plan

| order | module | models | composes / abstract specification | state |
|---|---|---|---|---|
| 1 | `SafeExchange`, `DesignSync`, `DesignSyncProofs` | the sync, request by request | implements `SafeExchange` | done, proved |
| 2 | `RepoRegistry`, `RepoRegistryProofs` | which repository tracks which database | - | done, proved |
| 3 | `Session`, `SessionProofs` | login, logout, boot, the 401 probe | - | done, proved |
| 4 | `IdpConfig`, `IdpConfigProofs` | identity providers and their policy | - | done, proved |
| 5 | `CompanionStore`, `DocStore`, `ServicesProofs` | lazy creation of the database, shared look-ups | implements `DocStore` | done, proved |
| 6 | `GitAccounts`, `Poller`, `ViewRunner`, `Navigation`, `EventRouter` | where tokens are kept; services without a screen | `MCServices` | done; all but `EventRouter` proved in `ServicesProofs` |
| 7 | `RepoOverview`, `DocBrowser`, `DbList`, `DesignList`, `DocQuery`, `ConfigCompare`, `Users`, `ConflictViewer`, `ReplicationList`, `Topology`, `ServerDashboard`, `Entrance` | the screens that list, and the page | `MCLists` | done |
| 8 | `ViewEditor`, `DocEditor`, `ReplicationEditor`, `EndpointForm`, `QueryHistory`, `IndexManager`, `MangoBuilder`, `LinkDrawer`, `CspCheck`, `Access`, `ConfigScreen`, `IdpForm` | the screens that edit | `MCEditors` | done |
| 9 | `ListsProofs`, `EditorsProofs` | safety of the screens, each an instance of its module | - | eight screens that list, eight that edit; section 7 says what stays with TLC |

Runs are chosen by question, not by module: the screens share two runs, which ask one
question each of all of them, and the services share one.

## 3. Modules and the code

In every module a *call* is one invocation of a method; `pc`, or `call[c].pc`, is the
request it will make next, and the other variables of the call are its local variables
in the code. A step is one request taken where its server acts on it, together with the
code that runs until the next `await`. A request that fails, a lost answer and a tab
that closes are the same thing for a chain without `catch`: it never goes on (`Abort`,
`End`). Where the code catches (`PutConflict`, `Heal`, `removeAll`, `DeleteFails`,
`GetDoc`), the step has the branch that goes on.

**`SafeExchange`** has no calls: a database of documents and a branch of files. The app
writes only bodies the branch has held over bodies the branch has held, and commits only
files that render bodies CouchDB has held.

**`DesignSync`** models `syncToRepo`, `syncToCouch`, `deleteRepoDocs`, the sweeps and
`resolveConflict`. `couch[d]` keeps all revisions, so that a record can be checked
against what it named; `pushed` is a history variable. Contents are abstract: `BodyOf`
is what `parseRepoFile` makes of a blob, `Canon` what `serializeDdoc` makes of a body,
and a blob is its own sha because git addresses files by content. `readAndClassify`
is three reads answered in any order over the sha of the earlier listing; `commitFiles`
is `ReadHead` and `UpdateRef`: blobs, tree and commit are invisible until the ref moves.
`classify`, `resolveUnknown`, `canApply` are operators of the same names.

**`RepoRegistry`** models `registerRepo`, `unlinkRepo`, `deleteRepo` over `git_repo`
documents with CouchDB's revisions and tombstones. `store.put` is a get followed by a
put that carries what the get found (`Carried`). The strips of `Promise.all` run side by
side and go on when one of them fails. `alone` is a history variable: no other call has
been under way since this one started.

**`Session`** models one tab. `net` holds the requests in flight, each with the
credential it was sent with; its answer and the code that awaits it are one step. Other
tabs change the cookie jar (`OtherTab`), sessions expire (`Expire`), the page reloads
(`Reload`) and comes back from the IdP (`Return`). `crossed` and `cut` are history
variables that name the two circumstances under which a session has fragments:
`NoFragments` leaves them out, and section 4 says what the code does in them.

**`IdpConfig`** models the configuration key by key. `oidc` and `keys` are the two
sections; a provider is the set of entries that name its issuer (`KeysOf`, as in
`providersFrom`). Since "the first entry of the section" depends on the order in which
CouchDB lists keys, an operation reads *any* of a provider's entries. `wiring` are the
four keys of an apply, `doc` the published document, `csp` the origins of `connect-src`.
`ApplyNew` is the registration screen, which applies what it has just created.
`running` says what the node's last restart picked up.

**`CompanionStore`** models the store of one tab request by request over a database that
others create, write and drop; a document's content is the call that wrote it.
**`DocStore`** is its abstract specification: an operation is open for a while and takes
effect at most once, and what it reports was true no earlier than the question its tab
had outstanding when it asked.

**`GitAccounts`** has one account document, the session cache of each tab, the browser's
IndexedDB, and each request on them as a step that may fail. **`Poller`** has the
subscribers, the interval, the overlapping checks of a session and the dots.
**`ViewRunner`** has the runs of one host, the worker, its timer and the rows a map
function emits before it throws. **`Navigation`** has the browser's history and its two
delayed tasks (`back()` and `hashchange`). **`EventRouter`** has the tabs' subscriptions,
the callbacks still to be run of a publish under way, and the transport.

**The list screens.** Each has the server's side as a variable that others change, the
rows and what else the element keeps, and `flying` or a set of loads: an answer is
applied as the code applies it, with or without the check that it is still wanted.
`DocQuery`, `DocBrowser` and `DbList` have the page position and its tokens; `DesignList`
the one prompt its operations share; `Topology` is the fold of documents into a graph,
against a definition of the picture read off all documents at once.

**The editors.** Each has the draft, what was loaded, the saves in flight and the
document that others write. `ReplicationEditor` and `EndpointForm` name a credential by
the server it is for; `MangoBuilder` has the selector as the tree the builder shows and
the text its host keeps; `IdpForm` has each call of `IdpService` as one read and one
write. `Access`, `ConfigScreen` and `IdpForm` are about what a form does with a load or
an answer that comes when it has been edited or left.

**Composites.** `MCLists`, `MCEditors` and `MCServices` instantiate the screens (or
services) side by side and open one at a time: `screen`, or `part`, says which, nothing
else of it moves, and the composites of `MCLists` and `MCEditors` let the screens share
slots of state, so that the states add up and do not multiply. Each of their properties
is a conjunction whose conjuncts are the screens' own properties, each under the name it
has in its module.


## 4. Runs

| run | instance | what it shows |
|---|---|---|
| `SyncPair` | one document in sync, two concurrent syncs, 3 revisions, 1 commit, edits and pushes by others at any time | a pull buries nothing that is only in CouchDB, records name revisions the branch has held, no conflict is invented, and the whole implements `SafeExchange` |
| `SyncQuiet` | one document, any start, files of five kinds (canonical, hand-formatted, unreadable, empty), one call of any kind at a time, with fairness | records and conflicts are true, a push destroys nothing, acknowledgements stay, every call ends |
| `SyncBatch` | two documents in one call, every failure between two requests | each record is saved for its own document and is true of both sides when it is saved; a pull with a conflict writes nothing |
| `SyncPushRace` | one sync and a foreign push | **violated**: `PushNeverDestroys` |
| `Registry` | two calls, two databases, two repositories, failures, any leftovers | a call that runs alone self-heals, never untracks, leaves others alone and strands nothing |
| `Session` | one cookie, one token, one PKCE attempt, one reload, one lost request, three deployments, with fairness | sessions start whole, end whole, end only when they should; a dead one ends once it is asked about |
| `Idp` | two providers sharing an origin, one with two keys, two settings; one call at a time, from every configuration failures and hand edits can leave | a provider is whole after each operation, survives, and is visible when trusted; an apply that reports success works; no shared origin is released |
| `Services` | the six services, one at a time, with fairness | the store implements `DocStore`; a token withdrawn stays withdrawn; status, events and results arrive |
| `Lists` | eleven list screens and the page | what a screen at rest shows is the server's, deletions hit what was listed, each step acts on what was chosen |
| `Editors` | twelve editors | unsaved work is known to be, saves store what their author saw, no credential in a URL moves to another server |
| `DesignUnlink` | the design-document list | **violated**: `OtherDatabasesStayLinked` |
| `IndexEdit` | the index screen | **violated**: `EditKeepsTheNewIndex` |

*Bounds.* `MaxRev` and `MaxCommits` bound a document's revisions and the branch: a
conflict needs one move on each side, and a third revision lets an edit follow a pull;
two calls, or one call and an edit, are what a race between a read and a later write
takes. Two bodies distinguish "same" from "different". Two databases, repositories
and providers are what it takes to disturb another one. `Session`'s single cookie and
token still allow a cookie session after a JWT session and back; a second of each adds
states but no new pair of a request and a stale credential. In `Idp` the initial states
stand for any number of earlier calls, so one call (two, with the apply that follows a
registration) covers each operation against each leftover.

Of the screens: two loads in flight (`MaxLoads`, `MaxFlying`) are what it takes for one
to land on the other; `DocBrowser` and `DocQuery` have one, because there the code itself
does not match answers (section *disagreements*) and the properties are about what the
screen does with its own page tokens. `IndexManager` and `Users` delete or save one row
at a time; the pages of the index list are left out. `MangoBuilder` takes two edits over
one nesting level. `LinkDrawer` has two loads and three picks. `CspCheck` has one callout
at work, three writes of its own and one by others. `ConflictViewer` has two documents
with two revisions each and two changes by others; `ReplicationList` two names and one
filter; `Topology` three documents of eight shapes, changes told before the load;
`ServerDashboard` three requests and one change, and stands for its four counting tiles
by one. `EndpointForm` takes three edits and two loads, with one secret. `Access` takes
one edit and two writes, and its one entry is the user's name and role. `ConfigScreen`
sends three requests, edits only origins, takes the four CORS defaults as two, and leaves
out the reads that outlive the screen. `IdpForm` has two hosts, three typed URLs, two maps
of which of them the browser can reach, two edits and two sends, fills the form in one
step and has one client and claim. `Entrance` has three deployments, three typed addresses
(two of one server, one invalid), one plugin, two remembered servers, two moments of time
and timers that are on time; error texts are left out.

The guards of the actions that change a server from outside (`EditCouch`, `ApplyPut`,
`Publish`, `Accepts` and their likes in the screens) stop at the bounds; nothing else
depends on them.

*Deadlock* is not checked: when all bounds are used up and every call is at rest, nothing
is left to do.

### Disagreements with a run

`SyncPushRace`: `commitFiles` asks for the tip again and overlays files that were
classified against an older listing, so a commit between the two is reverted although
the README says that sync "refuses to overwrite in the direction that would lose data".
`DesignUnlink`: the unlink of the design-document list removes the repository as a whole.
`IndexEdit`: an edit that keeps name and design document deletes, as the old index, the
one it has just created. `PROJECT.json` quotes the line each of them contradicts.

### Disagreements without a run

Each of these is a formula or a circumstance in the module named, which its checked
properties therefore leave out, or a divergence met while translating.

*Sync, registry, session, providers.* A conflict acknowledged between `writeConflict`'s
read of `resolved` and its write is unacknowledged again (`SyncQuiet` checks that it stays
when one call runs at a time). Two tabs that link one database to two repositories both
succeed. A reload inside the login callback leaves the RP-logout record to a cookie
session (`cut`); `restore()` writes back a user that has logged out meanwhile (`crossed`).
A probe sent with one session's credential ends the session that has replaced it.
`releaseCspOrigins` replaces the policy by one computed from an older list of providers,
so overlapping deletes can release a shared origin (the assumption `Exclusive` of the
theorem in section 6). Disconnect counts the repositories that are listed (`repo-overview.ts:628`), so a filter, or
one registered since, lets an account go that is in use (`AccountInUseStays`).

*Page and shell.* A banner with an end more than 2^31−1 ms ahead vanishes at once
(`cca-shell.ts:414`, `TIMER_MAX`). A second active banner does not take over when the first
expires. `renderContent` makes a new element whenever the shell renders, so that collapsing
the navigation, an expiring banner or a change of view mode drops the screen's unsaved work
(`WorkSurvives`). Discovery is skipped for a restored session, so that after its logout no
provider is offered (`StillOffered`). `bootstrap` acts on the authentication it read before
the discovery's `await`, and covers with a login screen a session that began meanwhile
(`ScreenIsTheSessions`). `http://x/` and `http://x` are remembered as two servers
(`OneServerOnce`). `clearCurrentServer` overwrites the stored list with its own snapshot
(`OthersKept`). `back()` after a redirect bounces off it (`Navigation`). A dot that first
subscribes in a hidden tab polls there (`Poller`).

*Store and services.* "Cleared only by a scan that 404s" is said of a flag that a write
clears too (`CompanionStore`). The view runner "drops only the one document a map function
fails on", but keeps the rows it emitted before it threw (`ViewRunner`).

*List screens.* A page token is used with another sort when loads overlap
(`doc-browser.ts:270`, `TokensOfThisSort`). A failed re-run of a query has dropped the
bookmarks, so that Next shows the first page as the second; the history records the query
that is in the editor when the answer comes; the sort of an applied snapshot is lost at the
builder's next edit (`DocQuery`). Results of a comparison are not matched to the nodes
shown; a copy is spread over configurations read before its `await`; a reloaded node that
is no column is added (`ConfigCompare`). A user created through the Source tab skips the
password checks; a form whose load failed is submitted without `_id`; a late answer to a
save navigates away (`Users`). The comparison of two versions takes the file of the moment, not the one the card names, and
stays when the card is replaced (`ComparisonIsOfTheCard`); acknowledging a card acknowledges
what a sync has recorded since (`AcknowledgesTheCard`). A deletion of a replication reads the
revision when it deletes, and so takes what the row has become (`DeletesTheRow`); the answer of
a deletion that was cancelled too late closes the dialog of another (`DialogStays`). An endpoint
that is neither local nor a URL leaves the server of the other one drawn
(`topology-model.ts:332`, `NothingHalfDrawn`), and a path that does not decode takes the whole
picture down (`topology-model.ts:360`, `OneDocumentIsNotThePicture`). Whether a tile calls the
server reachable is a record of up to 30 s ago (`server-dashboard-service.ts:88`,
`ProbesFresh`); the rows of the active tasks are not matched to the route or to each other
(`RowsAreOfTheRoute`, `NewerRowsStay`).

*Editors.* Headers follow an edited server URL elsewhere (`repl-editor.ts:309`): what is
shown and proved of credentials is about those in a URL (`UrlCredentialsStayHome`). A failed
load of the query history is an empty list, and the next save wipes the stored one; its
revision is asked for after the entries were read; renamed titles are not kept; legacy
entries vanish at the next save (`QueryHistory`). An offer to create an index "re-issues
the exact request that failed", but runs what the editor holds by then. Ticks and edits of
indexes go by the design document alone; the edit stays set after a plain Create; a click on
another index while a creation runs makes that one the old one (`IndexManager`). Conditions joined by `$nor` are not
always emitted as such (`cca-mango.ts:1097`, `NorMeansNone`); the selector a replication
shows as applied need not be the one it saves (`repl-selector-section.ts:392`,
`AppliedSelectorIsSaved`); a new group collapses at once;
an emptied group is `{}`; the JSON pane's edits never reach the builder
(`cca-mango.ts:1506`); an empty placeholder makes Apply throw (`MangoBuilder`). An update of a
link that changes only its path takes the branch along (`design-list.ts:2133`,
`UpdateKeepsTheBranch`), and a registration may carry the branch of the repository picked
before (`BranchIsTheOnePicked`); the repositories of
account A may come under B; the prompt's second opening forgets the first's resolver
(`LinkDrawer`). The policy callout takes away an origin the operator had listed, writes over what came between
and cannot always take `unsafe-eval` back (`CspCheck`: `RemovesWhatItAdded`,
`NothingOverwritten`, `EvalCanBeTakenBack`). A blank row of the header table overwrites a stored
credential when applied (`repl-auth-panel.ts:291`, `NoGarbage`); filters listed may be of another
design document (`FiltersAreOfTheDdoc`); one field of the filter changes under the other
(`FieldsKeep`); a header typed but
not added is lost. Update after a failed or pending load writes empty permissions, and drops
fields it does not know; when the database is made but its permissions are not, the retry is
a 412; Cancel does not stop a creation, whose answer then navigates (`Access`). The
first of two origins added before it was read back is lost, and all are by switching CORS on
after a failed read (`OriginsSurvive`);
an empty list of origins is shown as all domains (`RestrictedIsShown`); a read of the screen unmounts
the CORS panel; an answer closes whichever draft is open (`ConfigScreen`). A provider's
late answer puts its buttons on the next screen (`HeaderStaysHome`) or leads away from it
(`AnswersStay`); the box for pasted keys is also offered when it is the discovery document that
cannot be read (`idp-service.ts:513`, `PasteHelps`); clearing the roles claim keeps it (`idp-service.ts:242`); a refresh that
overlaps a save takes the edit back; typing during a save is lost; "IdP deleted" and
"Restart requested" are said although they failed; one trailing slash of two is stripped
(`IdpForm`).

## 5. Fairness

`DesignSync`: weak fairness of `Step(c)`, for each call: a request is answered or fails,
which `fetch` guarantees (a connection is closed in the end), and `Abort` is among the
steps. Nothing is assumed of users, other admins or other tabs.

`Session`: the probe of a 401 and the request of `restore()` are answered or fail, and a
page that loads boots. No fairness is assumed of logins, logouts, expiry, reloads, the IdP
or the shell's reads: the screens load once, the reachability poll is a `GET /_up`, which
CouchDB answers without a session, and only the active-tasks page asks again for something
that wants one (`active-tasks.ts:146`). `RefusedSessionEnds` therefore starts at the probe
that a refusal has caused. A dead session of which nobody asks anything stays on the screen;
so does one whose refusal joins a probe that was sent with another credential, or that died
after CouchDB had answered the probe, until its next request is refused.

`Services`: the poller's interval ticks (`Tick`) and its requests are answered (`Answer`);
the view runner's timer fires (`OnTimeout`, which `setTimeout` guarantees). Nothing is
assumed of the worker, which may never answer.

The screens, `RepoRegistry` and `IdpConfig` have no liveness property in a run: their calls
end by themselves or with the tab.

## 6. Proofs

All theorems hold for every value of the constants under the named assumptions of the
modules, which TLC evaluates in each run. A theorem that needs more says so: `Exclusive`
is the constant under which calls do not overlap (in `DesignSync` also: nobody pushes or
acknowledges during a call), and `Parallel = 1` lets one job run at a time;
`EditConstants` only says that the sets of servers and databases are not empty. Where they are
needed the code really has no lock, and section 4 names what overlapping calls do. Under
them the rest still moves: edits in CouchDB at any time, pushes between calls, other
admins, failed requests, lost answers, closed tabs.

**`DesignSyncProofs`** has three invariants, each on top of the one before.

- `Inv`: types, "the tree's blobs were pushed" (`TreeHeld`), "a record names a revision
  whose body the branch has held" (`RecordsOk`) and, per call, `CallOk`: what it has read
  and queued is justified by a fact that cannot be undone. That is the point of the
  argument: revisions and `pushed` only grow (`Grows`), so a fact about a revision
  *number* is stable under other calls and foreign edits, whereas one about the live
  document is not. `PullIsHarmless` combines it with the 409 of `ApplyPut`: what is
  replaced is the revision that was classified. The pull's cases follow the verdicts:
  "only git moved" means the live revision is the recorded one. `ExchangeImplemented`
  maps `UpdateRef` to `Push`, `ApplyPut` to `Pull`, edits to `Save`, a foreign push to
  `ForeignCommit` and all else to a stutter.
- `PairInv` adds `TwoSided`: what is on its way to a conflict record has a revision and a
  file, and a pull that writes has met no conflict. From it follow `ConflictsHaveTwoSides`
  and `RefusedPullsWriteNothing`, for any number of calls at once.
- `QuietInv` adds, under `Exclusive`, that the records and the conflicts are true
  (`RecordsTrue`, `ConflictsTrue`) and that what the call has read still is so (`Quiet`):
  the branch is the one that was listed, an entry queued for saving is already true when it
  is queued, and no document is queued twice. An edit in CouchDB, or a push after the call,
  may make a record old but not wrong: it is about a revision and a blob, and both are
  kept. From it follow `RecordsAreTrue`,
  `ConflictsAreReal`, `PushIsHarmless`, `SavedRecordsAreCurrent` and
  `AcknowledgementsHold`. `PushIsHarmless` is the property that
  `SyncPushRace` violates when a push overlaps another commit: there the hypothesis fails.

**`RepoRegistryProofs`** is about a call that has the registry to itself since it started
(`alone`), beside documents that earlier races and failures may have left in any state. No
promise is inductive, since each is about one write that is harmless only because of the
requests before it; `Own` says what they have established. Until the call writes, its
listing is what the store holds; a registration claims its database before it strips the
others; a strip reaches a document only once the records of its target are swept.
`RegistrationHeals`, `NobodyLosesTrack` and `NoRecordIsStranded` follow, wherever the call
fails and in whichever order the strips of `Promise.all` go.

**`SessionProofs`.** `Inv` is `TypeOK`, with what is in flight (`NetOk`), "an attempt
still stored has not been spent" (`SpentOk`), and "nothing is kept while the page is
away" (`AwayOk`). `LiveSessionsStay` needs two more: the boot waits for one request at a
time (`BootOk`) and the 401s share a single probe (`ProbeOnce`), without which a late
second answer could end a newer session. `Whole` is the invariant of `SessionsAreWhole` and
`NobodyHoldsTheDropped`: which place of the page goes with which kind of user and request
(`PlaceOk`), that without a cross-site cookie no password login gets past its confirmation
(`CookielessOk`), and, unless `crossed`, that user, record, bearer and mounted screen agree
in each of the phases of a login, a boot and a logout (`Settled`).

**`IdpConfigProofs`.** `Inv` is `TypeOK`, `AdvertisedIsWired`, `CallOk` (what a call
holds where it is: a refresh has its metadata once it has read, a call at `csp` has both
operands) and `ApplyOk` (how far the wiring has come for an apply to be where it is).
`TypeOK` alone is not inductive, since what is written comes out of a call's locals.
`ApplyOk` is stable because the wiring is never unset and the database never closed
(`Grows`); so `NeverAdvertisedUnwired` holds for any number of overlapping applies.
`DeleteReleasesOnlyItsOwn` assumes `Exclusive` and adds `PolicyOk`: what a delete has
read of the list and the policy is still so. `SoloInv` says, under `Exclusive`, which keys
and entries a call has written so far and which it still has to (`Solo`), and that entries
carry key ids of their own issuer (`Chosen`, `Own`): keys are trusted after their entries
and entries are taken away after their keys, so that at each request in between the provider
is still there and visible. `ProvidersAreWhole`, `AppliedIsUsable` and `TrustStaysVisible`
follow; `ProvidersSurvive` also assumes that no two issuers publish the same key id, without
which an entry of one takes the place of the other's.

**`ServicesProofs`.**

- *`CompanionStore`.* `StoreInv` says of a call what its requests have established where it
  is: a revision it names was read while it was open (`RevOk`), an answer under way was true
  when it was given (`ReplyOk`), a shared look-up was sent after each of its callers asked
  (`TabOk`, `ViewOk`), and a first write answers 404 to nobody (`FirstOk`). The refinement
  `StoreKeepsItsPromise` takes the steps one by one: `Begin` is `Begin`; a write that the
  server accepts is the `Effect` of its call; reads, the creation of the database and the
  look-up's own request are stutters; a lost write and what others write are `Others`; an
  answer that ends a call, or all the calls that waited for one look-up, is `End`. The two
  hard steps are those: what a look-up found ends calls that began after it was answered,
  and what a call reports needs a moment at which it was true of all its documents.
- *`Navigation`.* `NavInv`: of the `hashchange` events outstanding, `pending` are the
  router's own, and each of the others takes back a step that is still counted in `depth`.
  That is why `DepthIsHonest`, which is about a moment with no event outstanding, is kept
  by steps that make the count wrong for a while.
- *`GitAccounts`.* `AccountInv` says for each place of each operation where the token may be
  (`Fine`): once a job writes a token to the account, IndexedDB is clear of it unless that
  failed unseen; a job that keeps a token has put it into its tab's cache first. It assumes
  `Parallel = 1`: of two jobs on one account at the same time each may take away the copy
  the other has just made, for `forget` and `put` are several requests and nothing orders
  them. `TokensHaveOneHome` and `TokensAreKept` follow.
- *`Poller`.* `PollInv` adds to `DotsAgree` and `PolledWhileWatched` that without
  subscribers the session knows no status and has no check under way that could publish one
  (`Abandoned`): else the next dot to mount would be told what another page had seen.
- *`ViewRunner`.* `RunInv`: before a run starts there is neither worker nor timer.

**`ListsProofs` and `EditorsProofs`** instantiate each screen and prove what the
composites check of it, for any sets of names, documents, databases and requests. What a theorem assumes of the
constants has the screen's name (`DocConstants`, `ViewConstants`, `ListConstants`,
`ConflictConstants`, `ReplConstants`, `DbConstants`, `OverviewConstants`, `DrawerConstants`,
`EditConstants`, `UserConstants`, `DashConstants`, `IdpConstants`, `PageConstants`):
bounds are numbers, `None` is none of the values it stands beside, maps lead where they say (a link from a
database to a repository, a repository to its account), and what a form needs exists. Two
say more. `UserConstants`: the mask of the Source tab is nobody's password.
`NearBanners`, for `BannersStay` alone: no banner ends later than a timer can count
(`TIMER_MAX`), for the timer of one that does fires at once and takes it away; the run's
banners are near, too. `Access`, `EndpointForm` and `ConfigScreen` need no assumption.

- *`DocEditor`.* `DocInv` ties every text the screen holds (buffer, loaded, saving) to the
  revision it came with: at CouchDB's revision it has CouchDB's attachments. An upload that
  was not asked about goes to a name that is free at its revision, so a stale panel is
  refused with 409 and a fresh one has asked.
- *`ViewEditor`.* `ViewInv`: at CouchDB's revision the editor was loaded with what CouchDB
  has (`ViewWorkOk`), a save in flight is no newer than the editor, and while one save is in
  its sync or its reload the editor's revision is old, so that another save is refused
  (`ViewRevsOk`). The result shown and the one under way are those of the function on the
  screen (`ViewTestOk`).
- *`ReplicationEditor`.* `EditInv` follows a revision from the server through the load, the
  form and the save: whatever carries the latest one agrees with the stored document in its
  hosts and its key, a save never carries a later one than the document it read back, and
  what is older is refused by CouchDB, so nothing has to be known of it. A creation never
  carries a mask, because a form that was not loaded has nothing for a mask to stand for;
  a document is only loaded into a form that edits. `CredentialsKeepTheirServers`
  and `ShownIsSaved` follow. `EditConstants`: there is a server, a
  database and a source endpoint, and `None` is no URL.
- *`DesignList`.* `ListInv` has a part for each thing the screen says. With no load due, and
  no switch over something in flight, what was listed is of the selection (`HomeOk`,
  `RepoOk`) and true (`ListsOk`); a load that is still due may be the one that makes it true
  (`UnreadOk`); `RightsOk` is about the answer on rights; `DialogOk` says that what is in the
  open dialog, and in a deletion that has started, was on the screen. Each action has a
  lemma, and each part a lemma that says which variables it depends on. The attempt to prove
  it found two things that one operation at a time had hidden from TLC, and the model was
  corrected: a registration, an unlinking or a reload may rebuild the rows under the open
  confirmation (`shifted`), and a deletion of both copies whose second half is cancelled or
  refused leaves the list as it was before the first half (`halved`).
- *`ConflictViewer`.* `CardsAreTheRecords` is inductive once it is known that cards are
  acknowledged on a list that has arrived (`ResolvingOk`).
- *`ReplicationList`, `DbList`, `RepoOverview`* number their reads, and drop all but the
  newest. Their invariants say that the newest read asks what is on the screen as soon as
  no keystroke waits (`ReadsOk`, `NewestAsks`, `OverviewAsks`), and that once it has landed
  so does the list (`ListAnswers`, `OverviewAnswers`). For what is *true* of the server they
  need that a read, in each of its requests, knows what is so of everything that has not
  changed since (`ReadsTrue`, `NewestIsTrue`).
- *`LinkDrawer`* numbers nothing: an answer is put on the screen whoever asked. `DrawerInv`
  holds as long as no two calls were under way at once (`OneCall`), the hypothesis of
  `OffersAreOfTheChoice` and `LinkHoldsTogether`: then what is in flight is of the account
  and the repository that are selected (`AccountsAgree`, `ReposAgree`).
- *`Access`.* `AccessReads` follows the lists nobody touched through the read, the form and
  every update in flight; `AccessCreation` keeps a creation's second request with what
  Create was pressed for.
- *`EndpointForm`.* A request has a number of its own, and the browser shows only the answer
  to its last (`EndpointBrowser`); a spinner has a request that ends it.
- *`Users`.* `UserInv`: the mask is in no document, no field and no request.
- *`ConfigScreen`.* `OptionsTrue`: unless something was lost or overtaken, what is shown is
  CouchDB's or a read is under way that will bring it; `OptionSpinner` and `OptionHeader`
  tie the spinner and the buttons to what is open.
- *`ServerDashboard`.* A fetch that waits for the shared record has it under way
  (`DashRecords`), a tile that waits has a fetch (`DashTiles`), and the task page's spinner
  a first load (`DashLoading`): the requests are shared and cached, and none is waited for
  in vain.
- *`IdpForm`.* A page registers or looks at a provider, never both. The keys of a
  registration are of its URL, except where that URL has a provider already (`IdpReg`). As
  long as the page was `alone` in changing it, what the screen shows is CouchDB's or a read
  of it is under way (`IdpShown`), which takes that a save and a refresh do not overlap
  (`OneWrites`).
- *`Entrance`.* `PageInv`: a login screen waits for at most one sign-in of its own, whatever
  older ones are still in flight (`PageWaits`); the session is the provider's only where
  none is under way, so that the logout dialog, once open, stays right (`PageSession`); a
  banner's timer is never later than the banner (`PageBanner`); the boot's chain of
  discoveries has found, at each of its requests, what was published unless one was missed
  (`PageOffers`).

## 7. Only model-checked

- Liveness (`CallSettles`, `RefusedSessionEnds`, `EverythingArrives`): the prover handles
  neither fairness nor `ENABLED`.
- The composites `ListsAreTrue`, `StepsAreTrue`, `EditorIsHonest` and `SavesAreHonest` as
  wholes: they include screens whose properties are about filtered sequences, and the
  editors include `MangoBuilder`, which is recursive. What they say of the screens of
  `ListsProofs` and `EditorsProofs` are theorems of those screens
  (`DeletesWhatWasListed` and `UrlCredentialsStayHome` are so entirely), except for
  - `EntriesOnce` and `NothingTypedIsLeft` of `Access`, `EveryUserOnce` of `Users`,
    `OneButtonEach`, `ChosenIsOffered` and `ServersOnce` of `Entrance`: what a filter or
    a fold does to a sequence of any length needs induction over it;
  - `OnlyWhatWasTyped` of `EndpointForm` and `AsksForTheDocument` of `IdpForm`, and
    `TypeOK` of `Access`, `EndpointForm`, `ReplicationEditor`, `Users`, `ConfigScreen`,
    `IdpForm` and `Entrance`, of which the theorems' invariants hold the parts they need.
- `DocBrowser`, `DocQuery`, `Topology`, `ConfigCompare`, `QueryHistory`, `IndexManager`,
  `MangoBuilder` and `CspCheck`: their properties are about slices, merges and rewritings
  of sequences and trees.
- Of `ServicesAreTrue`, what is said of folds and sorted sequences: `AnswerIsTheView` of
  `ViewRunner`, `TablesAgree` and `NoEcho` of `EventRouter`; and the types of those two. The rest are theorems.
- What a recursive definition computes for every input cannot be proved here (the
  induction theorems take operators); the modules that are proved about have none.

## 8. Not modelled

- *DesignSync*: rewritten branches and force-pushes; a listing that GitHub truncates;
  replication conflicts of a design document; a change of the tracked branch; the
  commit's message and author.
- *RepoRegistry*: strings and normalisation of URLs (`repoIdentity` is the equality of
  `Urls`).
- *Session*: display names; a `POST /_session` whose answer the tab no longer waits for;
  OAuth for git hosts.
- *IdpConfig*: the activity log, written after each operation and swallowed when it
  fails; an issuer that changes between registration and refresh; what a login does with
  the document.
- *GitAccounts*: a read of IndexedDB that fails.
- *CompanionStore*: calls about no document, such as `removeAll` of an empty list.
- *Screens*: layout, formatting, error texts, keyboard handling and validation that only
  colours a field; what a screen's module leaves out is in its head comment and under
  *Bounds*.
- Components left out as a whole: the banner editor (one table, one PUT), the plugin
  registry (a constant table), the membership service (one cached GET), the dialogs that
  show a query plan or lay out an index, web components and themes, and the HTTP
  transport except for its handling of 401 (in `Session`).
