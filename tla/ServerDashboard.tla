----------------------------- MODULE ServerDashboard -----------------------------
(* The server's home page and its list of active tasks.  The tiles of the home page     *)
(* publish a request, which ServerDashboardService answers (server-dashboard-service.ts) *)
(* in every tab that hears it, here in one of them; it reads the server's record from ServerMgmtService, which *)
(* keeps one for 30 s (server-mgmt-service.ts).  The task page polls (active-tasks.ts).    *)
EXTENDS Naturals, Sequences, FiniteSets, SequencesExt

CONSTANTS
  Answers,       \* what a server that is up may answer: the task types it runs just now
  Down,          \* it does not answer
  None,
  MaxRequests,   \* bound: requests, loads and reads, all together
  MaxChanges     \* bound: how often the server changes

VARIABLES
  page,          \* what the tabs look at: "dashboard" or "tasks"
  server,        \* a set of task types, or Down
  cache,         \* _serverList: [answer], or None
  inFlight,      \* _serverListInFlight: None, or [answer], None until the server gave it
  fetches,       \* the fetches under way: [n, tile, record, live]
  tile,          \* None, or tile |-> what it shows, None as long as it waits
  serverId, loads, tasks, _loading, _error, _loadedFor, _selectedType,   \* the task page
  requests, changes

vars == <<page, server, cache, inFlight, fetches, tile, serverId, loads, tasks, _loading,
          _error, _loadedFor, _selectedType, requests, changes>>
dashboard == <<cache, inFlight, fetches, tile>>
taskPage == <<serverId, loads, tasks, _loading, _error, _loadedFor, _selectedType>>

Welcome == "welcome"    \* the Server and Software tiles, which share their event
Counts == "counts"      \* storage, replications, tasks, providers: a read of its own each
Tiles == {Welcome, Counts}
Unread == None
Local == "local"
All == "$all"

TypeOK ==
  /\ page \in {"dashboard", "tasks"} /\ server \in Answers \union {Down}
  /\ cache # None => cache.answer \in Answers \union {Down}
  /\ \A f \in fetches : f.tile \in Tiles /\ f.n \in 0..requests
  /\ serverId \in {Local, All} /\ _loading \in BOOLEAN /\ _error \in BOOLEAN
  /\ requests \in 0..MaxRequests /\ changes \in 0..MaxChanges

Init ==
  /\ page \in {"dashboard", "tasks"} /\ server \in Answers \union {Down}
  /\ cache = None /\ inFlight = None /\ fetches = {} /\ tile = None
  /\ serverId = Local /\ tasks = [types |-> {}, of |-> 0, route |-> None]
  /\ loads = IF page = "tasks" THEN {[n |-> 1, initial |-> TRUE, route |-> Local, answer |-> Unread]} ELSE {}
  /\ _loading = (page = "tasks") /\ _error = FALSE /\ _selectedType = All
  /\ _loadedFor = (IF page = "tasks" THEN Local ELSE None)
  /\ requests = (IF page = "tasks" THEN 1 ELSE 0) /\ changes = 0

Change ==
  /\ changes < MaxChanges /\ changes' = changes + 1
  /\ server' \in (Answers \union {Down}) \ {server}
  /\ UNCHANGED <<page, dashboard, taskPage, requests>>

-------------------------------------------------------------------------------
(* listServers.  Thirty seconds pass; nothing else empties the cache.              *)

Expire ==
  /\ cache # None /\ cache' = None
  /\ UNCHANGED <<page, server, inFlight, fetches, tile, taskPage, requests, changes>>
Cached == IF cache = None THEN Unread ELSE cache.answer
Joined == IF cache = None /\ inFlight = None THEN [answer |-> Unread] ELSE inFlight

(* A welcome fetch that runs is shared; a new one begins with the record and a live read.   *)
Shared(k) == k = Welcome /\ \E f \in fetches : f.tile = Welcome
Asked(ks) == {k \in ks : ~Shared(k)}
Fetch(k) ==
  [n |-> IF k = Welcome THEN 0 ELSE requests', tile |-> k, live |-> Unread,
   record |-> IF k = Welcome THEN Cached ELSE Down]
Ask(ks) ==
  /\ requests < MaxRequests /\ requests' = requests + 1
  /\ fetches' = fetches \union {Fetch(k) : k \in Asked(ks)}
  /\ inFlight' = IF Welcome \in Asked(ks) THEN Joined ELSE inFlight

(* The tiles are put on the page, or Refresh is pressed: every tile's request is published. *)
Mount ==
  /\ page = "dashboard" /\ tile = None /\ tile' = [k \in Tiles |-> None] /\ Ask(Tiles)
  /\ UNCHANGED <<page, server, cache, taskPage, changes>>
_refresh ==
  /\ tile # None /\ Ask(Tiles) /\ UNCHANGED <<page, server, cache, tile, taskPage, changes>>
Leave ==
  /\ tile # None /\ tile' = None
  /\ UNCHANGED <<page, server, cache, inFlight, fetches, taskPage, requests, changes>>

(* The record's GET / is answered; it arrives, is kept, and goes to those who wait for it. *)
ListRead ==
  /\ inFlight # None /\ inFlight.answer = Unread /\ inFlight' = [answer |-> server]
  /\ UNCHANGED <<page, server, cache, fetches, tile, taskPage, requests, changes>>
_fetchServerList ==
  /\ inFlight # None /\ inFlight.answer # Unread /\ inFlight' = None /\ cache' = inFlight
  /\ fetches' = {IF f.record = Unread THEN [f EXCEPT !.record = inFlight.answer] ELSE f : f \in fetches}
  /\ UNCHANGED <<page, server, tile, taskPage, requests, changes>>
LiveRead(f) ==
  /\ f \in fetches /\ f.live = Unread
  /\ fetches' = (fetches \ {f}) \union {[f EXCEPT !.live = server]}
  /\ UNCHANGED <<page, server, cache, inFlight, tile, taskPage, requests, changes>>

(* What is published: the record with the live answer over it, or a count; an error when    *)
(* the read of a count failed, a liveError when only the live answer is missing.            *)
_onWelcome(record, live) ==
  [reachable |-> record # Down, liveError |-> live = Down, version |-> IF live # Down THEN live ELSE record]
_onCounts(live) == [error |-> live = Down, count |-> live]
Data(f) == IF f.tile = Welcome THEN _onWelcome(f.record, f.live) ELSE _onCounts(f.live)
Shown(k, data) == IF tile = None THEN tile ELSE [tile EXCEPT ![k] = data]
Publish(f) ==
  /\ f \in fetches /\ f.live # Unread /\ f.record # Unread
  /\ fetches' = fetches \ {f} /\ tile' = Shown(f.tile, Data(f))
  /\ UNCHANGED <<page, server, cache, inFlight, taskPage, requests, changes>>

(* Another tab's request is answered here as well, and what it publishes, from a record of    *)
(* its own, is shown here.                                                                   *)
RequestElsewhere ==
  /\ page = "dashboard" /\ Ask(Tiles) /\ UNCHANGED <<page, server, cache, tile, taskPage, changes>>
PublishElsewhere ==
  /\ \E record \in Answers \union {Down}, k \in Tiles :
       tile' = Shown(k, IF k = Welcome THEN _onWelcome(record, server) ELSE _onCounts(server))
  /\ UNCHANGED <<page, server, cache, inFlight, fetches, taskPage, requests, changes>>

-------------------------------------------------------------------------------
(* The task page.                                                                   *)

_load(initial, route) ==
  /\ requests < MaxRequests /\ requests' = requests + 1 /\ _loadedFor' = route
  /\ loads' = loads \union {[n |-> requests', initial |-> initial, route |-> route, answer |-> Unread]}
  /\ IF initial THEN _loading' = TRUE /\ _error' = FALSE ELSE UNCHANGED <<_loading, _error>>
(* The interval, the header's Refresh, and the page put back. *)
refresh ==
  /\ page = "tasks" /\ _load(FALSE, serverId)
  /\ UNCHANGED <<page, server, dashboard, serverId, tasks, _selectedType, changes>>
ChangeRoute ==
  /\ page = "tasks" /\ serverId' = (IF serverId = Local THEN All ELSE Local) /\ _load(TRUE, serverId')
  /\ UNCHANGED <<page, server, dashboard, tasks, _selectedType, changes>>
TasksRead(l) ==
  /\ l \in loads /\ l.answer = Unread
  /\ loads' = (loads \ {l}) \union {[l EXCEPT !.answer = server]}
  /\ UNCHANGED <<page, server, dashboard, serverId, tasks, _loading, _error, _loadedFor, _selectedType,
                 requests, changes>>
(* One server that does not answer fails the load; of "every server" it is a warning. *)
Fails(l) == l.answer = Down /\ l.route # All
_fetch(l) ==
  /\ l \in loads /\ l.answer # Unread /\ loads' = loads \ {l}
  /\ tasks' = IF Fails(l) THEN tasks
              ELSE [types |-> IF l.answer = Down THEN {} ELSE l.answer, of |-> l.n, route |-> l.route]
  /\ _error' = IF Fails(l) THEN _error \/ l.initial ELSE FALSE
  /\ _loading' = (_loading /\ ~l.initial)
  /\ UNCHANGED <<page, server, dashboard, serverId, _loadedFor, _selectedType, requests, changes>>

_types == tasks.types
_activeType == IF _selectedType \in _types THEN _selectedType ELSE All
_visible == IF _activeType = All THEN _types ELSE {_activeType}
ShowTab(type) ==
  /\ page = "tasks" /\ ~_loading /\ ~_error /\ type \in _types \union {All} /\ type # _selectedType
  /\ _selectedType' = type
  /\ UNCHANGED <<page, server, dashboard, serverId, loads, tasks, _loading, _error, _loadedFor, requests, changes>>

Next ==
  \/ Change \/ Expire \/ Mount \/ _refresh \/ Leave \/ ListRead \/ _fetchServerList
  \/ RequestElsewhere \/ PublishElsewhere \/ refresh \/ ChangeRoute
  \/ \E f \in fetches : LiveRead(f) \/ Publish(f)
  \/ \E l \in loads : TasksRead(l) \/ _fetch(l)
  \/ \E type \in _types \union {All} : ShowTab(type)

Spec == Init /\ [][Next]_vars

-------------------------------------------------------------------------------
Waiting(k) == tile # None /\ tile[k] = None

(* No request is lost to the sharing: a tile that waits has a fetch running for it, and a      *)
(* fetch that waits for the record has it under way.                                          *)
WaitingIsAnswered ==
  /\ \A k \in Tiles : Waiting(k) => \E f \in fetches : f.tile = k
  /\ \A f \in fetches : f.record = Unread => inFlight # None
  /\ Cardinality({f \in fetches : f.tile = Welcome}) <= 1

(* The task page's spinner has a load to wait for, and the table is empty only when the      *)
(* answer was: a tab whose type is gone does not stay selected over nothing.                   *)
TasksAreShown ==
  /\ _loading => \E l \in loads : l.initial
  /\ (_visible = {}) <=> (_types = {})

(* server-dashboard-service.ts:88-89, "this is not a cache - a request after completion        *)
(* always probes fresh".  The live details do; whether the tile calls the server reachable is  *)
(* a record of up to 30 s ago, beside live details that tell otherwise.                         *)
ProbesFreshStep ==
  \A f \in fetches' : (f.tile = Welcome /\ ~\E g \in fetches : g.tile = Welcome) => f.record = Unread
ProbesFresh == [][ProbesFreshStep]_vars

(* Rows are those of the route, and newer rows are not replaced by older ones.               *)
RowsAreOfTheRoute == (~_loading /\ loads = {} /\ ~_error /\ tasks.of # 0) => tasks.route = serverId
NewerRowsStayStep == tasks'.of >= tasks.of
NewerRowsStay == [][NewerRowsStayStep]_vars
===============================================================================
