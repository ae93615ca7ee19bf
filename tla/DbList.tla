-------------------------------- MODULE DbList --------------------------------
(* The database list (plugins/db-mgmt/db-list.ts) over DbMgmtService: loads that   *)
(* overlap, the refusal to enumerate and the open-by-name screen it turns into,     *)
(* the delete drawer, and the two requests that create a database (db-create.ts).   *)
(* Another administrator creates and drops databases, and opens or closes the        *)
(* listing (admin_only_all_dbs), between any two requests.                           *)
EXTENDS Naturals, FiniteSets

CONSTANTS
  Dbs, None,
  Found,        \* the databases the search text finds
  MaxLoads,     \* bound: loads started
  MaxOthers     \* bound: changes made by somebody else, and failed requests

VARIABLES
  existing,     \* the databases on the server
  secured,      \* those whose _security is the one asked for
  listable,     \* may this session enumerate them?
  search, order, timer,         \* the search box, the sort, the debounce
  loads, latest, loading,       \* loads in flight, _loadSeq, the spinner
  shown, shownFor, denied,      \* the rows, what they answer, the refusal screen
  drawer, deleting,             \* the delete drawer; the DELETE in flight
  probe,        \* the open-by-name probe in flight and its answer
  left,         \* the user has moved on to another screen
  opened,       \* the database a probe opened
  create,       \* the creation in flight
  others,
  moved         \* history: the server changed since the newest load was sent

vars == <<existing, secured, listable, search, order, timer, loads, latest, loading, shown,
          shownFor, denied, drawer, deleting, probe, left, opened, create, others, moved>>
server == <<existing, secured, listable>>
list == <<loads, latest, loading, shown, shownFor, denied>>
acts == <<drawer, deleting, probe, left, opened, create>>

NoLoad == [st |-> "none", q |-> FALSE, by |-> "name", names |-> {}]
Question(q, by) == [q |-> q, by |-> by]
Orders == {"name", "size"}
NoCreate == [db |-> None, st |-> "none"]

TypeOK ==
  /\ existing \subseteq Dbs /\ secured \subseteq existing /\ listable \in BOOLEAN
  /\ search \in BOOLEAN /\ order \in Orders /\ timer \in BOOLEAN /\ loading \in BOOLEAN
  /\ latest \in 0..MaxLoads /\ \A n \in 1..MaxLoads : n > latest => loads[n] = NoLoad
  /\ shown \subseteq Dbs /\ denied \in BOOLEAN /\ (denied => shown = {})
  /\ drawer \in Dbs \union {None} /\ deleting.st \in {"none", "sent", "done", "failed"}
  /\ probe.st \in {"none", "sent", "ok", "refused"} /\ opened \in Dbs \union {None}
  /\ left \in BOOLEAN /\ create.st \in {"none", "put", "security", "failed", "done"}
  /\ others \in 0..MaxOthers

Init ==
  /\ existing = Dbs /\ secured = Dbs /\ listable \in BOOLEAN
  /\ search = FALSE /\ order = "name" /\ timer = FALSE
  /\ loads = [n \in 1..MaxLoads |-> IF n = 1 THEN [NoLoad EXCEPT !.st = "names"] ELSE NoLoad]
  /\ latest = 1 /\ loading = TRUE /\ shown = {} /\ denied = FALSE
  /\ shownFor = Question(FALSE, "none")
  /\ drawer = None /\ deleting = [db |-> None, st |-> "none"] /\ probe = [db |-> None, st |-> "none"]
  /\ left = FALSE /\ opened = None /\ create = NoCreate /\ others = 0 /\ moved = FALSE

-------------------------------------------------------------------------------
(* Loads.                                                                       *)

Load ==
  /\ latest < MaxLoads /\ latest' = latest + 1 /\ loading' = TRUE /\ moved' = FALSE
  /\ loads' = [loads EXCEPT ![latest + 1] = [NoLoad EXCEPT !.st = "names", !.q = search', !.by = order']]
  /\ UNCHANGED <<shown, shownFor, denied>>

Here == ~left /\ drawer = None
Search ==
  /\ Here /\ ~denied /\ search' = ~search /\ timer' = TRUE
  /\ UNCHANGED <<server, order, list, acts, others, moved>>
Debounced ==
  /\ timer /\ timer' = FALSE /\ UNCHANGED <<search, order>> /\ Load
  /\ UNCHANGED <<server, acts, others>>

(* Clear and a click on a header drop the pending keystroke and load at once. *)
ReloadNow == timer' = FALSE /\ Load
ClearSearch ==
  /\ Here /\ ~denied /\ search' = FALSE /\ UNCHANGED order /\ ReloadNow
  /\ UNCHANGED <<server, acts, others>>
SortBy ==
  /\ Here /\ ~denied /\ ~loading /\ order' \in Orders \ {order} /\ UNCHANGED search /\ ReloadNow
  /\ UNCHANGED <<server, acts, others>>

(* listDatabases: the names, then the info of each; a database dropped between the *)
(* two has none and is skipped.                                                    *)
Names(n) ==
  /\ loads[n].st = "names"
  /\ loads' = [loads EXCEPT ![n] = [@ EXCEPT !.st = IF listable THEN "info" ELSE "refused",
                                             !.names = IF listable THEN existing ELSE {}]]
  /\ UNCHANGED <<server, search, order, timer, latest, loading, shown, shownFor, denied, acts, others, moved>>
Info(n) ==
  /\ loads[n].st = "info"
  /\ loads' = [loads EXCEPT ![n] = [@ EXCEPT !.st = "answered", !.names = loads[n].names \intersect existing]]
  /\ UNCHANGED <<server, search, order, timer, latest, loading, shown, shownFor, denied, acts, others, moved>>
Fails(n) ==
  /\ loads[n].st \in {"names", "info"} /\ others < MaxOthers /\ others' = others + 1
  /\ loads' = [loads EXCEPT ![n].st = "failed"]
  /\ UNCHANGED <<server, search, order, timer, latest, loading, shown, shownFor, denied, acts, moved>>

Filtered(q, dbs) == IF q THEN dbs \intersect Found ELSE dbs
Newest(n) == n = latest

(* A superseded answer is dropped.  A refusal is no fault: it replaces the rows by the *)
(* open-by-name screen, until a listing is served again.                                *)
Land(n) ==
  /\ loads[n].st \in {"answered", "refused", "failed"}
  /\ loads' = [loads EXCEPT ![n] = NoLoad]
  /\ IF ~Newest(n) THEN UNCHANGED <<loading, shown, shownFor, denied>>
     ELSE /\ loading' = FALSE
          /\ CASE loads[n].st = "answered" ->
                    /\ denied' = FALSE /\ shown' = Filtered(loads[n].q, loads[n].names)
                    /\ shownFor' = Question(loads[n].q, loads[n].by)
               [] loads[n].st = "refused" -> denied' = TRUE /\ shown' = {} /\ UNCHANGED shownFor
               [] loads[n].st = "failed" ->
                    UNCHANGED <<shown, denied>> /\ shownFor' = Question(FALSE, "failed")
  /\ UNCHANGED <<server, search, order, timer, latest, acts, others, moved>>

-------------------------------------------------------------------------------
(* Deleting a database.                                                         *)

ConfirmDelete ==
  /\ Here /\ ~denied /\ ~loading /\ drawer' \in shown
  /\ UNCHANGED <<server, search, order, timer, list, deleting, probe, left, opened, create, others, moved>>
CloseDrawer ==
  /\ drawer # None /\ drawer' = None
  /\ UNCHANGED <<server, search, order, timer, list, deleting, probe, left, opened, create, others, moved>>
DoDelete ==
  /\ drawer # None /\ deleting.st = "none" /\ deleting' = [db |-> drawer, st |-> "sent"]
  /\ UNCHANGED <<server, search, order, timer, list, drawer, probe, left, opened, create, others, moved>>
DeleteServed ==
  /\ deleting.st = "sent"
  /\ \/ /\ deleting.db \in existing /\ existing' = existing \ {deleting.db} /\ secured' = secured \ {deleting.db}
        /\ deleting' = [deleting EXCEPT !.st = "done"] /\ moved' = TRUE
     \/ /\ deleting.db \notin existing /\ deleting' = [deleting EXCEPT !.st = "failed"]
        /\ UNCHANGED <<existing, secured, moved>>
  /\ UNCHANGED <<listable, search, order, timer, list, drawer, probe, left, opened, create, others>>
DeleteLands ==
  /\ deleting.st \in {"done", "failed"} /\ deleting' = [db |-> None, st |-> "none"]
  /\ UNCHANGED <<search, order>>
  /\ IF deleting.st = "done" THEN drawer' = None /\ ReloadNow
     ELSE UNCHANGED <<drawer, timer, list, moved>>
  /\ UNCHANGED <<server, probe, left, opened, create, others>>

-------------------------------------------------------------------------------
(* Opening a database by its name, on the screen of a refusal.                  *)

OpenByName ==
  /\ denied /\ ~left /\ probe.st = "none" /\ \E d \in Dbs : probe' = [db |-> d, st |-> "sent"]
  /\ UNCHANGED <<server, search, order, timer, list, drawer, deleting, left, opened, create, others, moved>>
ProbeServed ==
  /\ probe.st = "sent"
  /\ probe' = [probe EXCEPT !.st = IF probe.db \in existing THEN "ok" ELSE "refused"]
  /\ UNCHANGED <<server, search, order, timer, list, drawer, deleting, left, opened, create, others, moved>>
(* The answer navigates wherever the user is by then. *)
ProbeLands ==
  /\ probe.st \in {"ok", "refused"} /\ probe' = [db |-> None, st |-> "none"]
  /\ IF probe.st = "ok" THEN opened' = probe.db /\ left' = TRUE /\ timer' = FALSE
     ELSE UNCHANGED <<opened, left, timer>>
  /\ UNCHANGED <<server, search, order, list, drawer, deleting, create, others, moved>>
(* Leaving drops the debounce only: loads and the probe stay in flight. *)
Leave ==
  /\ Here /\ left' = TRUE /\ timer' = FALSE
  /\ UNCHANGED <<server, search, order, list, drawer, deleting, probe, opened, create, others, moved>>

-------------------------------------------------------------------------------
(* createDatabase: PUT /{db}, then its _security; the second may fail.          *)

Create ==
  /\ left /\ create.st \in {"none", "failed"} /\ \E d \in Dbs : create' = [db |-> d, st |-> "put"]
  /\ UNCHANGED <<server, search, order, timer, list, drawer, deleting, probe, left, opened, others, moved>>
CreatePut ==
  /\ create.st = "put"
  /\ IF create.db \in existing THEN create' = [create EXCEPT !.st = "failed"] /\ UNCHANGED <<existing, moved>>
     ELSE existing' = existing \union {create.db} /\ create' = [create EXCEPT !.st = "security"] /\ moved' = TRUE
  /\ UNCHANGED <<secured, listable, search, order, timer, list, drawer, deleting, probe, left, opened, others>>
CreateSecurity ==
  /\ create.st = "security"
  /\ \/ /\ create.db \in existing /\ secured' = secured \union {create.db}
        /\ create' = [create EXCEPT !.st = "done"] /\ UNCHANGED others
     \/ /\ create' = [create EXCEPT !.st = "failed"] /\ UNCHANGED secured
        /\ (create.db \in existing) => others < MaxOthers
        /\ others' = IF create.db \in existing THEN others + 1 ELSE others
  /\ UNCHANGED <<existing, listable, search, order, timer, list, drawer, deleting, probe, left, opened, moved>>

Elsewhere ==
  /\ others < MaxOthers /\ others' = others + 1 /\ moved' = TRUE
  /\ \/ \E d \in existing : existing' = existing \ {d} /\ secured' = secured \ {d} /\ UNCHANGED listable
     \/ \E d \in Dbs \ existing : existing' = existing \union {d} /\ secured' = secured \union {d} /\ UNCHANGED listable
     \/ listable' = ~listable /\ UNCHANGED <<existing, secured>>
  /\ UNCHANGED <<search, order, timer, list, acts>>

Next ==
  \/ Search \/ Debounced \/ ClearSearch \/ SortBy
  \/ \E n \in 1..MaxLoads : Names(n) \/ Info(n) \/ Fails(n) \/ Land(n)
  \/ ConfirmDelete \/ CloseDrawer \/ DoDelete \/ DeleteServed \/ DeleteLands
  \/ OpenByName \/ ProbeServed \/ ProbeLands \/ Leave
  \/ Create \/ CreatePut \/ CreateSecurity \/ Elsewhere

Spec == Init /\ [][Next]_vars

-------------------------------------------------------------------------------
(* Overlapping loads: once nothing is in flight and no keystroke waits, the rows  *)
(* answer the search and the sort on the screen, and they are the databases of     *)
(* the server as long as it stood still since the newest load was sent; a refusal  *)
(* shows as long as, and only when, the newest listing was refused.                *)
Settled == ~left /\ ~timer /\ \A n \in 1..MaxLoads : loads[n] = NoLoad
SettledListIsTheServers ==
  Settled => \/ denied /\ (~moved => ~listable)
             \/ shownFor.by = "failed"
             \/ /\ shownFor = Question(search, order)
                /\ ~moved => (listable /\ shown = Filtered(search, existing))
===============================================================================
