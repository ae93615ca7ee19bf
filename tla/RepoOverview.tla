----------------------------- MODULE RepoOverview -----------------------------
(* The Version Control screen (plugins/design-mgmt/repo-overview.ts): the list of *)
(* git accounts with the repositories registered under them, its filtered loads,  *)
(* and the dialogs and the drawer that act on a row while loads and requests are  *)
(* in flight.  The services behind it answer each request at one moment between   *)
(* its sending and its landing; RepoRegistry and GitAccounts have their inside.   *)
EXTENDS Naturals, FiniteSets

CONSTANTS
  Accounts, Repos, Dbs, None,
  Owner,        \* the account each repository is registered under
  Matches,      \* the repositories the search text finds
  AccountModes, \* where a token may live
  MaxLoads,     \* bound: loads started
  MaxRequests   \* bound: deletions, unlinks and saves started

VARIABLES
  accounts, modes,      \* the service: the accounts that exist, and their modes
  targets,              \* the databases each registered repository is linked to
  filter, timer,        \* the search text is empty or not; the debounce runs
  loads, latest, loading,       \* loads in flight, _loadSeq, the spinner
  shownRepos, rows, rowModes,   \* repos, accountsWithRepos
  shownFor,             \* history: the search text of the list on the screen
  dialog,               \* the confirmation that is open, and for what
  drawer,               \* the account drawer
  requests              \* requests in flight

vars == <<accounts, modes, targets, filter, timer, loads, latest, loading, shownRepos, rows,
          rowModes, shownFor, dialog, drawer, requests>>
service == <<accounts, modes, targets>>
list == <<loads, latest, loading, shownRepos, rows, rowModes, shownFor>>

Registered == {r \in Repos : targets[r] # {}}
Closed == [account |-> None, mode |-> CHOOSE m \in AccountModes : TRUE, needsToken |-> FALSE, saving |-> FALSE]
NoDialog == [kind |-> "none", of |-> None, db |-> None]
NoRequest == [kind |-> "none", of |-> None, db |-> None, mode |-> Closed.mode, st |-> "none"]
Slots == 1..MaxRequests
NoLoad == [st |-> "none", q |-> FALSE, repos |-> {}, accounts |-> {}, modes |-> <<>>]

TypeOK ==
  /\ accounts \subseteq Accounts /\ modes \in [Accounts -> AccountModes]
  /\ targets \in [Repos -> SUBSET Dbs]
  /\ filter \in BOOLEAN /\ timer \in BOOLEAN /\ loading \in BOOLEAN
  /\ latest \in 0..MaxLoads /\ \A n \in 1..MaxLoads : n > latest => loads[n] = NoLoad
  /\ shownRepos \subseteq Repos /\ DOMAIN rows \subseteq Accounts
  /\ \A x \in DOMAIN rows : rows[x] \subseteq Repos
  /\ drawer.account \in Accounts \union {None}
  /\ \A s \in Slots : requests[s].st \in {"none", "sent", "done", "failed", "tokenRequired", "notLinked"}
  /\ shownFor \in {"nothing", "all", "matches", "failed"}

Init ==
  /\ accounts = Accounts /\ modes \in [Accounts -> AccountModes]
  /\ targets = [r \in Repos |-> Dbs]
  /\ filter = FALSE /\ timer = FALSE
  /\ loads = [n \in 1..MaxLoads |-> IF n = 1 THEN [NoLoad EXCEPT !.st = "sent"] ELSE NoLoad]
  /\ latest = 1 /\ loading = TRUE
  /\ shownRepos = {} /\ rows = [x \in {} |-> {}] /\ rowModes = modes /\ shownFor = "nothing"
  /\ dialog = NoDialog /\ drawer = Closed /\ requests = [s \in Slots |-> NoRequest]

-------------------------------------------------------------------------------
(* Loads.                                                                       *)

Load ==
  /\ latest < MaxLoads /\ latest' = latest + 1 /\ loading' = TRUE
  /\ loads' = [loads EXCEPT ![latest + 1] = [NoLoad EXCEPT !.st = "sent", !.q = filter']]
  /\ UNCHANGED <<shownRepos, rows, rowModes, shownFor>>

(* A keystroke waits out the debounce; the clear button and Refresh do not. *)
Bare == dialog = NoDialog /\ drawer = Closed      \* both are modal
Search ==
  /\ Bare /\ filter' \in BOOLEAN /\ filter' # filter /\ timer' = TRUE
  /\ UNCHANGED <<service, list, dialog, drawer, requests>>
Debounced ==
  /\ timer /\ timer' = FALSE /\ filter' = filter /\ Load
  /\ UNCHANGED <<service, dialog, drawer, requests>>
ReloadNow ==
  /\ Bare /\ filter' \in {filter, FALSE} /\ timer' = FALSE /\ Load
  /\ UNCHANGED <<service, dialog, drawer, requests>>

(* listRepos and getGitAccounts are asked together and answered apart: repositories *)
(* first or accounts first.                                                         *)
Found(q) == IF q THEN Registered \intersect Matches ELSE Registered
Answer(n) ==
  /\ \/ /\ loads[n].st \in {"sent", "accounts"}
        /\ loads' = [loads EXCEPT ![n].repos = Found(loads[n].q),
                       ![n].st = IF loads[n].st = "sent" THEN "repos" ELSE "answered"]
     \/ /\ loads[n].st \in {"sent", "repos"}
        /\ loads' = [loads EXCEPT ![n].accounts = accounts, ![n].modes = modes,
                       ![n].st = IF loads[n].st = "sent" THEN "accounts" ELSE "answered"]
  /\ UNCHANGED <<service, filter, timer, latest, loading, shownRepos, rows, rowModes, shownFor,
                 dialog, drawer, requests>>

Answering(q) == IF q THEN "matches" ELSE "all"
Newest_Any(n) == TRUE
Newest(n) == n = latest

(* Only the newest load may touch the screen; one without accounts shows none, and   *)
(* one that failed leaves what is there.                                             *)
Land(n) ==
  /\ loads[n].st \in {"repos", "accounts", "answered"}
  /\ loads' = [loads EXCEPT ![n] = NoLoad]
  /\ IF ~Newest(n) THEN UNCHANGED <<loading, shownRepos, rows, rowModes, shownFor>>
     ELSE /\ loading' = FALSE
          /\ IF loads[n].st = "accounts"
             THEN shownFor' = "failed" /\ UNCHANGED <<shownRepos, rows, rowModes>>
             ELSE /\ shownRepos' = loads[n].repos /\ shownFor' = Answering(loads[n].q)
                  /\ rows' = [x \in loads[n].accounts |-> {r \in loads[n].repos : Owner[r] = x}]
                  /\ rowModes' = IF loads[n].st = "repos" THEN rowModes ELSE loads[n].modes
  /\ UNCHANGED <<service, filter, timer, latest, dialog, drawer, requests>>

-------------------------------------------------------------------------------
(* The dialogs.  A request stays in flight when its dialog is closed.            *)

Ask(kind, of, db) ==
  /\ ~loading /\ Bare /\ dialog' = [kind |-> kind, of |-> of, db |-> db]
  /\ UNCHANGED <<service, filter, timer, list, drawer, requests>>

canDelete(x) == rows[x] = {}
ConfirmDeleteAccount == \E x \in DOMAIN rows : canDelete(x) /\ Ask("account", x, None)
ConfirmDeleteRepo == \E r \in shownRepos : Ask("repo", r, None)
ConfirmUnlink == \E r \in shownRepos, d \in Dbs : Ask("unlink", r, d)

Cancel ==
  /\ dialog # NoDialog /\ dialog' = NoDialog
  /\ UNCHANGED <<service, filter, timer, list, drawer, requests>>

Send(q) ==
  \E s \in Slots :
    /\ requests[s].kind = "none" /\ \A t \in Slots : t < s => requests[t].kind # "none"
    /\ requests' = [requests EXCEPT ![s] = q]

Confirm ==
  /\ dialog # NoDialog
  /\ Send([NoRequest EXCEPT !.kind = dialog.kind, !.of = dialog.of, !.db = dialog.db, !.st = "sent"])
  /\ UNCHANGED <<service, filter, timer, list, dialog, drawer>>

(* The service carries a request out, or it fails. *)
Done(s, st) == requests' = [requests EXCEPT ![s].st = st]
Carry(s) ==
  LET q == requests[s] IN
  /\ q.st = "sent"
  /\ \/ Done(s, "failed") /\ UNCHANGED service
     \/ /\ q.kind = "account" /\ accounts' = accounts \ {q.of} /\ Done(s, "done")
        /\ UNCHANGED <<modes, targets>>
     \/ /\ q.kind = "repo" /\ targets' = [targets EXCEPT ![q.of] = {}] /\ Done(s, "done")
        /\ UNCHANGED <<accounts, modes>>
     \/ /\ q.kind = "unlink" /\ q.db \notin targets[q.of] /\ Done(s, "notLinked")
        /\ UNCHANGED service
     \/ /\ q.kind = "unlink" /\ q.db \in targets[q.of] /\ targets' = [targets EXCEPT ![q.of] = @ \ {q.db}] /\ Done(s, "done")
        /\ UNCHANGED <<accounts, modes>>
     \/ /\ q.kind = "rename" /\ q.of \in accounts /\ Done(s, "done") /\ UNCHANGED service
     \/ /\ q.kind = "move" /\ q.of \in accounts
        /\ \/ modes' = [modes EXCEPT ![q.of] = q.mode] /\ Done(s, "done")
           \/ Done(s, "tokenRequired") /\ UNCHANGED modes
        /\ UNCHANGED <<accounts, targets>>
  /\ UNCHANGED <<filter, timer, list, dialog, drawer>>

Drop(s) == requests' = [requests EXCEPT ![s] = [NoRequest EXCEPT !.kind = "over"]]

(* What the answer of a deletion removes is read off its dialog as it is by then:  *)
(* closed, or open for another row.  deleteRepo's handler stumbles over a closed one. *)
LandDialog(s) ==
  LET q == requests[s]
      mine == dialog.kind = q.kind
      gone == IF q.kind = "unlink" THEN {q.of} ELSE IF mine THEN {dialog.of} ELSE {}
  IN
  /\ q.kind \in {"account", "repo", "unlink"} /\ q.st \in {"done", "failed", "notLinked"}
  /\ Drop(s)
  /\ dialog' = IF mine /\ q.st # "failed" THEN NoDialog ELSE dialog
  /\ IF q.st # "done" \/ (q.kind = "unlink" /\ targets[q.of] # {}) THEN UNCHANGED <<rows, shownRepos>>
     ELSE IF q.kind = "account"
     THEN rows' = [x \in DOMAIN rows \ gone |-> rows[x]] /\ UNCHANGED shownRepos
     ELSE /\ rows' = [x \in DOMAIN rows |-> rows[x] \ gone]
          /\ shownRepos' = shownRepos \ gone
  /\ UNCHANGED <<service, filter, timer, loads, latest, loading, rowModes, shownFor, drawer>>

-------------------------------------------------------------------------------
(* The account drawer.                                                          *)

OpenDrawer ==
  /\ ~loading /\ Bare
  /\ \E x \in DOMAIN rows : drawer' = [account |-> x, mode |-> rowModes[x], needsToken |-> FALSE,
                                        saving |-> FALSE]
  /\ UNCHANGED <<service, filter, timer, list, dialog, requests>>
ChooseMode ==
  /\ drawer.account # None /\ \E m \in AccountModes : m # drawer.mode /\ drawer' = [drawer EXCEPT !.mode = m]
  /\ UNCHANGED <<service, filter, timer, list, dialog, requests>>
CloseDrawer ==
  /\ drawer # Closed /\ drawer' = Closed
  /\ UNCHANGED <<service, filter, timer, list, dialog, requests>>

(* _saveAccountEdits: rename first, when the label changed, then move the token. *)
Save(s, renames) ==
  /\ drawer.account \in DOMAIN rows /\ ~drawer.saving
  /\ IF renames \/ drawer.mode # rowModes[drawer.account]
     THEN /\ Send([NoRequest EXCEPT !.kind = IF renames THEN "rename" ELSE "move",
                     !.of = drawer.account, !.mode = drawer.mode, !.st = "sent"])
          /\ drawer' = [drawer EXCEPT !.saving = TRUE]
     ELSE drawer' = Closed /\ UNCHANGED requests
  /\ UNCHANGED <<service, filter, timer, list, dialog>>

(* The mode to move to is read off the drawer after the rename, whatever account it   *)
(* shows by then; the stored mode is the one of the row when Save was clicked.        *)
LandSave(s) ==
  LET q == requests[s] IN
  /\ q.kind \in {"rename", "move"} /\ q.st \in {"done", "failed", "tokenRequired"}
  /\ CASE q.st = "failed" -> Drop(s) /\ drawer' = [drawer EXCEPT !.saving = FALSE] /\ UNCHANGED rowModes
       [] q.st = "tokenRequired" ->
            Drop(s) /\ drawer' = [drawer EXCEPT !.needsToken = TRUE, !.saving = FALSE] /\ UNCHANGED rowModes
       [] q.kind = "rename" /\ q.st = "done" /\ drawer.mode # rowModes[q.of] ->
            /\ requests' = [requests EXCEPT ![s] =
                 [q EXCEPT !.kind = "move", !.mode = drawer.mode, !.st = "sent"]]
            /\ UNCHANGED <<drawer, rowModes>>
       [] q.kind = "rename" /\ q.st = "done" /\ drawer.mode = rowModes[q.of] ->
            Drop(s) /\ drawer' = Closed /\ UNCHANGED rowModes
       [] q.kind = "move" /\ q.st = "done" ->
            Drop(s) /\ drawer' = Closed /\ rowModes' = [rowModes EXCEPT ![q.of] = q.mode]
  /\ UNCHANGED <<service, filter, timer, loads, latest, loading, shownRepos, rows, shownFor, dialog>>

Next ==
  \/ Search \/ Debounced \/ ReloadNow \/ \E n \in 1..MaxLoads : Answer(n) \/ Land(n)
  \/ ConfirmDeleteAccount \/ ConfirmDeleteRepo \/ ConfirmUnlink \/ Cancel \/ Confirm
  \/ OpenDrawer \/ ChooseMode \/ CloseDrawer
  \/ \E s \in Slots : Carry(s) \/ LandDialog(s) \/ LandSave(s) \/ \E b \in BOOLEAN : Save(s, b)

Spec == Init /\ [][Next]_vars

-------------------------------------------------------------------------------
(* Overlapping searches: once nothing is loading and no keystroke waits, the list  *)
(* on the screen is the answer to the text in the search box, in whatever order    *)
(* the answers came - unless the last load failed and left the previous list.      *)
Settled == ~timer /\ \A n \in 1..MaxLoads : loads[n] = NoLoad
SettledListMatchesFilter == Settled => shownFor \in {Answering(filter), "failed"}

(* repo-overview.ts: "Cannot disconnect: N repository(ies) are using this account. *)
(* Unlink all registered repositories first."                                      *)
AccountInUseStays ==
  [][\A r \in Repos : (targets[r] # {} /\ Owner[r] \in accounts) => Owner[r] \in accounts']_vars

===============================================================================
