------------------------------ MODULE DesignList ------------------------------
(* The design-document list (plugins/design-mgmt/design-list.ts) with the token    *)
(* prompt it shares with the editor (git-sync-ui.ts): loads made of three requests  *)
(* that each read the selected database when they are sent, while the database       *)
(* picker is never disabled; deletions, syncs, unlinking and registering that run     *)
(* over those loads; and the one prompt all of them ask through.  A request is         *)
(* served when its answer lands.  DesignSync has the inside of a sync, RepoRegistry   *)
(* that of the registry.                                                              *)
EXTENDS Naturals, FiniteSets

CONSTANTS
  Docs, Dbs, Repos, None,
  Found,        \* the documents the search text finds
  Writable,     \* the databases this user may write to without being a server admin
  Links,        \* the links a run may start from: functions Dbs -> Repos \union {None}
  MaxLoads,     \* bound: loads started
  MaxOps,       \* bound: deletions, syncs, unlinks and registrations started
  MaxTrouble    \* bound: failed requests and refused deletions

VARIABLES
  couch, files, rec,    \* the service: documents, repository files, sync records
  linked,               \* the repository each database is linked to
  token,                \* this session can use the account's token
  admin,                \* the session is a server admin's
  sel, repoId, couchList, gitList, rows,    \* selectedDatabase, repoId, couchDDocs, gitDDocs, docs
  filter, picked,       \* the search box, selectedDocs
  rights, canWrite,     \* permission requests in flight, canWriteDb
  loads, latest, busy,  \* loads in flight, how many were started, tableLoading
  dialog,               \* the delete confirmation
  op, ops,              \* the operation in flight, how many were started
  prompt,               \* who the open token prompt answers
  trouble,
  crossed,              \* history: the database was switched over something in flight
  halved,               \* history: a deletion of both copies stopped after the first
  shifted               \* history: the rows were rebuilt under the open confirmation

vars == <<couch, files, rec, linked, token, admin, sel, repoId, couchList, gitList, rows,
          filter, picked, rights, canWrite, loads, latest, busy, dialog, op, ops, prompt,
          trouble, crossed, halved, shifted>>
service == <<couch, files, rec, linked>>
lists == <<repoId, couchList, gitList, rows>>
work == <<loads, latest, busy>>

Slots == 1..MaxLoads
TheOp == 0
NoLoad == [st |-> "none", db |-> None, repo |-> None, by |-> "user"]
Idle == [kind |-> "none", st |-> "none", db |-> None, repo |-> None,
         couch |-> {}, git |-> {}, skipped |-> {}, listed |-> {}]
NoDialog == [mode |-> "none", listed |-> {}]
Modes == {"couch", "git", "both"}
Key(r) == [db |-> r.db, doc |-> r.doc]

TypeOK ==
  /\ couch \in [Dbs -> SUBSET Docs] /\ files \in [Repos -> [Dbs -> SUBSET Docs]]
  /\ rec \in [Dbs -> SUBSET Docs] /\ linked \in [Dbs -> Repos \union {None}]
  /\ token \in BOOLEAN /\ admin \in BOOLEAN
  /\ sel \in Dbs \union {None} /\ repoId \in Repos \union {None}
  /\ \A r \in rows : r.db \in Dbs /\ r.doc \in Docs /\ (r.rev \/ r.sha)
  /\ filter \in BOOLEAN /\ picked \subseteq [db : Dbs, doc : Docs]
  /\ rights \subseteq Dbs /\ canWrite \in BOOLEAN /\ latest \in 0..MaxLoads /\ busy \in BOOLEAN
  /\ \A n \in Slots : loads[n].st \in {"none", "repo", "git", "couch", "asking"}
  /\ dialog.mode \in Modes \union {"none"} /\ prompt \in {None, TheOp} \union Slots
  /\ op.kind \in Modes \union {"none", "toRepo", "toCouch", "unlink", "register"}
  /\ (op.kind = "none") = (op.st = "none")

(* Each document is in CouchDB, in the repository, or in both and then synced; those *)
(* the search finds are synced.                                                        *)
Init ==
  /\ linked \in Links
  /\ \E here, there \in SUBSET Docs :
       /\ here \union there = Docs /\ Found \subseteq here \intersect there /\ couch = [d \in Dbs |-> here]
       /\ files = [r \in Repos |-> [d \in Dbs |-> there]]
       /\ rec = [d \in Dbs |-> IF linked[d] = None THEN {} ELSE here \intersect there]
  /\ token \in BOOLEAN /\ admin \in BOOLEAN /\ (token \/ admin)
  /\ sel = None /\ repoId = None /\ couchList = {} /\ gitList = {} /\ rows = {}
  /\ filter = FALSE /\ picked = {} /\ rights = {} /\ canWrite = FALSE
  /\ loads = [n \in Slots |-> NoLoad] /\ latest = 0 /\ busy = FALSE
  /\ dialog = NoDialog /\ op = Idle /\ ops = 0 /\ prompt = None
  /\ trouble = 0 /\ crossed = FALSE /\ halved = FALSE /\ shifted = FALSE

-------------------------------------------------------------------------------
(* buildDDocs: the documents of CouchDB, of whatever database they were listed for;  *)
(* a file without its document becomes a row of the database selected now.            *)
buildDDocs(cs, gs, db) ==
  LET orphans == {g.doc : g \in {h \in gs : ~\E c \in cs : Key(c) = h}} IN
  {[db |-> c.db, doc |-> c.doc, rev |-> TRUE, sha |-> c.rec] :
     c \in {k \in cs : ~(k.db = db /\ k.doc \in orphans)}}
  \union {[db |-> db, doc |-> d, rev |-> FALSE, sha |-> TRUE] : d \in orphans}

Listed(db) == {[db |-> db, doc |-> d, rec |-> d \in rec[db]] : d \in couch[db]}
Files(repo, db) == IF repo # None /\ linked[db] = repo
                   THEN {[db |-> db, doc |-> d] : d \in files[repo][db]} ELSE {}

Visible == {r \in rows : r.db = sel /\ (filter => r.doc \in Found)}     \* filteredDocs

(* loadDesignDocs, for the selection of the moment. *)
FirstStep(repo) == IF ~admin THEN "couch" ELSE IF repo = None THEN "repo" ELSE "git"
Load(by, db, repo) ==
  /\ latest < MaxLoads /\ latest' = latest + 1 /\ busy' = TRUE
  /\ loads' = [loads EXCEPT ![latest + 1] = [st |-> FirstStep(repo), db |-> db, repo |-> repo, by |-> by]]

Running == \E n \in Slots : loads[n] # NoLoad
Modal == dialog # NoDialog \/ prompt # None

(* selectDatabase: everything of the last database is dropped, save the rows, which  *)
(* filteredDocs hides, and the last answer about rights.                              *)
ClearSelection == repoId' = None /\ gitList' = {} /\ picked' = {}
SelectDatabase ==
  /\ ~Modal /\ sel' \in Dbs \ {sel} /\ ClearSelection
  /\ crossed' = (Running \/ op # Idle) /\ halved' = FALSE
  /\ IF admin THEN canWrite' = TRUE /\ UNCHANGED rights
     ELSE rights' = rights \union {sel'} /\ UNCHANGED canWrite
  /\ Load("user", sel', None)
  /\ UNCHANGED <<service, token, admin, couchList, rows, filter, dialog, op, ops, prompt, trouble, shifted>>

(* refreshCanWriteDb: an answer for another database than the selected one is dropped. *)
StillSelected(db) == db = sel
LandRights ==
  /\ \E db \in rights :
       /\ rights' = rights \ {db}
       /\ \/ canWrite' = (IF StillSelected(db) THEN db \in Writable ELSE canWrite) /\ UNCHANGED trouble
          \/ /\ trouble < MaxTrouble /\ trouble' = trouble + 1
             /\ canWrite' = (IF StillSelected(db) THEN FALSE ELSE canWrite)
  /\ UNCHANGED <<service, token, admin, sel, lists, filter, picked, work, dialog, op, ops, prompt, crossed,
                 halved, shifted>>

Fail == trouble < MaxTrouble /\ trouble' = trouble + 1
Advance(n, st) == loads' = [loads EXCEPT ![n] = [@ EXCEPT !.st = st, !.db = sel, !.repo = repoId']]

LandRepo(n) ==          \* getRepoForTarget; a failure leaves what is there
  /\ loads[n].st = "repo"
  /\ \/ repoId' = linked[loads[n].db] /\ UNCHANGED trouble
     \/ Fail /\ UNCHANGED repoId
  /\ Advance(n, IF repoId' = None THEN "couch" ELSE "git")
  /\ UNCHANGED <<service, token, admin, sel, couchList, gitList, rows, filter, picked, rights, canWrite,
                 latest, busy, dialog, op, ops, prompt, crossed, halved, shifted>>

refreshDocs == rows' = buildDDocs(couchList', gitList', sel) /\ shifted' = (shifted \/ dialog # NoDialog)

(* A registration reads the files only; every other load goes on to CouchDB. *)
AfterFiles(n) ==
  IF loads[n].by = "register" THEN loads' = [loads EXCEPT ![n] = NoLoad] /\ refreshDocs
  ELSE Advance(n, "couch") /\ UNCHANGED <<rows, shifted>>

LandFiles(n) ==         \* getDesignDocsFromRepo
  /\ loads[n].st = "git" /\ UNCHANGED <<repoId, couchList>>
  /\ \/ /\ token /\ gitList' = Files(loads[n].repo, loads[n].db) /\ AfterFiles(n)
        /\ UNCHANGED <<trouble, prompt>>
     \/ token /\ Fail /\ gitList' = {} /\ AfterFiles(n) /\ UNCHANGED prompt
     \/ /\ ~token /\ prompt' = n /\ loads' = [loads EXCEPT ![n].st = "asking"]
        /\ UNCHANGED <<gitList, rows, trouble, shifted>>
  /\ UNCHANGED <<service, token, admin, sel, filter, picked, rights, canWrite, latest, busy,
                 dialog, op, ops, crossed, halved>>

LandCouch(n) ==         \* getDesignDocsFromCouchDB, then refreshDocs
  /\ loads[n].st = "couch" /\ loads' = [loads EXCEPT ![n] = NoLoad] /\ busy' = FALSE
  /\ \/ /\ couchList' = Listed(loads[n].db) /\ UNCHANGED trouble
     \/ Fail /\ UNCHANGED couchList
  /\ UNCHANGED gitList /\ refreshDocs
  /\ op' = IF loads[n].by = "op" THEN Idle ELSE op
  /\ UNCHANGED <<couch, files, rec, linked, token, admin, sel, repoId, filter, picked, rights,
                 canWrite, latest, dialog, ops, prompt, crossed, halved>>

-------------------------------------------------------------------------------
(* Selection.                                                                   *)

Pick ==
  /\ ~Modal /\ ~busy
  /\ \E r \in Visible :
       picked' = IF Key(r) \in picked THEN picked \ {Key(r)} ELSE picked \union {Key(r)}
  /\ UNCHANGED <<service, token, admin, sel, lists, filter, rights, canWrite, work, dialog, op, ops,
                 prompt, trouble, crossed, halved, shifted>>
PickAll ==
  /\ ~Modal /\ ~busy
  /\ \E on \in BOOLEAN : picked' = IF on THEN picked \union {Key(r) : r \in Visible}
                                   ELSE picked \ {Key(r) : r \in Visible}
  /\ UNCHANGED <<service, token, admin, sel, lists, filter, rights, canWrite, work, dialog, op, ops,
                 prompt, trouble, crossed, halved, shifted>>
(* setSearchText resets the selection: a row hidden by the search is not swept up. *)
SetSearchText ==
  /\ ~Modal /\ filter' = ~filter /\ picked' = {}
  /\ UNCHANGED <<service, token, admin, sel, lists, rights, canWrite, work, dialog, op, ops, prompt,
                 trouble, crossed, halved, shifted>>

Chosen == {r \in rows : Key(r) \in picked}
couchOnly == {r \in Chosen : r.rev /\ ~r.sha}
gitOnly == {r \in Chosen : ~r.rev /\ r.sha}
synced == {r \in Chosen : r.rev /\ r.sha}

(* _deleteTargets; the groups used to overlap, and "both" took every file selected. *)
DeleteTargets_Overlap(mode) ==
  [couch |-> IF mode = "git" THEN {} ELSE couchOnly \union synced,
   git |-> IF mode = "couch" THEN {} ELSE gitOnly \union synced]
DeleteTargets(mode) ==
  [couch |-> IF mode = "couch" THEN couchOnly \union synced ELSE IF mode = "both" THEN synced ELSE {},
   git |-> IF mode = "git" THEN gitOnly \union synced ELSE IF mode = "both" THEN synced ELSE {}]
DeleteSkipped(mode) ==
  CASE mode = "couch" -> gitOnly [] mode = "git" -> couchOnly [] mode = "both" -> couchOnly \union gitOnly

-------------------------------------------------------------------------------
(* Deleting.                                                                    *)

Syncing == op.kind \in {"toRepo", "toCouch"}
Enough(mode) == CASE mode = "both" -> synced # {}
                  [] mode = "couch" -> couchOnly \union synced # {}
                  [] mode = "git" -> gitOnly \union synced # {}
prepareDelete ==
  /\ ~Modal /\ canWrite /\ picked # {} /\ ~Syncing
  /\ \E mode \in Modes :
       /\ Enough(mode)
       /\ dialog' = [mode |-> mode, listed |->
            {Key(r) : r \in CASE mode = "git" -> gitOnly \union synced
                              [] mode = "both" -> synced
                              [] mode = "couch" -> couchOnly \union synced}]
  /\ shifted' = (shifted /\ op # Idle)
  /\ UNCHANGED <<service, token, admin, sel, lists, filter, picked, rights, canWrite, work, op, ops,
                 prompt, trouble, crossed, halved>>
cancelDelete ==
  /\ dialog # NoDialog /\ prompt = None /\ dialog' = NoDialog
  /\ UNCHANGED <<service, token, admin, sel, lists, filter, picked, rights, canWrite, work, op, ops,
                 prompt, trouble, crossed, halved, shifted>>

(* What a deletion does next, and how it ends: what it skipped stays selected. *)
Cross == crossed' = (crossed \/ Running)
(* Past the bound on loads the reload is left out, and the screen no longer judged.   *)
Finish(o) ==
  /\ picked' = {Key(r) : r \in o.skipped}
  /\ IF latest < MaxLoads THEN op' = [o EXCEPT !.st = "load"] /\ Load("op", sel, repoId) /\ Cross
     ELSE op' = Idle /\ crossed' = TRUE /\ UNCHANGED work
GiveUp == op' = Idle /\ halved' = (halved \/ op.kind = "both")      \* the list is not loaded again
NamesOf(rs) == {r.doc : r \in rs}

confirmDelete ==
  /\ dialog # NoDialog /\ prompt = None /\ op = Idle /\ ops < MaxOps /\ ops' = ops + 1
  /\ dialog' = NoDialog
  /\ LET t == DeleteTargets(dialog.mode)
         start == [Idle EXCEPT !.kind = dialog.mode, !.db = sel, !.repo = repoId, !.couch = NamesOf(t.couch),
                     !.git = NamesOf(t.git), !.skipped = DeleteSkipped(dialog.mode), !.listed = dialog.listed]
     IN IF t.git # {} /\ repoId = None THEN UNCHANGED <<op, picked, work, crossed>>
        ELSE \/ t.couch # {} /\ op' = [start EXCEPT !.st = "couch"] /\ UNCHANGED <<picked, work, crossed>>
             \/ t.couch = {} /\ t.git # {} /\ op' = [start EXCEPT !.st = "git"] /\ UNCHANGED <<picked, work, crossed>>
             \/ t.couch = {} /\ t.git = {} /\ Finish(start)
  /\ UNCHANGED <<service, token, admin, sel, repoId, couchList, gitList, rows, filter, rights, canWrite,
                 prompt, trouble, halved, shifted>>

(* _bulk_docs refuses documents that moved, one by one, and nobody looks; then the      *)
(* records of the selection's documents without a file are dropped.                    *)
LandCouchDelete ==
  /\ op.st = "couch"
  /\ \/ /\ \E refused \in {{}, op.couch} :
             /\ couch' = [couch EXCEPT ![op.db] = @ \ (op.couch \ refused)]
             /\ IF refused = {} THEN UNCHANGED trouble ELSE Fail
        /\ rec' = IF sel = None THEN rec ELSE [rec EXCEPT ![sel] = @ \ NamesOf(couchOnly)]
        /\ IF op.git # {} /\ repoId # None
           THEN op' = [op EXCEPT !.st = "git", !.db = sel, !.repo = repoId] /\ UNCHANGED <<picked, work, crossed>>
           ELSE Finish(op)
     \/ Fail /\ op' = Idle /\ UNCHANGED <<couch, rec, picked, work, crossed>>
  /\ UNCHANGED <<files, linked, token, admin, sel, repoId, couchList, gitList, rows, filter, rights,
                 canWrite, dialog, ops, prompt, halved, shifted>>

(* deleteRepoDocs: one commit, refused when the database is not a target of the       *)
(* repository or a file is not there; then the records go.                              *)
LandGitDelete ==
  /\ op.st = "git" /\ op.kind \in Modes
  /\ \/ /\ token /\ linked[op.db] = op.repo /\ op.git \subseteq files[op.repo][op.db]
        /\ files' = [files EXCEPT ![op.repo][op.db] = @ \ op.git]
        /\ rec' = [rec EXCEPT ![op.db] = @ \ op.git]
        /\ Finish(op) /\ UNCHANGED <<prompt, trouble, halved>>
     \/ /\ token /\ (linked[op.db] # op.repo \/ ~(op.git \subseteq files[op.repo][op.db]))
        /\ GiveUp /\ UNCHANGED <<files, rec, picked, work, crossed, prompt, trouble>>
     \/ token /\ Fail /\ GiveUp /\ UNCHANGED <<files, rec, picked, work, crossed, prompt>>
     \/ /\ ~token /\ op' = [op EXCEPT !.st = "asking"] /\ prompt' = TheOp
        /\ UNCHANGED <<files, rec, picked, work, crossed, halved, trouble>>
  /\ UNCHANGED <<couch, linked, token, admin, sel, repoId, couchList, gitList, rows, filter, rights,
                 canWrite, dialog, ops, shifted>>

-------------------------------------------------------------------------------
(* Syncing, unlinking and registering.                                          *)

Sync ==
  /\ ~Modal /\ admin /\ sel # None /\ repoId # None /\ picked # {} /\ op = Idle
  /\ ops < MaxOps /\ ops' = ops + 1
  /\ \E kind \in {"toRepo", "toCouch"} :
       op' = [Idle EXCEPT !.kind = kind, !.st = "git", !.db = sel, !.repo = repoId, !.listed = picked]
  /\ UNCHANGED <<service, token, admin, sel, lists, filter, picked, rights, canWrite, work, dialog, prompt,
                 trouble, crossed, halved, shifted>>

(* syncToRepo and syncToCouch refuse keys of another database, and a database that is *)
(* not a target of the repository; which documents they pass over is DesignSync's.     *)
KeysMatch_Any == TRUE
KeysMatch == \A k \in op.listed : k.db = op.db
LandSync ==
  /\ op.st = "git" /\ Syncing
  /\ LET names == {k.doc : k \in op.listed}
         moved == names \intersect (IF op.kind = "toRepo" THEN couch[op.db] ELSE files[op.repo][op.db])
     IN \/ /\ token /\ KeysMatch /\ linked[op.db] = op.repo
           /\ IF op.kind = "toRepo"
              THEN files' = [files EXCEPT ![op.repo][op.db] = @ \union moved] /\ UNCHANGED couch
              ELSE couch' = [couch EXCEPT ![op.db] = @ \union moved] /\ UNCHANGED files
           /\ rec' = [rec EXCEPT ![op.db] = @ \union moved]
           /\ Finish(op) /\ UNCHANGED <<prompt, trouble>>
        \/ /\ token /\ (~KeysMatch \/ linked[op.db] # op.repo)
           /\ op' = Idle /\ UNCHANGED <<couch, files, rec, picked, work, crossed, prompt, trouble>>
        \/ token /\ Fail /\ op' = Idle /\ UNCHANGED <<couch, files, rec, picked, work, crossed, prompt>>
        \/ /\ ~token /\ op' = [op EXCEPT !.st = "asking"] /\ prompt' = TheOp
           /\ UNCHANGED <<couch, files, rec, picked, work, crossed, trouble>>
  /\ UNCHANGED <<linked, token, admin, sel, repoId, couchList, gitList, rows, filter, rights,
                 canWrite, dialog, ops, halved, shifted>>

Unlink ==               \* handleUnlinkRepo, behind its own confirmation
  /\ ~Modal /\ admin /\ repoId # None /\ op = Idle /\ ops < MaxOps /\ ops' = ops + 1
  /\ op' = [Idle EXCEPT !.kind = "unlink", !.st = "send", !.db = sel, !.repo = repoId]
  /\ UNCHANGED <<service, token, admin, sel, lists, filter, picked, rights, canWrite, work, dialog, prompt,
                 trouble, crossed, halved, shifted>>
(* deleteRepo: the registration with all its targets, and the records of all of them. *)
LandUnlink ==
  /\ op.kind = "unlink" /\ op' = Idle /\ Cross /\ UNCHANGED couchList
  /\ \/ /\ linked' = [d \in Dbs |-> IF linked[d] = op.repo THEN None ELSE linked[d]]
        /\ rec' = [d \in Dbs |-> IF linked[d] = op.repo THEN {} ELSE rec[d]]
        /\ repoId' = None /\ gitList' = {} /\ refreshDocs
        /\ UNCHANGED trouble
     \/ Fail /\ UNCHANGED <<linked, rec, repoId, gitList, rows, shifted>>
  /\ UNCHANGED <<couch, files, token, admin, sel, filter, picked, rights, canWrite, work, dialog,
                 ops, prompt, halved>>

Register ==             \* offered while no repository is linked
  /\ ~Modal /\ admin /\ sel # None /\ repoId = None /\ op = Idle /\ ops < MaxOps /\ ops' = ops + 1
  /\ \E r \in Repos : op' = [Idle EXCEPT !.kind = "register", !.st = "send", !.db = sel, !.repo = r]
  /\ UNCHANGED <<service, token, admin, sel, lists, filter, picked, rights, canWrite, work, dialog, prompt,
                 trouble, crossed, halved, shifted>>
LandRegister ==
  /\ op.kind = "register" /\ op' = Idle /\ Cross
  /\ \/ /\ linked' = [linked EXCEPT ![op.db] = op.repo] /\ repoId' = op.repo
        /\ rec' = IF linked[op.db] \in {None, op.repo} THEN rec ELSE [rec EXCEPT ![op.db] = {}]
        /\ latest < MaxLoads /\ latest' = latest + 1
        /\ loads' = [loads EXCEPT ![latest + 1] = [st |-> "git", db |-> sel, repo |-> op.repo, by |-> "register"]]
        /\ UNCHANGED trouble
     \/ Fail /\ UNCHANGED <<linked, rec, repoId, loads, latest>>
  /\ UNCHANGED <<couch, files, token, admin, sel, couchList, gitList, rows, filter, picked, rights,
                 canWrite, busy, dialog, ops, prompt, halved, shifted>>

-------------------------------------------------------------------------------
(* The prompt.  A second question takes the place of the first, which then waits    *)
(* for good.  The retry reads the selected database again.                          *)

Resend(w) == IF w = TheOp THEN op' = [op EXCEPT !.st = "git", !.db = sel] /\ UNCHANGED loads
             ELSE loads' = [loads EXCEPT ![w] = [@ EXCEPT !.st = "git", !.db = sel]] /\ UNCHANGED op
confirm ==
  /\ prompt # None /\ prompt' = None /\ token' = TRUE /\ Resend(prompt)
  /\ UNCHANGED <<service, admin, sel, lists, filter, picked, rights, canWrite, latest, busy, dialog, ops,
                 trouble, crossed, halved, shifted>>
cancel ==
  /\ prompt # None /\ prompt' = None /\ UNCHANGED <<repoId, couchList>>
  /\ IF prompt = TheOp THEN GiveUp /\ UNCHANGED <<gitList, rows, loads, shifted>>
     ELSE gitList' = {} /\ AfterFiles(prompt) /\ UNCHANGED <<op, halved>>
  /\ UNCHANGED <<service, token, admin, sel, filter, picked, rights, canWrite, latest, busy,
                 dialog, ops, trouble, crossed>>

Next ==
  \/ SelectDatabase \/ LandRights \/ \E n \in Slots : LandRepo(n) \/ LandFiles(n) \/ LandCouch(n)
  \/ Pick \/ PickAll \/ SetSearchText \/ prepareDelete \/ cancelDelete \/ confirmDelete
  \/ LandCouchDelete \/ LandGitDelete \/ Sync \/ LandSync
  \/ Unlink \/ LandUnlink \/ Register \/ LandRegister \/ confirm \/ cancel

Spec == Init /\ [][Next]_vars

-------------------------------------------------------------------------------
(* Switching databases: once everything has landed without failing or stopping half      *)
(* way, and no switch went over something in flight, the screen is the selected            *)
(* database's: its repository, its documents and files, and its rights - whatever was      *)
(* synced, deleted, registered or unlinked on the way.                                     *)
Settled == sel # None /\ ~Running /\ op = Idle /\ prompt = None /\ trouble = 0
ScreenIsTheSelection ==
  /\ (Settled /\ rights = {}) => canWrite = (admin \/ sel \in Writable)
  /\ (Settled /\ ~crossed /\ ~halved /\ token) =>
       /\ repoId = (IF admin THEN linked[sel] ELSE None)
       /\ {[db |-> r.db, doc |-> r.doc] : r \in rows} =
            {[db |-> sel, doc |-> d] : d \in couch[sel] \union (IF repoId = None THEN {} ELSE files[repoId][sel])}

(* "Deletes exactly what prepareDelete listed": whatever a deletion takes from CouchDB  *)
(* or from the repository is a copy the dialog named, of the database it named, and was  *)
(* on the screen - as long as no load landed under the open dialog and the database was   *)
(* not switched before the deletion was over.                                             *)
DeletesWhatWasListedStep ==
  (op.kind \in Modes /\ ~crossed /\ ~shifted) => \A db \in Dbs :
    LET taken == (couch[db] \ couch'[db])
                 \union UNION {files[r][db] \ files'[r][db] : r \in Repos}
    IN \A d \in taken : [db |-> db, doc |-> d] \in op.listed
DeletesWhatWasListed == [][DeletesWhatWasListedStep]_vars

(* A sync moves documents between a database and the repository it is linked to, and   *)
(* only those that were selected, though its retry after the prompt reads the selected  *)
(* database once more.                                                                   *)
SyncStaysHomeStep ==
  Syncing => \A db \in Dbs :
    LET given == (couch'[db] \ couch[db]) \union UNION {files'[r][db] \ files[r][db] : r \in Repos}
    IN \A d \in given : [db |-> db, doc |-> d] \in op.listed /\ linked[db] = op.repo
SyncStaysHome == [][SyncStaysHomeStep]_vars

(* design-list.ts, "Unlinking the repository will remove the connection between this     *)
(* database and the Git repository": no other database loses its own.                    *)
OtherDatabasesStayLinkedStep ==
  op.kind = "unlink" => \A db \in Dbs \ {op.db} : linked'[db] = linked[db]
OtherDatabasesStayLinked == [][OtherDatabasesStayLinkedStep]_vars
===============================================================================
