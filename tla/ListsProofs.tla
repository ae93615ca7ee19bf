----------------------------- MODULE ListsProofs -----------------------------
(***************************************************************************)
(* Safety of the screens that list, and of the page around them, each for  *)
(* any values of its constants: what is on the screen is true of what it    *)
(* shows, and what is deleted was listed.  Every screen is an instance of    *)
(* its module; they share the declarations below, as they share a tab.       *)
(***************************************************************************)
EXTENDS Integers, FiniteSetTheorems, FunctionTheorems, TLAPS

CONSTANTS
  Docs, Dbs, Repos, None, Found, Writable, Links, MaxLoads, MaxOps, MaxTrouble, MaxRev,
  MaxOthers, Ids, Filters, MatchOf, States, Accounts, Owner, Matches, AccountModes,
  MaxRequests, MaxId, Roles, Passwords, Mask, USERS_PAGE_LIMIT, MaxRevs, MaxEdits, Answers,
  Down, MaxChanges, Deployments, Urls, Stripped, Invalid, Plugins, Forever, MAX_ENTRIES,
  TIMER_MAX, MaxTime

VARIABLES
  couch, files, rec, linked, token, admin, sel, repoId, couchList, gitList, rows, filter,
  picked, rights, canWrite, loads, latest, busy, dialog, op, ops, prompt, trouble, crossed,
  halved, shifted, kept, file, records, conflicts, loading, loadError, resolving,
  expandedId, versions, others, touched, stored, jobs, filterValue, debounce, replications,
  loadSeq, _confirmDelete, deletion, answered, moved, existing, secured, listable, search,
  order, timer, shown, shownFor, denied, drawer, deleting, probe, left, opened, create,
  accounts, modes, targets, shownRepos, rowModes, requests, users, screen, listed, scan,
  asked, form, raw, put, edits, steady, page, server, cache, inFlight, fetches, tile,
  serverId, tasks, _loading, _error, _loadedFor, _selectedType, changes, world, boot,
  discovery, servers, session, shell, loader, everywhere, now

----------------------------------------------------------------------------
(* The design-document list: any databases, repositories and links, loads over switches,    *)
(* deletions, syncs, unlinking and registering in any order, with the one token prompt.     *)

L == INSTANCE DesignList

\* A link is to a repository or to none, and None is neither of these things nor a number.
ListConstants ==
  /\ Links \subseteq [Dbs -> Repos \union {None}]
  /\ None \notin Repos /\ None \notin Dbs /\ None \notin Nat
  /\ MaxLoads \in Nat /\ MaxTrouble \in Nat

Keys == [db : Dbs, doc : Docs]
ListRow == [db : Dbs, doc : Docs, rev : BOOLEAN, sha : BOOLEAN]
CouchRow == [db : Dbs, doc : Docs, rec : BOOLEAN]
ListLoad == [st : {"none", "repo", "git", "couch", "asking"}, db : Dbs \union {None},
             repo : Repos \union {None}, by : {"user", "op", "register"}]
ListOp == [kind : L!Modes \union {"none", "toRepo", "toCouch", "unlink", "register"},
           st : {"none", "couch", "git", "asking", "load", "send"}, db : Dbs \union {None},
           repo : Repos \union {None}, couch : SUBSET Docs, git : SUBSET Docs, skipped : SUBSET ListRow,
           listed : SUBSET Keys]

ListTypes ==
  /\ couch \in [Dbs -> SUBSET Docs] /\ files \in [Repos -> [Dbs -> SUBSET Docs]]
  /\ rec \in [Dbs -> SUBSET Docs] /\ linked \in [Dbs -> Repos \union {None}]
  /\ sel \in Dbs \union {None} /\ repoId \in Repos \union {None}
  /\ couchList \subseteq CouchRow /\ gitList \subseteq Keys
  /\ rows \subseteq ListRow /\ \A r \in rows : r.rev \/ r.sha
  /\ picked \subseteq Keys /\ rights \subseteq Dbs /\ latest \in 0..MaxLoads
  /\ dialog \in [mode : L!Modes \union {"none"}, listed : SUBSET Keys]
  /\ prompt \in {None, L!TheOp} \union L!Slots /\ trouble \in Nat
ListFlags ==
  /\ token \in BOOLEAN /\ admin \in BOOLEAN /\ filter \in BOOLEAN /\ canWrite \in BOOLEAN
  /\ busy \in BOOLEAN /\ crossed \in BOOLEAN /\ halved \in BOOLEAN /\ shifted \in BOOLEAN

\* Before a database is selected there is nothing on the screen, nothing asked and nothing running.
Unselected ==
  sel = None =>
    /\ couchList = {} /\ gitList = {} /\ rows = {} /\ picked = {} /\ repoId = None
    /\ op = L!Idle /\ dialog = L!NoDialog /\ prompt = None /\ \A n \in L!Slots : loads[n] = L!NoLoad

\* The loads, the operation and the prompt: which can be where.
LoadsShape ==
  /\ loads \in [L!Slots -> ListLoad]
  /\ \A n \in L!Slots :
       /\ loads[n].st = "none" \/ n > latest => loads[n] = L!NoLoad
       /\ loads[n].st # "none" => loads[n].db \in Dbs
       /\ loads[n].by = "op" => op.st = "load" /\ \A m \in L!Slots : loads[m].by = "op" => m = n
       /\ loads[n].by = "register" => loads[n].st \in {"git", "asking"}
  /\ prompt \in L!Slots => loads[prompt].st = "asking"
OpShape ==
  /\ op \in ListOp
  /\ op.st = "none" => op = L!Idle
  /\ op.st # "none" => op.kind # "none" /\ op.db \in Dbs
  /\ (op.st = "send") = (op.kind \in {"unlink", "register"})
  /\ op.st = "couch" => op.kind \in {"couch", "both"}
  /\ op.kind = "couch" => op.git = {}
  /\ op.st \in {"git", "asking"} => op.kind \in {"both", "git", "toRepo", "toCouch"} /\ op.repo \in Repos
  /\ op.kind = "register" => op.repo \in Repos
  /\ prompt = L!TheOp => op.st = "asking"

\* The last answer about the selected database's rights, unless one failed.
RightsOk ==
  /\ admin => rights = {}
  /\ trouble = 0 /\ sel # None =>
       canWrite = (admin \/ sel \in Writable) \/ (~admin /\ sel \in rights)

\* As long as the database was not switched over it, all that is in flight, selected or read
\* from the repository is of the selected database, and one load runs at most.
HomeOk ==
  ~crossed =>
    /\ \A n \in L!Slots : loads[n].st # "none" =>
         loads[n].db = sel /\ \A m \in L!Slots : loads[m].st # "none" => m = n
    /\ op.st # "none" => op.db = sel
    /\ \A k \in picked \union gitList : k.db = sel
    /\ \A r \in op.skipped : r.db = sel
    /\ op.kind \in {"toRepo", "toCouch"} => \A k \in op.listed : k.db = sel

\* Without the token nothing is read from a repository and no repository changes, so all of
\* them have what the records say is synced.
UnreadOk ==
  ~token =>
    /\ gitList = {}
    /\ \A r \in Repos, d \in Dbs :
         /\ \A c \in couchList : c.rec => c.doc \in files[r][d]
         /\ \A w \in rows : w.sha => w.doc \in files[r][d]
         /\ op.git \subseteq files[r][d]
         /\ \A e \in Dbs : rec[e] \subseteq files[r][d]

\* Where the screen is told of its repository.
Reading(n) == loads[n].st \in {"repo", "git", "asking"}
RepoOk ==
  trouble = 0 /\ ~crossed /\ sel # None =>
    /\ repoId = None => gitList = {}
    /\ ~admin =>
         /\ repoId = None /\ op.kind \in L!Modes \union {"none"} /\ op.git = {}
         /\ \A n \in L!Slots : ~Reading(n)
    /\ admin =>
         /\ \A n \in L!Slots : loads[n].st = "repo" => repoId = None
         /\ (\A n \in L!Slots : loads[n].st # "repo") => repoId = linked[sel]
         /\ \A n \in L!Slots : loads[n].st \in {"git", "asking"} => loads[n].repo = repoId /\ repoId # None
    /\ op.st \in {"git", "asking"} \/ op.kind = "unlink" => op.repo = repoId /\ repoId # None

\* The two lists, and the rows made of them.
Halfway == halved \/ (op.kind = "both" /\ op.st \in {"git", "asking"})
CouchTrue == {[db |-> c.db, doc |-> c.doc] : c \in couchList} = {[db |-> sel, doc |-> d] : d \in couch[sel]}
FilesTrue == gitList = {[db |-> sel, doc |-> d] : d \in IF repoId = None THEN {} ELSE files[repoId][sel]}
\* An operation that is taken, and so reads the files again.
Sure == op.st = "git" /\ (op.kind = "git" => op.git \subseteq files[op.repo][op.db])
ListsOk ==
  trouble = 0 /\ ~crossed /\ sel # None =>
    /\ (\A n \in L!Slots : loads[n].st # "none" => loads[n].by = "register") /\ ~Halfway => CouchTrue
    /\ token /\ ~halved /\ (\A n \in L!Slots : ~Reading(n)) => FilesTrue \/ Sure
    /\ (\A n \in L!Slots : loads[n].st = "none") => rows = L!buildDDocs(couchList, gitList, sel)

\* What a deletion would take is what its dialog lists, until the rows are rebuilt.
KeysOf(rs) == {L!Key(r) : r \in rs}
DialogOk ==
  /\ dialog.mode = "none" => dialog = L!NoDialog
  /\ ~crossed /\ ~shifted /\ dialog # L!NoDialog /\ op.st # "load" =>
       LET t == L!DeleteTargets(dialog.mode) IN KeysOf(t.couch) \union KeysOf(t.git) \subseteq dialog.listed
  /\ ~crossed /\ ~shifted /\ op.kind \in L!Modes =>
       \A d \in op.couch \union op.git : [db |-> sel, doc |-> d] \in op.listed

ListInv ==
  /\ ListTypes /\ ListFlags /\ Unselected /\ LoadsShape /\ OpShape /\ (prompt # None => ~token)
  /\ RightsOk /\ HomeOk /\ UnreadOk /\ RepoOk /\ ListsOk /\ DialogOk

\* The model's type invariant says less than these.
LEMMA ListTypesType == ASSUME ListConstants, ListTypes, ListFlags, LoadsShape, OpShape PROVE L!TypeOK
<1>1. \A n \in L!Slots : loads[n].st \in {"none", "repo", "git", "couch", "asking"}
  BY DEF LoadsShape, ListLoad
<1>2. op.kind \in L!Modes \union {"none", "toRepo", "toCouch", "unlink", "register"}
  BY DEF OpShape, ListOp
<1>3. (op.kind = "none") = (op.st = "none")
  <2>1. CASE op.st = "none"
    BY <2>1 DEF OpShape, L!Idle
  <2>2. CASE op.st # "none"
    BY <2>2, Zenon DEF OpShape
  <2> QED
    BY <2>1, <2>2
<1>4. \A r \in rows : r.db \in Dbs /\ r.doc \in Docs /\ (r.rev \/ r.sha)
  BY DEF ListTypes, ListRow
<1> QED
  BY <1>1, <1>2, <1>3, <1>4, Zenon DEF L!TypeOK, ListTypes, ListFlags, Keys

\* What a step leaves alone stays as it is.
LEMMA LoadsKept == ASSUME LoadsShape, UNCHANGED <<loads, latest, prompt>>, op.st = "load" => op'.st = "load"
  PROVE LoadsShape'
BY SMTT(30) DEF LoadsShape, ListLoad, L!Slots, L!NoLoad
LEMMA OpKept == ASSUME OpShape, UNCHANGED <<op, prompt>> PROVE OpShape'
BY DEF OpShape
LEMMA RightsKept ==
  ASSUME ListTypes, RightsOk, UNCHANGED <<admin, sel, rights, canWrite>>, trouble' = 0 => trouble = 0
  PROVE RightsOk'
BY Zenon DEF RightsOk
LEMMA HomeKept == ASSUME HomeOk, UNCHANGED <<loads, op, sel, picked, gitList>>, ~crossed' => ~crossed PROVE HomeOk'
BY Zenon DEF HomeOk
LEMMA UnreadKept ==
  ASSUME UnreadOk, UNCHANGED <<gitList, files, couchList, rows, op, rec>>, ~token' => ~token PROVE UnreadOk'
BY Zenon DEF UnreadOk
LEMMA RepoKept ==
  ASSUME RepoOk, UNCHANGED <<sel, repoId, gitList, admin, op, loads, linked>>, ~crossed' => ~crossed,
         trouble' = 0 => trouble = 0
  PROVE RepoOk'
BY Zenon DEF RepoOk, Reading
LEMMA ListsKept ==
  ASSUME ListsOk, UNCHANGED <<sel, loads, op, couchList, couch, repoId, gitList, files, rows>>,
         token' => token, ~halved' => ~halved, ~crossed' => ~crossed, trouble' = 0 => trouble = 0
  PROVE ListsOk'
BY Zenon DEF ListsOk, Reading, Halfway, CouchTrue, FilesTrue, Sure
LEMMA DialogKept ==
  ASSUME DialogOk, UNCHANGED <<dialog, op, rows, picked, sel>>, ~crossed' => ~crossed, ~shifted' => ~shifted
  PROVE DialogOk'
BY DEF DialogOk, KeysOf, L!DeleteTargets, L!couchOnly, L!gitOnly, L!synced, L!Chosen, L!Key, L!NoDialog,
       L!Modes

LEMMA ListLandRights == ASSUME ListConstants, ListInv, L!LandRights PROVE ListInv'
<1> USE DEF ListInv
<1>1. PICK d0 \in rights :
        /\ rights' = rights \ {d0}
        /\ d0 # sel => canWrite' = canWrite
        /\ \/ (d0 = sel => canWrite' = (d0 \in Writable)) /\ UNCHANGED trouble
           \/ trouble < MaxTrouble /\ trouble' = trouble + 1 /\ (d0 = sel => canWrite' = FALSE)
  BY Zenon DEF L!LandRights, L!StillSelected
<1>2. UNCHANGED <<couch, files, rec, linked, token, admin, sel, repoId, couchList, gitList, rows, filter, picked,
                  loads, latest, busy, dialog, op, ops, prompt, crossed, halved, shifted>>
  BY DEF L!LandRights, L!service, L!lists, L!work
<1>3. trouble' \in Nat /\ (trouble' = 0 => UNCHANGED trouble) /\ (trouble' = trouble + 1 => trouble' # 0)
  BY <1>1 DEF ListTypes
<1>4. canWrite' \in BOOLEAN
  <2>1. ASSUME canWrite' = (d0 \in Writable) PROVE canWrite' \in BOOLEAN
    BY <2>1, SMT
  <2>3. CASE d0 = sel
    BY <1>1, <2>1, <2>3, Zenon
  <2>2. CASE d0 # sel
    BY <1>1, <2>2, Zenon DEF ListFlags
  <2> QED
    BY <2>2, <2>3
<1>5. ListTypes'
  BY <1>1, <1>2, <1>3 DEF ListTypes
<1>6. ListFlags' /\ Unselected'
  BY <1>2, <1>4, Zenon DEF ListFlags, Unselected
<1>7. RightsOk'
  <2>1. ~admin /\ ~admin'
    BY <1>1, <1>2, Zenon DEF RightsOk
  <2>2. ASSUME trouble' = 0, sel # None
        PROVE  canWrite' = (admin' \/ sel' \in Writable) \/ (~admin' /\ sel' \in rights')
    <3>1. CASE d0 = sel
      <4>1. canWrite' = (sel' \in Writable)
        BY <1>1, <1>2, <1>3, <2>2, <3>1, Zenon
      <4> QED
        BY <2>1, <4>1, SMT
    <3>2. CASE d0 # sel
      <4>1. canWrite' = canWrite
        BY <1>1, <3>2, Zenon
      <4>2. CASE sel \in rights
        BY <1>1, <1>2, <2>1, <3>2, <4>2
      <4>3. CASE sel \notin rights
        BY <1>2, <1>3, <2>1, <2>2, <4>1, <4>3, Zenon DEF RightsOk
      <4> QED
        BY <4>2, <4>3
    <3> QED
      BY <3>1, <3>2
  <2> QED
    BY <1>2, <2>1, <2>2, Zenon DEF RightsOk
<1> QED
  BY <1>2, <1>3, <1>5, <1>6, <1>7, LoadsKept, OpKept, HomeKept, UnreadKept, RepoKept, ListsKept,
     DialogKept

LEMMA ListPick == ASSUME ListConstants, ListInv, L!Pick \/ L!PickAll PROVE ListInv'
<1> USE DEF ListInv
<1>1. /\ UNCHANGED <<couch, files, rec, linked, token, admin, sel, repoId, couchList, gitList, rows, filter, rights,
                     canWrite, loads, latest, busy, dialog, op, ops, prompt, trouble, crossed, halved, shifted>>
      /\ dialog = L!NoDialog
  BY DEF L!Pick, L!PickAll, L!service, L!lists, L!work, L!Modal
<1>2. /\ picked' \subseteq picked \union {L!Key(r) : r \in L!Visible} 
      /\ L!Visible \subseteq rows /\ \A r \in L!Visible : r.db = sel
  <2>1. CASE L!Pick
    BY <2>1 DEF L!Pick, L!Visible
  <2>2. CASE L!PickAll
    BY <2>2 DEF L!PickAll, L!Visible
  <2> QED
    BY <2>1, <2>2
<1>3. \A r \in rows : L!Key(r) \in Keys /\ L!Key(r).db = r.db
  BY DEF ListTypes, ListRow, Keys, L!Key
<1>4. ListTypes'
  <2>1. picked' \subseteq Keys
    BY <1>2, <1>3 DEF ListTypes
  <2> QED
    BY <1>1, <2>1 DEF ListTypes
<1>5. Unselected'
  BY <1>1, <1>2 DEF Unselected
<1>6. HomeOk'
  <2>1. ~crossed => \A k \in picked' : k.db = sel
    BY <1>2, <1>3 DEF HomeOk
  <2> QED
    BY <1>1, <2>1, Zenon DEF HomeOk
<1>7. DialogOk'
  BY <1>1, Zenon DEF DialogOk
<1>8. ListFlags'
  BY <1>1, Zenon DEF ListFlags
<1> QED
  BY <1>1, <1>4, <1>5, <1>6, <1>7, <1>8, LoadsKept, OpKept, RightsKept, UnreadKept, RepoKept, ListsKept

LEMMA ListSearch == ASSUME ListConstants, ListInv, L!SetSearchText PROVE ListInv'
<1> USE DEF ListInv
<1>1. /\ UNCHANGED <<couch, files, rec, linked, token, admin, sel, repoId, couchList, gitList, rows, rights,
                     canWrite, loads, latest, busy, dialog, op, ops, prompt, trouble, crossed, halved, shifted>>
      /\ dialog = L!NoDialog /\ picked' = {} /\ filter' = ~filter
  BY Zenon DEF L!SetSearchText, L!service, L!lists, L!work, L!Modal
<1>2. ListTypes' /\ Unselected'
  BY <1>1 DEF ListTypes, Unselected
<1>3. ListFlags' /\ HomeOk' /\ DialogOk'
  BY <1>1, Zenon DEF ListFlags, HomeOk, DialogOk
<1> QED
  BY <1>1, <1>2, <1>3, LoadsKept, OpKept, RightsKept, UnreadKept, RepoKept, ListsKept

\* The chosen rows are rows, and picked; their keys are keys.
LEMMA ChosenRows ==
  ASSUME ListTypes
  PROVE  /\ L!Chosen \subseteq ListRow /\ L!couchOnly \subseteq L!Chosen /\ L!gitOnly \subseteq L!Chosen
         /\ L!synced \subseteq L!Chosen
         /\ \A r \in L!Chosen : /\ r \in rows /\ L!Key(r) \in picked /\ L!Key(r) \in Keys
                                /\ L!Key(r) = [db |-> r.db, doc |-> r.doc]
                                /\ L!Key(r).db = r.db /\ L!Key(r).doc = r.doc
         /\ \A r \in L!gitOnly \union L!synced : r.sha
<1>1. \A r \in ListRow : L!Key(r) \in Keys /\ L!Key(r).db = r.db /\ L!Key(r).doc = r.doc
  BY DEF ListRow, Keys, L!Key
<1> QED
  BY <1>1 DEF ListTypes, L!Chosen, L!couchOnly, L!gitOnly, L!synced, L!Key
\* What a deletion would take and skip.
LEMMA TargetsAreChosen ==
  ASSUME ListTypes, NEW mode \in L!Modes
  PROVE  /\ L!DeleteTargets(mode).couch \subseteq L!Chosen /\ L!DeleteTargets(mode).git \subseteq L!gitOnly \union L!synced
         /\ L!DeleteSkipped(mode) \subseteq L!Chosen
         /\ mode = "couch" => L!DeleteTargets(mode).git = {}
         /\ mode = "git" => L!DeleteTargets(mode).couch = {}
<1> USE ChosenRows
<1>1. CASE mode = "couch"
  BY <1>1 DEF L!DeleteTargets, L!DeleteSkipped
<1>2. CASE mode = "git"
  BY <1>2 DEF L!DeleteTargets, L!DeleteSkipped
<1>3. CASE mode = "both"
  BY <1>3 DEF L!DeleteTargets, L!DeleteSkipped
<1> QED
  BY <1>1, <1>2, <1>3 DEF L!Modes

LEMMA ListPrepareDelete == ASSUME ListConstants, ListInv, L!prepareDelete PROVE ListInv'
<1> USE DEF ListInv
<1>1. /\ UNCHANGED <<couch, files, rec, linked, token, admin, sel, repoId, couchList, gitList, rows, filter, picked,
                     rights, canWrite, loads, latest, busy, op, ops, prompt, trouble, crossed, halved>>
      /\ shifted' = (shifted /\ op # L!Idle) /\ picked # {}
  BY Zenon DEF L!prepareDelete, L!service, L!lists, L!work, L!Modal
<1>2. PICK mode \in L!Modes :
        dialog' = [mode |-> mode, listed |->
            {L!Key(r) : r \in CASE mode = "git" -> L!gitOnly \union L!synced
                              [] mode = "both" -> L!synced
                              [] mode = "couch" -> L!couchOnly \union L!synced}]
  BY Zenon DEF L!prepareDelete
<1>3. PICK them \in SUBSET L!Chosen :
        /\ dialog' = [mode |-> mode, listed |-> {L!Key(r) : r \in them}]
        /\ L!DeleteTargets(mode).couch \union L!DeleteTargets(mode).git \subseteq them
  <2>1. CASE mode = "git"
    <3>1. dialog' = [mode |-> mode, listed |-> {L!Key(r) : r \in L!gitOnly \union L!synced}]
      BY <1>2, <2>1
    <3> QED
      BY <2>1, <3>1, ChosenRows DEF L!DeleteTargets
  <2>2. CASE mode = "both"
    <3>1. dialog' = [mode |-> mode, listed |-> {L!Key(r) : r \in L!synced}]
      BY <1>2, <2>2
    <3> QED
      BY <2>2, <3>1, ChosenRows DEF L!DeleteTargets
  <2>3. CASE mode = "couch"
    <3>1. dialog' = [mode |-> mode, listed |-> {L!Key(r) : r \in L!couchOnly \union L!synced}]
      BY <1>2, <2>3
    <3> QED
      BY <2>3, <3>1, ChosenRows DEF L!DeleteTargets
  <2> QED
    BY <2>1, <2>2, <2>3 DEF L!Modes
<1>4. ListTypes'
  <2>1. dialog' \in [mode : L!Modes \union {"none"}, listed : SUBSET Keys]
    BY <1>3, ChosenRows
  <2> QED
    BY <1>1, <2>1 DEF ListTypes
<1>5. ListFlags' /\ Unselected'
  BY <1>1, Zenon DEF ListFlags, Unselected
<1>6. DialogOk'
  <2>1. dialog'.mode = mode /\ dialog'.listed = KeysOf(them) /\ dialog'.mode # "none"
    BY <1>3 DEF KeysOf, L!Modes
  <2>2. UNCHANGED <<L!DeleteTargets(mode)>>
    BY <1>1 DEF L!DeleteTargets, L!couchOnly, L!gitOnly, L!synced, L!Chosen, L!Key
  <2>3. KeysOf(L!DeleteTargets(mode).couch) \union KeysOf(L!DeleteTargets(mode).git) \subseteq dialog'.listed
    BY <1>3, <2>1 DEF KeysOf
  <2>4. KeysOf(L!DeleteTargets(mode).couch)' = KeysOf(L!DeleteTargets(mode).couch)
    BY <2>2 DEF KeysOf, L!Key
  <2>5. KeysOf(L!DeleteTargets(mode).git)' = KeysOf(L!DeleteTargets(mode).git)
    BY <2>2 DEF KeysOf, L!Key
  <2>6. (LET t == L!DeleteTargets(dialog.mode) IN KeysOf(t.couch) \union KeysOf(t.git) \subseteq dialog.listed)'
    BY <2>1, <2>3, <2>4, <2>5
  <2>7. ASSUME ~crossed, ~shifted', op.kind \in L!Modes
        PROVE  \A d \in op.couch \union op.git : [db |-> sel, doc |-> d] \in op.listed
    <3>0. op # L!Idle
      BY <2>7 DEF L!Idle, L!Modes
    <3>1. ~shifted
      BY <1>1, <2>7, <3>0, Zenon
    <3> QED
      BY <2>7, <3>1, Zenon DEF DialogOk
  <2> QED
    BY <1>1, <2>1, <2>6, <2>7, Zenon DEF DialogOk
<1> QED
  BY <1>1, <1>4, <1>5, <1>6, LoadsKept, OpKept, RightsKept, HomeKept, UnreadKept, RepoKept, ListsKept

LEMMA ListCancelDelete == ASSUME ListConstants, ListInv, L!cancelDelete PROVE ListInv'
<1> USE DEF ListInv
<1>1. /\ UNCHANGED <<couch, files, rec, linked, token, admin, sel, repoId, couchList, gitList, rows, filter, picked, rights,
                     canWrite, loads, latest, busy, op, ops, prompt, trouble, crossed, halved, shifted>>
      /\ dialog' = L!NoDialog
  BY DEF L!cancelDelete, L!service, L!lists, L!work
<1>2. ListTypes' /\ Unselected'
  BY <1>1 DEF ListTypes, Unselected, L!NoDialog
<1>3. ListFlags' /\ DialogOk'
  BY <1>1, Zenon DEF ListFlags, DialogOk
<1> QED
  BY <1>1, <1>2, <1>3, LoadsKept, OpKept, RightsKept, HomeKept, UnreadKept, RepoKept, ListsKept

\* The operations that are only asked for: nothing of the screen is touched but op.
LEMMA ListAsked ==
  ASSUME ListConstants, ListInv, sel # None, admin, op = L!Idle, prompt = None,
         NEW o, op' = o, o \in ListOp,
         o.db = sel, o.couch = {}, o.git = {}, o.skipped = {}, o.kind \notin L!Modes \union {"none"},
         \/ o.st = "git" /\ o.kind \in {"toRepo", "toCouch"} /\ o.repo = repoId /\ repoId # None /\ o.listed = picked
         \/ o.st = "send" /\ o.kind = "unlink" /\ o.repo = repoId /\ repoId # None
         \/ o.st = "send" /\ o.kind = "register" /\ o.repo \in Repos,
         UNCHANGED <<couch, files, rec, linked, token, admin, sel, repoId, couchList, gitList, rows, filter, picked,
                     rights, canWrite, loads, latest, busy, dialog, prompt, trouble, crossed, halved, shifted>>
  PROVE  ListInv'
<1> USE DEF ListInv
<1>0. op.st = "none" /\ op.kind = "none" /\ sel \in Dbs /\ repoId \in Repos \union {None}
  BY DEF L!Idle, ListTypes
<1>1. ListTypes'
  BY DEF ListTypes
<1>2. ListFlags' /\ Unselected'
  BY Zenon DEF ListFlags, Unselected
<1>3. LoadsShape'
  BY <1>0, LoadsKept
<1>4. OpShape'
  BY <1>0 DEF OpShape, ListOp, L!Modes, L!TheOp, ListConstants
<1>5. HomeOk'
  <2>1. o.kind \in {"toRepo", "toCouch"} => o.listed = picked
    OBVIOUS
  <2> QED
    BY <2>1, <1>0, Zenon DEF HomeOk
<1>6. UnreadOk'
  <2>1. \A r \in Repos, d \in Dbs : {} \subseteq files[r][d]
    OBVIOUS
  <2> QED
    BY <2>1, Zenon DEF UnreadOk
<1>7. RepoOk'
  <2>1. o.st \in {"git", "asking"} \/ o.kind = "unlink" => o.repo = repoId /\ repoId # None
    OBVIOUS
  <2> QED
    BY <2>1, Zenon DEF RepoOk, Reading
<1>8. ListsOk'
  <2>1. ~(o.kind = "both") /\ ~(op.st = "git")
    BY <1>0 DEF L!Modes
  <2> QED
    BY <2>1, <1>0, Zenon DEF ListsOk, CouchTrue, FilesTrue, Halfway, Sure, Reading
<1>9. DialogOk'
  <2>1. o.st # "load" /\ op.st # "load"
    BY <1>0
  <2>2. \A m : KeysOf(L!DeleteTargets(m).couch)' = KeysOf(L!DeleteTargets(m).couch)
    BY DEF KeysOf, L!DeleteTargets, L!couchOnly, L!gitOnly, L!synced, L!Chosen, L!Key
  <2>3. \A m : KeysOf(L!DeleteTargets(m).git)' = KeysOf(L!DeleteTargets(m).git)
    BY DEF KeysOf, L!DeleteTargets, L!couchOnly, L!gitOnly, L!synced, L!Chosen, L!Key
  <2> QED
    BY <2>1, <2>2, <2>3 DEF DialogOk
<1> QED
  BY <1>1, <1>2, <1>3, <1>4, <1>5, <1>6, <1>7, <1>8, <1>9, RightsKept

LEMMA ListAsk == ASSUME ListConstants, ListInv, L!Sync \/ L!Unlink \/ L!Register PROVE ListInv'
<1> USE DEF ListInv
<1>1. /\ UNCHANGED <<couch, files, rec, linked, token, admin, sel, repoId, couchList, gitList, rows, filter, picked,
                     rights, canWrite, loads, latest, busy, dialog, prompt, trouble, crossed, halved, shifted>>
      /\ admin /\ op = L!Idle /\ prompt = None
  BY DEF L!Sync, L!Unlink, L!Register, L!service, L!lists, L!work, L!Modal
<1>2. sel # None /\ sel \in Dbs /\ repoId \in Repos \union {None} /\ picked \subseteq Keys
  BY DEF L!Sync, L!Unlink, L!Register, ListTypes, Unselected
<1>3. CASE L!Sync
  <2>1. PICK kind \in {"toRepo", "toCouch"} :
          op' = [L!Idle EXCEPT !.kind = kind, !.st = "git", !.db = sel, !.repo = repoId, !.listed = picked]
    BY <1>3 DEF L!Sync
  <2>2. repoId # None
    BY <1>3 DEF L!Sync
  <2>3. /\ op' \in ListOp /\ op'.db = sel /\ op'.couch = {} /\ op'.git = {} /\ op'.skipped = {}
        /\ op'.kind = kind /\ op'.st = "git" /\ op'.repo = repoId /\ op'.listed = picked
    BY <1>2, <2>1 DEF L!Idle, ListOp
  <2>4. kind \notin L!Modes \union {"none"}
    BY DEF L!Modes
  <2> QED
    BY <1>1, <1>2, <2>2, <2>3, <2>4, ListAsked
<1>4. CASE L!Unlink
  <2>1. op' = [L!Idle EXCEPT !.kind = "unlink", !.st = "send", !.db = sel, !.repo = repoId] /\ repoId # None
    BY <1>4 DEF L!Unlink
  <2>3. /\ op' \in ListOp /\ op'.db = sel /\ op'.couch = {} /\ op'.git = {} /\ op'.skipped = {}
        /\ op'.kind = "unlink" /\ op'.st = "send" /\ op'.repo = repoId
    BY <1>2, <2>1 DEF L!Idle, ListOp
  <2>4. op'.kind \notin L!Modes \union {"none"}
    BY <2>3 DEF L!Modes
  <2> QED
    BY <1>1, <1>2, <2>1, <2>3, <2>4, ListAsked
<1>5. CASE L!Register
  <2>1. PICK r \in Repos : op' = [L!Idle EXCEPT !.kind = "register", !.st = "send", !.db = sel, !.repo = r]
    BY <1>5 DEF L!Register
  <2>3. /\ op' \in ListOp /\ op'.db = sel /\ op'.couch = {} /\ op'.git = {} /\ op'.skipped = {}
        /\ op'.kind = "register" /\ op'.st = "send" /\ op'.repo \in Repos
    BY <1>2, <2>1 DEF L!Idle, ListOp
  <2>4. op'.kind \notin L!Modes \union {"none"}
    BY <2>3 DEF L!Modes
  <2> QED
    BY <1>1, <1>2, <2>1, <2>3, <2>4, ListAsked
<1> QED
  BY <1>3, <1>4, <1>5

\* A load is in flight, so a database is selected.
LEMMA LoadSelected ==
  ASSUME ListConstants, ListTypes, Unselected, LoadsShape, NEW n \in L!Slots, loads[n].st # "none"
  PROVE  sel # None /\ sel \in Dbs /\ loads[n] \in ListLoad /\ loads[n].db \in Dbs
BY DEF ListTypes, Unselected, LoadsShape, L!NoLoad

\* A load that moves on, or ends.
LEMMA LoadMoves ==
  ASSUME ListConstants, LoadsShape, ListTypes, NEW n \in L!Slots, loads[n].st # "none", NEW l \in ListLoad,
         loads' = [loads EXCEPT ![n] = l], latest' = latest,
         l.st = "none" => l = L!NoLoad,
         l.st # "none" => l.db \in Dbs /\ l.by = loads[n].by,
         l.by = "register" => l.st \in {"git", "asking"},
         op'.st = op.st \/ (loads[n].by = "op" /\ l.st = "none"),
         \/ prompt' = prompt /\ prompt # n
         \/ prompt' = n /\ l.st = "asking"
         \/ prompt' = None
  PROVE  LoadsShape'
<1>1. loads' \in [L!Slots -> ListLoad] /\ loads'[n] = l /\ \A m \in L!Slots \ {n} : loads'[m] = loads[m]
  BY DEF LoadsShape
<1>2. n <= latest /\ n \in Nat /\ latest \in Nat
  BY DEF LoadsShape, L!NoLoad, ListTypes, ListConstants, L!Slots
<1>3. \A m \in L!Slots : loads'[m].st = "none" \/ m > latest => loads'[m] = L!NoLoad
  BY <1>1, <1>2 DEF LoadsShape
<1>4. \A m \in L!Slots : loads'[m].st # "none" => loads'[m].db \in Dbs
  BY <1>1 DEF LoadsShape
<1>5. \A m \in L!Slots : loads'[m].by = "op" => loads[m].by = "op" /\ loads'[m].st # "none"
  <2>1. \A m \in L!Slots : loads[m].by = "op" => loads[m].st # "none"
    BY DEF LoadsShape, L!NoLoad
  <2>2. l.by = "op" => l.st # "none"
    BY DEF L!NoLoad
  <2> QED
    BY <1>1, <2>1, <2>2
<1>6. \A m \in L!Slots : loads'[m].by = "op" => op'.st = "load" /\ \A k \in L!Slots : loads'[k].by = "op" => k = m
  BY <1>1, <1>5 DEF LoadsShape
<1>7. \A m \in L!Slots : loads'[m].by = "register" => loads'[m].st \in {"git", "asking"}
  BY <1>1 DEF LoadsShape
<1>8. prompt' \in L!Slots => loads'[prompt'].st = "asking"
  BY <1>1 DEF LoadsShape, ListConstants, L!Slots
<1> QED
  BY <1>1, <1>3, <1>4, <1>6, <1>7, <1>8 DEF LoadsShape

LEMMA ListLandRepo == ASSUME ListConstants, ListInv, NEW n \in L!Slots, L!LandRepo(n) PROVE ListInv'
<1> USE DEF ListInv
<1>1. /\ UNCHANGED <<couch, files, rec, linked, token, admin, sel, couchList, gitList, rows, filter, picked,
                     rights, canWrite, latest, busy, dialog, op, ops, prompt, crossed, halved, shifted>>
      /\ loads[n].st = "repo"
  BY DEF L!LandRepo, L!service
<1>2. \/ repoId' = linked[loads[n].db] /\ UNCHANGED trouble
      \/ trouble' = trouble + 1 /\ repoId' = repoId
  BY DEF L!LandRepo, L!Fail
<1>3. sel # None /\ sel \in Dbs /\ loads[n] \in ListLoad /\ loads[n].db \in Dbs
  BY <1>1, LoadSelected
<1>4. trouble' \in Nat /\ (trouble' = 0 => trouble = 0 /\ repoId' = linked[loads[n].db])
  BY <1>2 DEF ListTypes
<1>5. repoId' \in Repos \union {None}
  BY <1>2, <1>3 DEF ListTypes
<1>6. PICK l \in ListLoad :
        /\ loads' = [loads EXCEPT ![n] = l]
        /\ l.st = (IF repoId' = None THEN "couch" ELSE "git") /\ l.db = sel /\ l.repo = repoId' /\ l.by = loads[n].by
  <2> DEFINE l == [loads[n] EXCEPT !.st = (IF repoId' = None THEN "couch" ELSE "git"), !.db = sel, !.repo = repoId']
  <2>1. loads' = [loads EXCEPT ![n] = l]
    BY DEF L!LandRepo, L!Advance
  <2>2. /\ l \in ListLoad /\ l.st = (IF repoId' = None THEN "couch" ELSE "git") /\ l.db = sel
        /\ l.repo = repoId' /\ l.by = loads[n].by
    BY <1>3, <1>5 DEF ListLoad
  <2> QED
    BY <2>1, <2>2
<1>7. loads' \in [L!Slots -> ListLoad] /\ loads'[n] = l /\ \A m \in L!Slots \ {n} : loads'[m] = loads[m]
  BY <1>6 DEF LoadsShape
<1>8. ListTypes' /\ Unselected'
  BY <1>1, <1>3, <1>4, <1>5 DEF ListTypes, Unselected
<1>9. ListFlags' /\ RightsOk' /\ UnreadOk'
  BY <1>1, <1>4, Zenon DEF ListFlags, RightsOk, UnreadOk
<1>10. LoadsShape'
  <2>1. l.by = loads[n].by /\ l.by # "register" /\ l.st \in {"couch", "git"} /\ l.db \in Dbs
    BY <1>1, <1>3, <1>6 DEF LoadsShape
  <2>2. prompt # n
    BY <1>1 DEF LoadsShape
  <2> QED
    BY <1>1, <1>6, <2>1, <2>2, LoadMoves
<1>11. HomeOk'
  BY <1>1, <1>6, <1>7, SMTT(30) DEF HomeOk
<1>12. RepoOk' /\ ListsOk'
  <2> SUFFICES ASSUME trouble' = 0, ~crossed' PROVE RepoOk' /\ ListsOk'
    BY Zenon DEF RepoOk, ListsOk
  <2>1. trouble = 0 /\ ~crossed /\ repoId' = linked[sel] /\ repoId = None /\ gitList = {} /\ admin
    BY <1>1, <1>3, <1>4, Zenon DEF RepoOk, HomeOk, Reading
  <2>2. \A m \in L!Slots \ {n} : loads[m].st = "none"
    BY <1>1, <2>1, Zenon DEF HomeOk
  <2>3. RepoOk'
    <3>1. ~(op.st \in {"git", "asking"} \/ op.kind = "unlink")
      BY <1>3, <2>1 DEF RepoOk
    <3> QED
      BY <1>1, <1>3, <1>6, <1>7, <2>1, <2>2, <3>1 DEF RepoOk, Reading
  <2>4. ListsOk'
    <3>1. loads'[n].by # "register" /\ loads'[n].st # "none"
      BY <1>1, <1>6, <1>7 DEF LoadsShape
    <3>2. repoId' # None => loads'[n].st = "git"
      BY <1>6, <1>7
    <3>3. repoId' = None => FilesTrue'
      BY <1>1, <2>1 DEF FilesTrue
    <3> QED
      BY <3>1, <3>2, <3>3, Zenon DEF ListsOk, Reading
  <2> QED
    BY <2>3, <2>4
<1> QED
  BY <1>1, <1>8, <1>9, <1>10, <1>11, <1>12, OpKept, DialogKept

\* The rows made of two lists.
LEMMA BuiltRows ==
  ASSUME NEW cs \in SUBSET CouchRow, NEW gs \in SUBSET Keys, NEW d0 \in Dbs
  PROVE  /\ L!buildDDocs(cs, gs, d0) \subseteq ListRow
         /\ \A w \in L!buildDDocs(cs, gs, d0) : w.rev \/ w.sha
         /\ \A w \in L!buildDDocs(cs, gs, d0) : w.sha /\ gs = {} => \E c \in cs : c.rec /\ c.doc = w.doc
         /\ (\A k \in cs \union gs : k.db = d0) =>
              {[db |-> w.db, doc |-> w.doc] : w \in L!buildDDocs(cs, gs, d0)}
                = {[db |-> c.db, doc |-> c.doc] : c \in cs} \union gs
<1> DEFINE orphans == {g.doc : g \in {h \in gs : ~\E c \in cs : L!Key(c) = h}}
           lasting == {c \in cs : ~(c.db = d0 /\ c.doc \in orphans)}
<1>1. L!buildDDocs(cs, gs, d0) =
        {[db |-> c.db, doc |-> c.doc, rev |-> TRUE, sha |-> c.rec] : c \in lasting}
        \union {[db |-> d0, doc |-> d, rev |-> FALSE, sha |-> TRUE] : d \in orphans}
  BY DEF L!buildDDocs
<1>2. orphans \subseteq Docs /\ (gs = {} => orphans = {})
  BY DEF Keys
<1>3. \A c \in cs : c.db \in Dbs /\ c.doc \in Docs /\ c.rec \in BOOLEAN
  BY DEF CouchRow
<1>4. ASSUME \A k \in cs \union gs : k.db = d0
      PROVE  {[db |-> w.db, doc |-> w.doc] : w \in L!buildDDocs(cs, gs, d0)}
                = {[db |-> c.db, doc |-> c.doc] : c \in cs} \union gs
  <2>1. \A c \in cs : c.doc \notin orphans
    <3> SUFFICES ASSUME NEW c \in cs, NEW g \in gs, c.doc = g.doc, \A e \in cs : L!Key(e) # g PROVE FALSE
      OBVIOUS
    <3>1. g = [db |-> g.db, doc |-> g.doc]
      BY DEF Keys
    <3> QED
      BY <1>4, <3>1 DEF L!Key
  <2>2. lasting = cs
    BY <2>1
  <2>3. {[db |-> w.db, doc |-> w.doc] : w \in L!buildDDocs(cs, gs, d0)}
          = {[db |-> c.db, doc |-> c.doc] : c \in cs} \union {[db |-> d0, doc |-> d] : d \in orphans}
    <3> HIDE DEF orphans, lasting
    <3> DEFINE key(w) == [db |-> w.db, doc |-> w.doc]
    <3>1. \A c \in cs : key([db |-> c.db, doc |-> c.doc, rev |-> TRUE, sha |-> c.rec]) = key(c)
      OBVIOUS
    <3>2. \A d \in orphans : key([db |-> d0, doc |-> d, rev |-> FALSE, sha |-> TRUE]) = [db |-> d0, doc |-> d]
      OBVIOUS
    <3> HIDE DEF key
    <3>3. {key(w) : w \in L!buildDDocs(cs, gs, d0)}
            = {key(c) : c \in cs} \union {[db |-> d0, doc |-> d] : d \in orphans}
      <4>1. \A c \in cs : [db |-> c.db, doc |-> c.doc, rev |-> TRUE, sha |-> c.rec] \in L!buildDDocs(cs, gs, d0)
        BY <1>1, <2>2
      <4>2. \A d \in orphans : [db |-> d0, doc |-> d, rev |-> FALSE, sha |-> TRUE] \in L!buildDDocs(cs, gs, d0)
        BY <1>1
      <4>3. \A w \in L!buildDDocs(cs, gs, d0) :
              (\E c \in cs : key(w) = key(c)) \/ (\E d \in orphans : key(w) = [db |-> d0, doc |-> d])
        <5> TAKE w \in L!buildDDocs(cs, gs, d0)
        <5>1. CASE \E c \in cs : w = [db |-> c.db, doc |-> c.doc, rev |-> TRUE, sha |-> c.rec]
          <6>1. PICK c \in cs : w = [db |-> c.db, doc |-> c.doc, rev |-> TRUE, sha |-> c.rec]
            BY <5>1
          <6>2. key(w) = key(c)
            BY <3>1, <6>1, Zenon
          <6> QED
            BY <6>2
        <5>2. CASE \E d \in orphans : w = [db |-> d0, doc |-> d, rev |-> FALSE, sha |-> TRUE]
          <6>1. PICK d \in orphans : w = [db |-> d0, doc |-> d, rev |-> FALSE, sha |-> TRUE]
            BY <5>2
          <6>2. key(w) = [db |-> d0, doc |-> d]
            BY <3>2, <6>1, Zenon
          <6> QED
            BY <6>2
        <5> QED
          BY <1>1, <2>2, <5>1, <5>2
      <4>4. \A c \in cs : \E w \in L!buildDDocs(cs, gs, d0) : key(w) = key(c)
        BY <3>1, <4>1
      <4>5. \A d \in orphans : \E w \in L!buildDDocs(cs, gs, d0) : key(w) = [db |-> d0, doc |-> d]
        BY <3>2, <4>2
      <4> QED
        BY <4>3, <4>4, <4>5
    <3> QED
      BY <3>3 DEF key
  <2>4. \A g \in gs : g = [db |-> d0, doc |-> g.doc]
    BY <1>4 DEF Keys
  <2>5. {[db |-> d0, doc |-> d] : d \in orphans} = {h \in gs : ~\E c \in cs : L!Key(c) = h}
    BY <2>4
  <2>6. {h \in gs : \E c \in cs : L!Key(c) = h} \subseteq {[db |-> c.db, doc |-> c.doc] : c \in cs}
    BY DEF L!Key
  <2> HIDE DEF orphans, lasting
  <2> QED
    BY <2>3, <2>5, <2>6
<1> HIDE DEF orphans, lasting
<1>5. lasting \subseteq cs
  BY DEF lasting
<1>6. \A w \in L!buildDDocs(cs, gs, d0) : w.rev \/ w.sha
  BY <1>1
<1>7. \A w \in L!buildDDocs(cs, gs, d0) : w.sha /\ gs = {} => \E c \in cs : c.rec /\ c.doc = w.doc
  BY <1>1, <1>2, <1>5
<1>8. L!buildDDocs(cs, gs, d0) \subseteq ListRow
  <2>1. \A c \in lasting : [db |-> c.db, doc |-> c.doc, rev |-> TRUE, sha |-> c.rec] \in ListRow
    BY <1>3, <1>5 DEF ListRow
  <2>2. \A d \in orphans : [db |-> d0, doc |-> d, rev |-> FALSE, sha |-> TRUE] \in ListRow
    BY <1>2 DEF ListRow
  <2> QED
    BY <1>1, <2>1, <2>2
<1> QED
  BY <1>4, <1>6, <1>7, <1>8

\* The files of a load have been read, or will not be: it goes on to CouchDB, or ends.
LEMMA AfterFilesKeeps ==
  ASSUME ListConstants, ListInv, NEW n \in L!Slots, loads[n].st \in {"git", "asking"}, L!AfterFiles(n),
         UNCHANGED <<couch, files, rec, linked, token, admin, sel, repoId, couchList, filter, picked, rights,
                     canWrite, latest, busy, dialog, op, crossed, halved>>,
         (prompt' = prompt /\ prompt # n) \/ prompt' = None,
         trouble' \in Nat, trouble' = 0 => trouble = 0,
         gitList' \subseteq Keys, ~crossed => \A k \in gitList' : k.db = sel, ~token => gitList' = {},
         token /\ ~crossed /\ trouble' = 0 => FilesTrue'
  PROVE  ListInv'
<1> USE DEF ListInv
<1>1. sel # None /\ sel \in Dbs /\ loads[n] \in ListLoad /\ loads[n].db \in Dbs /\ loads[n].st # "none"
  BY LoadSelected
<1>2. PICK l \in ListLoad :
        /\ loads' = [loads EXCEPT ![n] = l]
        /\ \/ loads[n].by = "register" /\ l = L!NoLoad
           \/ loads[n].by # "register" /\ l.st = "couch" /\ l.db = sel /\ l.by = loads[n].by
  <2>1. CASE loads[n].by = "register"
    <3>1. loads' = [loads EXCEPT ![n] = L!NoLoad] /\ L!NoLoad \in ListLoad
      BY <2>1 DEF L!AfterFiles, L!NoLoad, ListLoad
    <3> QED
      BY <2>1, <3>1
  <2>2. CASE loads[n].by # "register"
    <3> DEFINE l == [loads[n] EXCEPT !.st = "couch", !.db = sel, !.repo = repoId']
    <3>1. loads' = [loads EXCEPT ![n] = l]
      BY <2>2 DEF L!AfterFiles, L!Advance
    <3>2. l \in ListLoad /\ l.st = "couch" /\ l.db = sel /\ l.by = loads[n].by
      BY <1>1 DEF ListLoad, ListTypes
    <3> QED
      BY <2>2, <3>1, <3>2
  <2> QED
    BY <2>1, <2>2
<1>3. loads' \in [L!Slots -> ListLoad] /\ loads'[n] = l /\ \A m \in L!Slots \ {n} : loads'[m] = loads[m]
  BY <1>2 DEF LoadsShape
<1>4. \/ l = L!NoLoad /\ l.st = "none" /\ rows' = L!buildDDocs(couchList, gitList', sel) 
      \/ l.st = "couch" /\ l.by # "register" /\ rows' = rows
  BY <1>2 DEF L!AfterFiles, L!refreshDocs, L!NoLoad
<1>5. /\ shifted' \in BOOLEAN /\ (~shifted' => ~shifted)
      /\ ~shifted' => rows' = rows \/ dialog = L!NoDialog
  <2>1. CASE loads[n].by = "register"
    BY <2>1, Zenon DEF L!AfterFiles, L!refreshDocs, ListFlags
  <2>2. CASE loads[n].by # "register"
    BY <2>2, Zenon DEF L!AfterFiles, ListFlags
  <2> QED
    BY <2>1, <2>2
<1>6. /\ rows' \subseteq ListRow /\ \A r \in rows' : r.rev \/ r.sha
      /\ \A w \in rows' : w.sha /\ gitList' = {} => w \in rows \/ \E c \in couchList : c.rec /\ c.doc = w.doc
  <2>1. CASE rows' = rows
    BY <2>1 DEF ListTypes
  <2>2. CASE rows' = L!buildDDocs(couchList, gitList', sel)
    <3>1. couchList \in SUBSET CouchRow /\ gitList' \in SUBSET Keys
      BY DEF ListTypes
    <3> QED
      BY <1>1, <2>2, <3>1, BuiltRows
  <2> QED
    BY <1>4, <2>1, <2>2
<1>7. prompt' \in {None, prompt} /\ (prompt' # None => ~token')
  BY Zenon
<1>8. ListTypes'
  BY <1>6, <1>7 DEF ListTypes
<1>9. ListFlags' /\ Unselected' /\ RightsOk'
  BY <1>1, <1>5, Zenon DEF ListFlags, Unselected, RightsOk
<1>10. LoadsShape'
  <2>1. l.st = "none" => l = L!NoLoad
    BY <1>2
  <2>2. l.st # "none" => l.db \in Dbs /\ l.by = loads[n].by
    BY <1>1, <1>2 DEF L!NoLoad
  <2>3. l.by = "register" => l.st \in {"git", "asking"}
    BY <1>2 DEF L!NoLoad
  <2> QED
    BY <1>1, <1>2, <2>1, <2>2, <2>3, LoadMoves
<1>11. OpShape'
  BY <1>7 DEF OpShape, L!TheOp, ListConstants
<1>12. HomeOk'
  <2> SUFFICES ASSUME ~crossed PROVE HomeOk'
    BY Zenon DEF HomeOk
  <2>1. \A m \in L!Slots : loads[m].st # "none" => m = n
    BY <1>1, Zenon DEF HomeOk
  <2>2. \A m \in L!Slots : loads'[m].st # "none" => loads'[m].db = sel /\ m = n
    BY <1>2, <1>3, <2>1 DEF L!NoLoad
  <2>3. \A k \in picked \union gitList' : k.db = sel
    BY DEF HomeOk
  <2> QED
    BY <2>2, <2>3, Zenon DEF HomeOk
<1>13. UnreadOk'
  <2> SUFFICES ASSUME ~token PROVE (/\ gitList = {} 
                                    /\ \A r \in Repos, d \in Dbs : \A w \in rows : w.sha => w.doc \in files[r][d])'
    BY Zenon DEF UnreadOk
  <2> QED
    BY <1>6, Zenon DEF UnreadOk
<1>14. RepoOk' /\ ListsOk'
  <2> SUFFICES ASSUME trouble' = 0, ~crossed' PROVE RepoOk' /\ ListsOk'
    BY Zenon DEF RepoOk, ListsOk
  <2>1. trouble = 0 /\ ~crossed /\ admin /\ repoId # None /\ repoId = linked[sel]
    <3>1. trouble = 0 /\ ~crossed /\ \A m \in L!Slots : loads[m].st # "none" => m = n
      BY <1>1, Zenon DEF HomeOk
    <3>2. \A m \in L!Slots : loads[m].st # "repo"
      BY <3>1
    <3> QED
      BY <1>1, <3>1, <3>2 DEF RepoOk, Reading
  <2>2. \A m \in L!Slots \ {n} : loads[m].st = "none"
    BY <1>1, <2>1, Zenon DEF HomeOk
  <2>3. RepoOk'
    <3>1. \A m \in L!Slots : ~(loads'[m].st \in {"repo", "git", "asking"})
      BY <1>3, <1>4, <2>2
    <3>2. op.st \in {"git", "asking"} \/ op.kind = "unlink" => op.repo = repoId /\ repoId # None
      BY <1>1, <2>1, Zenon DEF RepoOk
    <3> QED
      BY <1>1, <2>1, <3>1, <3>2 DEF RepoOk, Reading
  <2>4. ListsOk'
    <3>1. (\A m \in L!Slots : loads'[m].st # "none" => loads'[m].by = "register")
            => \A m \in L!Slots : loads[m].st # "none" => loads[m].by = "register"
      BY <1>2, <1>3, <1>4, <2>2
    <3>2. (\A m \in L!Slots : loads'[m].st # "none" => loads'[m].by = "register") /\ ~Halfway' => CouchTrue'
      BY <1>1, <2>1, <3>1, Zenon DEF ListsOk, Halfway, CouchTrue
    <3>3. token' /\ ~halved' /\ (\A m \in L!Slots : ~Reading(m)') => FilesTrue'
      BY <2>1, Zenon
    <3>4. (\A m \in L!Slots : loads'[m].st = "none") => rows' = L!buildDDocs(couchList, gitList', sel)
      BY <1>3, <1>4
    <3> QED
      BY <3>2, <3>3, <3>4, Zenon DEF ListsOk
  <2> QED
    BY <2>3, <2>4
<1>15. DialogOk'
  <2>1. CASE rows' = rows
    BY <1>5, <2>1, DialogKept, Zenon
  <2>2. CASE rows' # rows
    BY <1>5, <2>2, Zenon DEF DialogOk
  <2> QED
    BY <2>1, <2>2
<1> QED
  BY <1>7, <1>8, <1>9, <1>10, <1>11, <1>12, <1>13, <1>14, <1>15

\* The files of the repository, as they are read.
LEMMA FilesRead ==
  ASSUME ListTypes, NEW r \in Repos \union {None}, NEW d \in Dbs
  PROVE  /\ L!Files(r, d) \subseteq Keys /\ \A k \in L!Files(r, d) : k.db = d
         /\ r # None /\ linked[d] = r => L!Files(r, d) = {[db |-> d, doc |-> x] : x \in files[r][d]}
<1>1. r # None => files[r][d] \subseteq Docs
  BY DEF ListTypes
<1> QED
  BY <1>1 DEF L!Files, Keys

LEMMA ListLandFiles == ASSUME ListConstants, ListInv, NEW n \in L!Slots, L!LandFiles(n) PROVE ListInv'
<1> USE DEF ListInv
<1>1. /\ UNCHANGED <<couch, files, rec, linked, token, admin, sel, repoId, couchList, filter, picked, rights, canWrite,
                     latest, busy, dialog, op, ops, crossed, halved>>
      /\ loads[n].st = "git" /\ prompt # n
  BY DEF L!LandFiles, L!service, LoadsShape
<1>2. sel # None /\ sel \in Dbs /\ loads[n] \in ListLoad /\ loads[n].db \in Dbs /\ loads[n].repo \in Repos \union {None}
  BY <1>1, LoadSelected DEF ListLoad
<1>3. CASE token /\ gitList' = L!Files(loads[n].repo, loads[n].db) /\ L!AfterFiles(n) /\ UNCHANGED <<trouble, prompt>>
  <2>1. gitList' \subseteq Keys /\ \A k \in gitList' : k.db = loads[n].db
    BY <1>2, <1>3, FilesRead
  <2>2. ~crossed => loads[n].db = sel
    BY <1>1, Zenon DEF HomeOk
  <2>3. ASSUME ~crossed, trouble' = 0 PROVE FilesTrue'
    <3>1. \A m \in L!Slots : loads[m].st # "repo"
      BY <1>1, <2>3 DEF HomeOk
    <3>2. repoId = linked[sel] /\ loads[n].repo = repoId /\ repoId # None
      BY <1>1, <1>2, <1>3, <2>3, <3>1 DEF RepoOk, Reading
    <3> QED
      BY <1>1, <1>2, <1>3, <2>2, <2>3, <3>2, FilesRead DEF FilesTrue
  <2>4. trouble' \in Nat /\ (trouble' = 0 => trouble = 0)
    BY <1>3 DEF ListTypes
  <2> QED
    BY <1>1, <1>3, <2>1, <2>2, <2>3, <2>4, AfterFilesKeeps
<1>4. CASE token /\ L!Fail /\ gitList' = {} /\ L!AfterFiles(n) /\ UNCHANGED prompt
  <2>1. trouble' \in Nat /\ trouble' # 0
    BY <1>4 DEF L!Fail, ListTypes
  <2> QED
    BY <1>1, <1>4, <2>1, AfterFilesKeeps
<1>5. CASE /\ ~token /\ prompt' = n /\ loads' = [loads EXCEPT ![n].st = "asking"]
           /\ UNCHANGED <<gitList, rows, trouble, shifted>>
  <2>1. PICK l \in ListLoad : /\ loads' = [loads EXCEPT ![n] = l] /\ l.st = "asking" /\ l.db = loads[n].db
                              /\ l.repo = loads[n].repo /\ l.by = loads[n].by
    <3>1. [loads[n] EXCEPT !.st = "asking"] \in ListLoad
      BY <1>2 DEF ListLoad
    <3>2. loads' = [loads EXCEPT ![n] = [loads[n] EXCEPT !.st = "asking"]]
      BY <1>5
    <3> QED
      BY <1>2, <3>1, <3>2 DEF ListLoad
  <2>2. loads'[n] = l /\ \A m \in L!Slots \ {n} : loads'[m] = loads[m]
    BY <2>1 DEF LoadsShape
  <2>3. LoadsShape'
    BY <1>1, <1>2, <1>5, <2>1, LoadMoves
  <2>4. ListTypes' /\ OpShape'
    BY <1>1, <1>5 DEF ListTypes, OpShape, L!Slots, L!TheOp
  <2>5. ListFlags' /\ Unselected'
    BY <1>1, <1>2, <1>5, Zenon DEF ListFlags, Unselected
  <2>6. HomeOk'
    <3>1. \A m \in L!Slots : loads'[m].db = loads[m].db /\ (loads'[m].st = "none" <=> loads[m].st = "none")
      BY <1>1, <2>1, <2>2
    <3> QED
      BY <1>1, <1>5, <3>1, Zenon DEF HomeOk
  <2>7. RepoOk' /\ ListsOk'
    <3>1. \A m \in L!Slots : /\ Reading(m)' <=> Reading(m)
                             /\ loads'[m].st = "repo" <=> loads[m].st = "repo"
                             /\ loads'[m].st \in {"git", "asking"} <=> loads[m].st \in {"git", "asking"}
                             /\ loads'[m].st = "none" <=> loads[m].st = "none"
                             /\ loads'[m].by = loads[m].by /\ loads'[m].repo = loads[m].repo
      BY <1>1, <2>1, <2>2 DEF Reading
    <3>2. RepoOk'
      BY <1>1, <1>5, <3>1, Zenon DEF RepoOk
    <3>3. ListsOk'
      BY <1>1, <1>5, <3>1, Zenon DEF ListsOk, CouchTrue, FilesTrue, Sure, Halfway
    <3> QED
      BY <3>2, <3>3
  <2> QED
    BY <1>1, <1>5, <2>3, <2>4, <2>5, <2>6, <2>7, RightsKept, UnreadKept, DialogKept
<1> QED
  BY <1>3, <1>4, <1>5, Zenon DEF L!LandFiles

\* What CouchDB lists.
LEMMA CouchListed ==
  ASSUME ListTypes, NEW d \in Dbs
  PROVE  /\ L!Listed(d) \subseteq CouchRow /\ \A c \in L!Listed(d) : c.db = d /\ (c.rec => c.doc \in rec[d])
         /\ {[db |-> c.db, doc |-> c.doc] : c \in L!Listed(d)} = {[db |-> d, doc |-> x] : x \in couch[d]}
<1> DEFINE row(x) == [db |-> d, doc |-> x, rec |-> x \in rec[d]]
<1>1. \A x \in couch[d] : row(x) \in CouchRow /\ row(x).db = d /\ row(x).doc = x
  BY DEF ListTypes, CouchRow
<1>2. \A x \in couch[d] : row(x).rec => x \in rec[d]
  OBVIOUS
<1>3. L!Listed(d) = {row(x) : x \in couch[d]}
  BY Zenon DEF L!Listed
<1> HIDE DEF row
<1>4. L!Listed(d) \subseteq CouchRow /\ \A c \in L!Listed(d) : c.db = d /\ c.doc \in couch[d]
  BY <1>1, <1>3
<1>5. \A c \in L!Listed(d) : c.rec => c.doc \in rec[d]
  <2> SUFFICES ASSUME NEW x \in couch[d], row(x).rec PROVE row(x).doc \in rec[d]
    BY <1>3
  <2> QED
    BY <1>1, <1>2
<1>6. \A x \in couch[d] : \E c \in L!Listed(d) : c.db = d /\ c.doc = x
  BY <1>1, <1>3
<1>7. {[db |-> c.db, doc |-> c.doc] : c \in L!Listed(d)} = {[db |-> d, doc |-> x] : x \in couch[d]}
  BY <1>4, <1>6
<1> QED
  BY <1>4, <1>5, <1>7

LEMMA ListLandCouch == ASSUME ListConstants, ListInv, NEW n \in L!Slots, L!LandCouch(n) PROVE ListInv'
<1> USE DEF ListInv
<1>1. /\ UNCHANGED <<couch, files, rec, linked, token, admin, sel, repoId, gitList, filter, picked, rights,
                     canWrite, latest, dialog, ops, prompt, crossed, halved>>
      /\ loads[n].st = "couch" /\ loads' = [loads EXCEPT ![n] = L!NoLoad] /\ busy' = FALSE
      /\ rows' = L!buildDDocs(couchList', gitList', sel) /\ L!refreshDocs
      /\ \/ couchList' = L!Listed(loads[n].db) /\ UNCHANGED trouble
         \/ trouble' = trouble + 1 /\ UNCHANGED couchList
      /\ op' = IF loads[n].by = "op" THEN L!Idle ELSE op
  BY DEF L!LandCouch, L!refreshDocs, L!Fail
<1>2. sel # None /\ sel \in Dbs /\ loads[n] \in ListLoad /\ loads[n].db \in Dbs /\ prompt # n
  BY <1>1, LoadSelected DEF LoadsShape
<1>3. trouble' \in Nat /\ (trouble' = 0 => trouble = 0 /\ couchList' = L!Listed(loads[n].db))
  BY <1>1 DEF ListTypes
<1>4. /\ couchList' \subseteq CouchRow /\ gitList' \subseteq Keys
      /\ \A c \in couchList' : c.rec => c \in couchList \/ c.doc \in rec[loads[n].db]
  BY <1>1, <1>2, CouchListed DEF ListTypes
<1>5. /\ rows' \subseteq ListRow /\ \A w \in rows' : w.rev \/ w.sha
      /\ \A w \in rows' : w.sha /\ gitList' = {} => \E c \in couchList' : c.rec /\ c.doc = w.doc
  <2>1. couchList' \in SUBSET CouchRow /\ gitList' \in SUBSET Keys
    BY <1>4
  <2> QED
    BY <1>1, <1>2, <2>1, BuiltRows
<1>6. shifted' \in BOOLEAN /\ (~shifted' => ~shifted /\ dialog = L!NoDialog)
  BY <1>1, Zenon DEF L!refreshDocs, ListFlags
<1>7. loads'[n] = L!NoLoad /\ L!NoLoad.st = "none" /\ \A m \in L!Slots \ {n} : loads'[m] = loads[m]
  BY <1>1 DEF LoadsShape, L!NoLoad
<1>8. op' = op \/ (loads[n].by = "op" /\ op' = L!Idle /\ op.st = "load")
  BY <1>1 DEF LoadsShape
<1>9. L!Idle.st = "none" /\ L!Idle.kind = "none" /\ L!Idle.git = {} /\ L!Idle.couch = {} /\ L!Idle.skipped = {}
  BY DEF L!Idle
<1>10. ListTypes'
  BY <1>1, <1>3, <1>4, <1>5 DEF ListTypes
<1>11. ListFlags' /\ RightsOk'
  BY <1>1, <1>3, <1>6, Zenon DEF ListFlags, RightsOk
<1>12. Unselected'
  BY <1>1, <1>2 DEF Unselected
<1>13. LoadsShape'
  <2>1. L!NoLoad \in ListLoad /\ L!NoLoad.by # "register"
    BY DEF L!NoLoad, ListLoad
  <2> QED
    BY <1>1, <1>2, <1>7, <1>8, <2>1, LoadMoves
<1>14. OpShape'
  <2>1. CASE op' = op
    BY <1>1, <2>1, OpKept
  <2>2. CASE op.st = "load" /\ op' = L!Idle
    BY <1>1, <2>2 DEF OpShape, ListOp, L!Idle
  <2> QED
    BY <1>8, <2>1, <2>2
<1>15. HomeOk'
  <2> SUFFICES ASSUME ~crossed PROVE HomeOk'
    BY <1>1, Zenon DEF HomeOk
  <2>1. \A m \in L!Slots : loads'[m].st = "none"
    BY <1>1, <1>7 DEF HomeOk
  <2>2. /\ op'.st # "none" => op'.db = sel
        /\ \A r \in op'.skipped : r.db = sel
        /\ op'.kind \in {"toRepo", "toCouch"} => \A k \in op'.listed : k.db = sel
    BY <1>8, <1>9 DEF HomeOk
  <2> QED
    BY <1>1, <2>1, <2>2, Zenon DEF HomeOk
<1>16. UnreadOk'
  <2> SUFFICES ASSUME ~token PROVE UnreadOk'
    BY <1>1, Zenon DEF UnreadOk
  <2>1. gitList = {} /\ \A r \in Repos, d \in Dbs : op'.git \subseteq files[r][d]
    BY <1>8, <1>9 DEF UnreadOk
  <2>2. \A r \in Repos, d \in Dbs : \A c \in couchList' : c.rec => c.doc \in files[r][d]
    BY <1>2, <1>4 DEF UnreadOk
  <2>3. \A r \in Repos, d \in Dbs : \A w \in rows' : w.sha => w.doc \in files[r][d]
    BY <1>1, <1>5, <2>1, <2>2
  <2> QED
    BY <1>1, <2>1, <2>2, <2>3, Zenon DEF UnreadOk
<1>17. RepoOk' /\ ListsOk'
  <2> SUFFICES ASSUME trouble' = 0, ~crossed PROVE RepoOk' /\ ListsOk'
    BY <1>1, Zenon DEF RepoOk, ListsOk
  <2>1. trouble = 0 /\ loads[n].db = sel /\ couchList' = L!Listed(sel)
    BY <1>1, <1>3 DEF HomeOk
  <2>2. \A m \in L!Slots : ~Reading(m) /\ loads'[m].st = "none" /\ loads[m].st # "repo"
    BY <1>1, <1>7 DEF HomeOk, Reading
  <2>3. RepoOk'
    <3>1. \A m \in L!Slots : ~Reading(m)' /\ loads'[m].st \notin {"repo", "git", "asking"}
      BY <2>2 DEF Reading
    <3>2. /\ repoId = None => gitList = {}
          /\ ~admin => repoId = None
          /\ admin => repoId = linked[sel]
      BY <1>2, <2>1, <2>2, Zenon DEF RepoOk
    <3>3. ~admin => op'.kind \in L!Modes \union {"none"} /\ op'.git = {}
      BY <1>2, <1>8, <1>9, <2>1 DEF RepoOk
    <3>4. op'.st \in {"git", "asking"} \/ op'.kind = "unlink" => op'.repo = repoId /\ repoId # None
      BY <1>2, <1>8, <1>9, <2>1 DEF RepoOk
    <3> QED
      BY <1>1, <1>2, <3>1, <3>2, <3>3, <3>4 DEF RepoOk
  <2>4. CouchTrue'
    BY <1>1, <1>2, <2>1, CouchListed DEF CouchTrue
  <2>5. ASSUME token, ~halved PROVE FilesTrue' \/ Sure'
    <3>1. FilesTrue \/ Sure
      BY <1>2, <2>1, <2>2, <2>5, Zenon DEF ListsOk
    <3>2. CASE FilesTrue
      BY <1>1, <3>2, Zenon DEF FilesTrue
    <3>3. CASE Sure
      <4>1. op' = op
        BY <1>8, <3>3 DEF Sure
      <4> QED
        BY <1>1, <3>3, <4>1, Zenon DEF Sure
    <3> QED
      BY <3>1, <3>2, <3>3
  <2> QED
    BY <1>1, <2>3, <2>4, <2>5, Zenon DEF ListsOk
<1>18. DialogOk'
  <2>1. op'.kind \in L!Modes => op' = op
    BY <1>8, <1>9 DEF L!Modes
  <2>2. dialog.mode = "none" => dialog = L!NoDialog
    BY DEF DialogOk
  <2> QED
    BY <1>1, <1>6, <2>1, <2>2, Zenon DEF DialogOk
<1> QED
  BY <1>1, <1>10, <1>11, <1>12, <1>13, <1>14, <1>15, <1>16, <1>17, <1>18

\* A deletion or a sync is over: the selection is what it skipped, and everything is loaded again.
LEMMA FinishKeeps ==
  ASSUME ListConstants, ListInv, NEW o \in ListOp, L!Finish(o), sel # None,
         op.st # "load", prompt # L!TheOp, prompt' = prompt,
         UNCHANGED <<linked, token, admin, sel, repoId, couchList, gitList, rows, filter, rights, canWrite, halved, shifted>>,
         trouble' \in Nat, trouble' = 0 => trouble = 0,
         couch' \in [Dbs -> SUBSET Docs], files' \in [Repos -> [Dbs -> SUBSET Docs]],
         \A d \in Dbs : rec'[d] \subseteq rec[d] \/ token, rec' \in [Dbs -> SUBSET Docs],
         ~token => files' = files,
         dialog' = dialog \/ dialog' = L!NoDialog,
         o.st # "load", o.kind \in L!Modes \union {"toRepo", "toCouch"}, o.db \in Dbs,
         o.kind = "couch" => o.git = {},
         ~crossed => /\ o.db = sel /\ \A r \in o.skipped : r.db = sel
                     /\ o.kind \in {"toRepo", "toCouch"} => \A k \in o.listed : k.db = sel,
         ~token => \A r \in Repos, d \in Dbs : o.git \subseteq files[r][d],
         trouble = 0 /\ ~crossed /\ ~admin => o.kind \in L!Modes /\ o.git = {},
         ~crossed /\ ~shifted /\ o.kind \in L!Modes => \A d \in o.couch \union o.git : [db |-> sel, doc |-> d] \in o.listed
  PROVE  ListInv'
<1> USE DEF ListInv
<1>1. sel \in Dbs /\ repoId \in Repos \union {None} /\ latest \in 0..MaxLoads
  BY DEF ListTypes
<1>2. /\ picked' = {L!Key(r) : r \in o.skipped} /\ (~crossed' => ~crossed) /\ crossed' \in BOOLEAN
      /\ \/ /\ latest < MaxLoads /\ op' = [o EXCEPT !.st = "load"] /\ latest' = latest + 1 /\ busy' = TRUE
            /\ loads' = [loads EXCEPT ![latest + 1] =
                           [st |-> L!FirstStep(repoId), db |-> sel, repo |-> repoId, by |-> "op"]]
            /\ ~crossed' => ~L!Running
         \/ op' = L!Idle /\ crossed' /\ UNCHANGED <<loads, latest, busy>>
  <2>1. CASE latest < MaxLoads
    BY <2>1, Zenon DEF L!Finish, L!Load, L!Cross, ListFlags, L!work
  <2>2. CASE ~(latest < MaxLoads)
    BY <2>2, Zenon DEF L!Finish, L!work
  <2> QED
    BY <2>1, <2>2
<1>3. o.skipped \subseteq ListRow /\ \A r \in o.skipped : L!Key(r) \in Keys /\ L!Key(r).db = r.db
  BY DEF ListOp, ListRow, Keys, L!Key
<1>4. picked' \subseteq Keys /\ (~crossed => \A k \in picked' : k.db = sel)
  BY <1>2, <1>3
<1>5. /\ L!Idle.st = "none" /\ L!Idle.kind = "none" /\ L!Idle.git = {} /\ L!Idle.couch = {} /\ L!Idle.skipped = {}
      /\ L!Idle \in ListOp
  BY DEF L!Idle, ListOp
<1>6. latest' \in 0..MaxLoads
  BY <1>1, <1>2 DEF ListConstants
<1>7. ListTypes'
  BY <1>4, <1>6 DEF ListTypes, L!NoDialog
<1>8. busy' \in BOOLEAN
  BY <1>2, Zenon DEF ListFlags
<1>9. ListFlags' /\ Unselected' /\ RightsOk'
  BY <1>2, <1>8, Zenon DEF ListFlags, Unselected, RightsOk
<1>10. op' \in ListOp /\ (op'.st = "none" => op' = L!Idle)
       /\ \/ op'.st = "load" /\ op'.kind = o.kind /\ op'.db = o.db /\ op'.repo = o.repo /\ op'.couch = o.couch
             /\ op'.git = o.git /\ op'.skipped = o.skipped /\ op'.listed = o.listed
          \/ op' = L!Idle
  BY <1>2, <1>5 DEF ListOp
<1>11. OpShape'
  BY <1>5, <1>10 DEF OpShape, L!Modes
<1>12. ASSUME NEW l \in ListLoad, latest < MaxLoads, loads' = [loads EXCEPT ![latest + 1] = l], l.by = "op"
       PROVE  /\ latest + 1 \in L!Slots /\ loads' \in [L!Slots -> ListLoad] /\ loads'[latest + 1] = l
              /\ \A m \in L!Slots \ {latest + 1} : loads'[m] = loads[m]
  BY <1>1, <1>12 DEF L!Slots, LoadsShape, ListConstants
<1>13. ASSUME latest < MaxLoads, loads' = [loads EXCEPT ![latest + 1] =
                           [st |-> L!FirstStep(repoId), db |-> sel, repo |-> repoId, by |-> "op"]],
              op' = [o EXCEPT !.st = "load"], latest' = latest + 1, ~crossed' => ~L!Running
       PROVE  LoadsShape' /\ HomeOk' /\ RepoOk' /\ ListsOk'
  <2>1. PICK l \in ListLoad : /\ loads' = [loads EXCEPT ![latest + 1] = l] /\ l.st = L!FirstStep(repoId)
                              /\ l.db = sel /\ l.repo = repoId /\ l.by = "op" 
    <3>1. L!FirstStep(repoId) \in {"couch", "repo", "git"}
      BY DEF L!FirstStep
    <3> DEFINE l == [st |-> L!FirstStep(repoId), db |-> sel, repo |-> repoId, by |-> "op"]
    <3>2. /\ l \in ListLoad /\ l.st = L!FirstStep(repoId) /\ l.db = sel /\ l.repo = repoId /\ l.by = "op"
      BY <1>1, <3>1 DEF ListLoad
    <3>3. loads' = [loads EXCEPT ![latest + 1] = l]
      BY <1>13
    <3> HIDE DEF l
    <3> QED
      BY <3>2, <3>3
  <2>2. /\ latest + 1 \in L!Slots /\ loads' \in [L!Slots -> ListLoad] /\ loads'[latest + 1] = l
        /\ \A m \in L!Slots \ {latest + 1} : loads'[m] = loads[m]
    BY <1>12, <1>13, <2>1
  <2>3. l.st \in {"couch", "repo", "git"} /\ (~admin => l.st = "couch") /\ (admin => l.st = IF repoId = None THEN "repo" ELSE "git")
    BY <2>1 DEF L!FirstStep
  <2>4. LoadsShape'
    <3>1. loads[latest + 1] = L!NoLoad
      BY <1>1, <2>2 DEF LoadsShape
    <3>2. \A m \in L!Slots : loads[m].by # "op"
      BY DEF LoadsShape
    <3>3. \A m \in L!Slots : loads'[m].st = "none" \/ m > latest' => loads'[m] = L!NoLoad
      BY <1>1, <1>13, <2>2, <2>3 DEF LoadsShape, L!Slots
    <3>4. \A m \in L!Slots : loads'[m].st # "none" => loads'[m].db \in Dbs
      BY <1>1, <2>1, <2>2 DEF LoadsShape
    <3>5. \A m \in L!Slots : loads'[m].by = "op" => m = latest + 1
      BY <2>2, <3>2
    <3>6. \A m \in L!Slots : loads'[m].by = "register" => loads'[m].st \in {"git", "asking"}
      BY <2>1, <2>2 DEF LoadsShape
    <3>7. op'.st = "load"
      BY <1>10, <1>13 DEF ListOp
    <3>8. prompt' \in L!Slots => loads'[prompt'].st = "asking"
      BY <2>2, <3>1 DEF LoadsShape, L!NoLoad
    <3> QED
      BY <2>2, <3>3, <3>4, <3>5, <3>6, <3>7, <3>8 DEF LoadsShape
  <2>5. ASSUME ~crossed' PROVE \A m \in L!Slots : loads'[m].st # "none" => m = latest + 1
    BY <1>13, <2>2, <2>5 DEF L!Running, L!NoLoad
  <2>6. HomeOk'
    <3> SUFFICES ASSUME ~crossed' PROVE HomeOk'
      BY Zenon DEF HomeOk
    <3>1. \A m \in L!Slots : loads'[m].st # "none" => loads'[m].db = sel /\ m = latest + 1
      BY <2>1, <2>2, <2>5
    <3>2. /\ op'.st # "none" => op'.db = sel
          /\ \A r \in op'.skipped : r.db = sel
          /\ op'.kind \in {"toRepo", "toCouch"} => \A k \in op'.listed : k.db = sel
      BY <1>2, <1>5, <1>10
    <3>3. \A k \in picked' \union gitList' : k.db = sel
      BY <1>2, <1>4 DEF HomeOk
    <3> QED
      BY <3>1, <3>2, <3>3, Zenon DEF HomeOk
  <2>7. RepoOk' /\ ListsOk'
    <3> SUFFICES ASSUME trouble' = 0, ~crossed' PROVE RepoOk' /\ ListsOk'
      BY Zenon DEF RepoOk, ListsOk
    <3>1. trouble = 0 /\ ~crossed /\ \A m \in L!Slots : loads[m].st = "none" /\ ~Reading(m)
      BY <1>2, <1>13 DEF L!Running, Reading, L!NoLoad
    <3>2. /\ repoId = None => gitList = {}
          /\ ~admin => repoId = None
          /\ admin => repoId = linked[sel]
      BY <3>1 DEF RepoOk
    <3>3. ~admin => op'.kind \in L!Modes \union {"none"} /\ op'.git = {} /\ \A m \in L!Slots : ~Reading(m)'
      BY <1>5, <1>10, <2>2, <2>3, <3>1 DEF Reading
    <3>4. /\ \A m \in L!Slots : loads'[m].st = "repo" => repoId = None
          /\ \A m \in L!Slots : loads'[m].st \in {"git", "asking"} => loads'[m].repo = repoId /\ repoId # None
      BY <2>1, <2>2, <2>3, <3>1
    <3>5. ~(op'.st \in {"git", "asking"} \/ op'.kind = "unlink")
      BY <1>5, <1>10 DEF L!Modes
    <3>6. RepoOk'
      BY <3>2, <3>3, <3>4, <3>5, Zenon DEF RepoOk
    <3>7. \E m \in L!Slots : loads'[m].by # "register" /\ loads'[m].st # "none" /\ (admin => Reading(m)')
      BY <2>1, <2>2, <2>3 DEF Reading
    <3>8. ~admin => FilesTrue'
      BY <3>2 DEF FilesTrue
    <3> QED
      BY <2>2, <3>6, <3>7, <3>8, Zenon DEF ListsOk
  <2> QED
    BY <2>4, <2>6, <2>7
<1>14. ASSUME op' = L!Idle, crossed', UNCHANGED <<loads, latest, busy>>
       PROVE  LoadsShape' /\ HomeOk' /\ RepoOk' /\ ListsOk'
  <2>1. LoadsShape'
    <3>1. \A m \in L!Slots : loads[m].by # "op"
      BY DEF LoadsShape
    <3> QED
      BY <1>14, <3>1 DEF LoadsShape
  <2> QED
    BY <1>14, <2>1 DEF HomeOk, RepoOk, ListsOk
<1>15. UnreadOk'
  <2> SUFFICES ASSUME ~token PROVE UnreadOk'
    BY Zenon DEF UnreadOk
  <2>1. \A r \in Repos, d \in Dbs : op'.git \subseteq files[r][d]
    BY <1>5, <1>10
  <2>2. \A r \in Repos, d \in Dbs : \A e \in Dbs : rec'[e] \subseteq files[r][d]
    BY DEF UnreadOk
  <2> QED
    BY <2>1, <2>2, Zenon DEF UnreadOk
<1>16. DialogOk'
  <2>1. dialog'.mode = "none" => dialog' = L!NoDialog
    BY DEF DialogOk
  <2>2. ~crossed' => op'.st = "load"
    BY <1>2 DEF ListOp
  <2>3. ASSUME ~crossed', ~shifted', op'.kind \in L!Modes
        PROVE  \A d \in op'.couch \union op'.git : [db |-> sel, doc |-> d] \in op'.listed
    <3>1. ~crossed /\ ~shifted
      BY <1>2, <2>3, Zenon
    <3>2. op' # L!Idle
      BY <1>5, <2>3 DEF L!Modes
    <3> QED
      BY <1>10, <2>3, <3>1, <3>2
  <2> QED
    BY <2>1, <2>2, <2>3, Zenon DEF DialogOk
<1>17. LoadsShape' /\ HomeOk' /\ RepoOk' /\ ListsOk'
  BY <1>2, <1>13, <1>14
<1> QED
  BY <1>7, <1>9, <1>11, <1>15, <1>16, <1>17

\* A deletion, as confirmDelete starts it.
Deletion(mode, c, g, skipped, them) ==
  [L!Idle EXCEPT !.kind = mode, !.db = sel, !.repo = repoId, !.couch = c, !.git = g, !.skipped = skipped,
     !.listed = them]
LEMMA DeletionFields ==
  ASSUME NEW mode \in L!Modes, NEW c \in SUBSET Docs, NEW g \in SUBSET Docs, NEW skipped \in SUBSET ListRow,
         NEW them \in SUBSET Keys, sel \in Dbs, repoId \in Repos \union {None}
  PROVE  LET o == Deletion(mode, c, g, skipped, them) IN
         /\ o \in ListOp /\ o.kind = mode /\ o.st = "none" /\ o.db = sel /\ o.repo = repoId
         /\ o.couch = c /\ o.git = g /\ o.skipped = skipped /\ o.listed = them
BY DEF Deletion, L!Idle, ListOp

LEMMA ListConfirmDelete == ASSUME ListConstants, ListInv, L!confirmDelete PROVE ListInv'
<1> USE DEF ListInv
<1> DEFINE t == L!DeleteTargets(dialog.mode)
           start == [L!Idle EXCEPT !.kind = dialog.mode, !.db = sel, !.repo = repoId, !.couch = L!NamesOf(t.couch),
                       !.git = L!NamesOf(t.git), !.skipped = L!DeleteSkipped(dialog.mode), !.listed = dialog.listed]
<1>1. /\ UNCHANGED <<couch, files, rec, linked, token, admin, sel, repoId, couchList, gitList, rows, filter, rights,
                     canWrite, prompt, trouble, halved, shifted>>
      /\ dialog # L!NoDialog /\ prompt = None /\ op = L!Idle /\ dialog' = L!NoDialog
      /\ \/ t.git # {} /\ repoId = None /\ UNCHANGED <<op, picked, loads, latest, busy, crossed>>
         \/ /\ ~(t.git # {} /\ repoId = None) /\ t.couch # {}
            /\ op' = [start EXCEPT !.st = "couch"] /\ UNCHANGED <<picked, loads, latest, busy, crossed>>
         \/ /\ ~(t.git # {} /\ repoId = None) /\ t.couch = {} /\ t.git # {}
            /\ op' = [start EXCEPT !.st = "git"] /\ UNCHANGED <<picked, loads, latest, busy, crossed>>
         \/ t.couch = {} /\ t.git = {} /\ L!Finish(start)
  BY SMTT(30) DEF L!confirmDelete, L!service, L!work
<1>2. /\ dialog.mode \in L!Modes /\ dialog.listed \subseteq Keys /\ sel # None /\ sel \in Dbs
      /\ repoId \in Repos \union {None}
  BY <1>1 DEF ListTypes, DialogOk, Unselected
<1>3. /\ t.couch \subseteq L!Chosen /\ t.git \subseteq L!gitOnly \union L!synced
      /\ L!DeleteSkipped(dialog.mode) \subseteq L!Chosen
      /\ dialog.mode = "couch" => t.git = {}
      /\ dialog.mode = "git" => t.couch = {}
  BY <1>2, TargetsAreChosen
<1>4. /\ L!Chosen \subseteq ListRow /\ t.git \subseteq L!Chosen /\ \A r \in t.git : r.sha
      /\ \A r \in L!Chosen : /\ r \in rows /\ L!Key(r) \in picked /\ L!Key(r) = [db |-> r.db, doc |-> r.doc]
                             /\ L!Key(r).db = r.db /\ r.doc \in Docs
  BY <1>3, ChosenRows DEF ListRow
<1>5. L!Idle.st = "none" /\ L!Idle.kind = "none"
  BY DEF L!Idle
<1> DEFINE names == L!NamesOf(t.couch)
           gits == L!NamesOf(t.git)
           skipped == L!DeleteSkipped(dialog.mode)
<1>6. /\ names \subseteq Docs /\ gits \subseteq Docs /\ skipped \subseteq ListRow
      /\ (t.git = {} => gits = {}) /\ (t.couch = {} => names = {})
  BY <1>3, <1>4 DEF L!NamesOf
<1>7. ~crossed => \A r \in L!Chosen : r.db = sel
  BY <1>4 DEF HomeOk
<1>8. ~token => \A r \in Repos, d \in Dbs : gits \subseteq files[r][d]
  BY <1>4 DEF UnreadOk, L!NamesOf
<1>9. ~crossed /\ ~shifted => \A d \in names \union gits : [db |-> sel, doc |-> d] \in dialog.listed
  <2> SUFFICES ASSUME ~crossed, ~shifted, NEW r \in t.couch \union t.git
               PROVE  [db |-> sel, doc |-> r.doc] \in dialog.listed
    BY DEF L!NamesOf
  <2>1. KeysOf(t.couch) \union KeysOf(t.git) \subseteq dialog.listed
    BY <1>1, <1>5 DEF DialogOk
  <2>2. r \in L!Chosen
    BY <1>3, <1>4
  <2>3. L!Key(r) = [db |-> sel, doc |-> r.doc]
    BY <1>4, <1>7, <2>2
  <2>4. L!Key(r) \in KeysOf(t.couch) \union KeysOf(t.git)
    BY DEF KeysOf
  <2> QED
    BY <2>1, <2>3, <2>4
<1>10. /\ start \in ListOp /\ start.kind = dialog.mode /\ start.st = "none" /\ start.db = sel /\ start.repo = repoId
       /\ start.couch = names /\ start.git = gits /\ start.skipped = skipped /\ start.listed = dialog.listed
  <2>1. start = Deletion(dialog.mode, names, gits, skipped, dialog.listed)
    BY Zenon DEF names, gits, skipped, Deletion
  <2> HIDE DEF start, names, gits, skipped
  <2>2. /\ names \in SUBSET Docs /\ gits \in SUBSET Docs /\ skipped \in SUBSET ListRow
        /\ dialog.listed \in SUBSET Keys
    BY <1>2, <1>6
  <2> QED
    BY <1>2, <2>1, <2>2, DeletionFields
<1> HIDE DEF t, start, names, gits, skipped
<1>11. CASE UNCHANGED <<op, picked, loads, latest, busy, crossed>>
  <2>1. ListTypes'
    BY <1>1, <1>11 DEF ListTypes, L!NoDialog
  <2>2. ListFlags' /\ Unselected'
    BY <1>1, <1>2, <1>11, Zenon DEF ListFlags, Unselected
  <2>3. DialogOk'
    <3>1. op'.kind \notin L!Modes
      BY <1>1, <1>5, <1>11 DEF L!Modes
    <3> QED
      BY <1>1, <3>1, Zenon DEF DialogOk
  <2> QED
    BY <1>1, <1>11, <2>1, <2>2, <2>3, LoadsKept, OpKept, RightsKept, HomeKept, UnreadKept, RepoKept,
       ListsKept
<1>12. ASSUME NEW st \in {"couch", "git"}, op' = [start EXCEPT !.st = st], UNCHANGED <<picked, loads, latest, busy, crossed>>,
              ~(t.git # {} /\ repoId = None), st = "couch" => t.couch # {}, st = "git" => t.git # {}
       PROVE  ListInv'
  <2>1. /\ op' \in ListOp /\ op'.kind = dialog.mode /\ op'.st = st /\ op'.db = sel /\ op'.repo = repoId
        /\ op'.couch = names /\ op'.git = gits /\ op'.skipped = skipped /\ op'.listed = dialog.listed
    BY <1>10, <1>12 DEF ListOp
  <2>2. ListTypes'
    BY <1>1, <1>12 DEF ListTypes, L!NoDialog
  <2>3. ListFlags' /\ Unselected'
    BY <1>1, <1>2, <1>12, Zenon DEF ListFlags, Unselected
  <2>4. LoadsShape'
    BY <1>1, <1>5, <1>12, LoadsKept
  <2>5. dialog.mode # "none" /\ dialog.mode \notin {"toRepo", "toCouch", "unlink", "register"}
    BY <1>2 DEF L!Modes
  <2>6. OpShape'
    BY <1>1, <1>2, <1>3, <1>6, <1>12, <2>1, <2>5 DEF OpShape, L!Modes, L!TheOp, ListConstants
  <2>7. HomeOk'
    <3>1. ~crossed => \A r \in skipped : r.db = sel
      BY <1>3, <1>7 DEF skipped
    <3> QED
      BY <1>1, <1>12, <2>1, <2>5, <3>1 DEF HomeOk
  <2>8. UnreadOk'
    BY <1>1, <1>8, <1>12, <2>1, Zenon DEF UnreadOk
  <2>9. RepoOk'
    <3>1. repoId = None => gits = {} /\ st # "git"
      BY <1>6, <1>12
    <3> QED
      BY <1>1, <1>2, <1>12, <2>1, <2>5, <3>1 DEF RepoOk, Reading
  <2>10. ListsOk'
    <3>1. ~Halfway' => ~Halfway
      BY <1>1, <1>5, Zenon DEF Halfway
    <3>2. ~Sure
      BY <1>1, <1>5 DEF Sure
    <3>3. /\ CouchTrue' <=> CouchTrue 
          /\ FilesTrue' <=> FilesTrue
      BY <1>1, <1>12, Zenon DEF CouchTrue, FilesTrue
    <3> QED
      BY <1>1, <1>12, <3>1, <3>2, <3>3, Zenon DEF ListsOk, Reading
  <2>11. DialogOk'
    BY <1>1, <1>9, <1>12, <2>1, Zenon DEF DialogOk
  <2> QED
    BY <1>1, <1>12, <2>2, <2>3, <2>4, <2>6, <2>7, <2>8, <2>9, <2>10, <2>11, RightsKept
<1>13. CASE t.couch = {} /\ t.git = {} /\ L!Finish(start)
  <2>1. start.kind \in L!Modes /\ start.kind \notin {"toRepo", "toCouch"}
    BY <1>2, <1>10 DEF L!Modes
  <2>2. start.git = {}
    BY <1>6, <1>10, <1>13
  <2>3. ~crossed => \A r \in start.skipped : r.db = sel
    BY <1>3, <1>7, <1>10 DEF skipped
  <2>4. trouble \in Nat /\ couch \in [Dbs -> SUBSET Docs] /\ files \in [Repos -> [Dbs -> SUBSET Docs]]
        /\ rec \in [Dbs -> SUBSET Docs]
    BY DEF ListTypes
  <2>5. prompt # L!TheOp /\ op.st # "load"
    BY <1>1, <1>5 DEF ListConstants, L!TheOp
  <2>6. ~crossed /\ ~shifted => \A d \in start.couch \union start.git : [db |-> sel, doc |-> d] \in start.listed
    BY <1>9, <1>10
  <2> QED
    BY <1>1, <1>2, <1>10, <1>13, <2>1, <2>2, <2>3, <2>4, <2>5, <2>6, FinishKeeps
<1> QED
  BY <1>1, <1>11, <1>12, <1>13

LEMMA ListSelectDatabase == ASSUME ListConstants, ListInv, L!SelectDatabase PROVE ListInv'
<1> USE DEF ListInv
<1>1. /\ UNCHANGED <<couch, files, rec, linked, token, admin, couchList, rows, filter, dialog, op, ops, prompt,
                     trouble, shifted>>
      /\ dialog = L!NoDialog /\ prompt = None
      /\ sel' \in Dbs \ {sel} /\ repoId' = None /\ gitList' = {} /\ picked' = {}
      /\ crossed' = (L!Running \/ op # L!Idle) /\ halved' = FALSE
      /\ latest < MaxLoads /\ latest' = latest + 1 /\ busy' = TRUE
      /\ loads' = [loads EXCEPT ![latest + 1] = [st |-> L!FirstStep(None), db |-> sel', repo |-> None, by |-> "user"]]
  BY Zenon DEF L!SelectDatabase, L!service, L!Modal, L!ClearSelection, L!Load
<1>2. \/ admin /\ canWrite' = TRUE /\ rights' = rights
      \/ ~admin /\ rights' = rights \union {sel'} /\ canWrite' = canWrite
  BY Zenon DEF L!SelectDatabase
<1>3. sel' # None /\ latest \in 0..MaxLoads /\ latest' \in 0..MaxLoads /\ latest + 1 \in L!Slots
  BY <1>1 DEF ListConstants, ListTypes, L!Slots
<1>4. /\ crossed' \in BOOLEAN
      /\ ~crossed' => op = L!Idle /\ \A n \in L!Slots : loads[n] = L!NoLoad
  <2>1. crossed' \in BOOLEAN
    BY <1>1, Zenon
  <2>2. ~crossed' => op = L!Idle /\ ~L!Running
    BY <1>1, Zenon
  <2> QED
    BY <2>1, <2>2 DEF L!Running
<1>5. L!Idle.st = "none" /\ L!Idle.kind = "none" /\ L!Idle.git = {} /\ L!Idle.skipped = {} /\ L!NoLoad.st = "none"
  BY DEF L!Idle, L!NoLoad
<1>6. PICK l \in ListLoad : /\ loads' = [loads EXCEPT ![latest + 1] = l] /\ l.db = sel' /\ l.by = "user"
                            /\ l.st = IF admin THEN "repo" ELSE "couch"
  <2> DEFINE l == [st |-> L!FirstStep(None), db |-> sel', repo |-> None, by |-> "user"]
  <2>1. l \in ListLoad /\ l.db = sel' /\ l.by = "user" /\ l.st = IF admin THEN "repo" ELSE "couch"
    BY <1>1 DEF ListLoad, L!FirstStep
  <2>2. loads' = [loads EXCEPT ![latest + 1] = l]
    BY <1>1
  <2> HIDE DEF l
  <2> QED
    BY <2>1, <2>2
<1>7. /\ loads' \in [L!Slots -> ListLoad] /\ loads'[latest + 1] = l
      /\ \A m \in L!Slots \ {latest + 1} : loads'[m] = loads[m]
  BY <1>3, <1>6 DEF LoadsShape
<1>8. ListTypes'
  <2>1. rights' \subseteq Dbs
    BY <1>1, <1>2 DEF ListTypes
  <2> QED
    BY <1>1, <1>3, <2>1 DEF ListTypes
<1>9. ListFlags'
  <2>1. canWrite' \in BOOLEAN
    BY <1>2, Zenon DEF ListFlags
  <2> QED
    BY <1>1, <1>4, <2>1, Zenon DEF ListFlags
<1>10. Unselected'
  BY <1>3, Zenon DEF Unselected
<1>11. LoadsShape'
  <2>1. loads[latest + 1] = L!NoLoad
    BY <1>3 DEF LoadsShape
  <2>2. \A m \in L!Slots : loads'[m].st = "none" \/ m > latest' => loads'[m] = L!NoLoad
    BY <1>1, <1>3, <1>6, <1>7 DEF LoadsShape, L!Slots
  <2>3. \A m \in L!Slots : loads'[m].st # "none" => loads'[m].db \in Dbs
    BY <1>1, <1>6, <1>7 DEF LoadsShape
  <2>4. \A m \in L!Slots : loads'[m].by = "op" => m # latest + 1 /\ loads[m].by = "op"
    BY <1>6, <1>7
  <2>5. \A m \in L!Slots : loads'[m].by = "op" => op.st = "load" /\ \A k \in L!Slots : loads'[k].by = "op" => k = m
    BY <2>4 DEF LoadsShape
  <2>6. \A m \in L!Slots : loads'[m].by = "register" => loads'[m].st \in {"git", "asking"}
    BY <1>6, <1>7 DEF LoadsShape
  <2>7. prompt' \notin L!Slots
    BY <1>1 DEF L!Slots, ListConstants
  <2> QED
    BY <1>1, <1>7, <2>2, <2>3, <2>5, <2>6, <2>7 DEF LoadsShape
<1>12. OpShape'
  BY <1>1, OpKept
<1>13. RightsOk'
  <2>1. CASE admin
    BY <1>1, <1>2, <2>1, Zenon DEF RightsOk
  <2>2. CASE ~admin
    <3>1. sel' \in rights'
      BY <1>2, <2>2
    <3> QED
      BY <1>1, <2>2, <3>1, Zenon DEF RightsOk
  <2> QED
    BY <2>1, <2>2
<1>14. HomeOk'
  <2> SUFFICES ASSUME ~crossed' PROVE HomeOk'
    BY Zenon DEF HomeOk
  <2>1. \A m \in L!Slots : loads'[m].st # "none" => loads'[m].db = sel' /\ m = latest + 1
    BY <1>4, <1>5, <1>6, <1>7
  <2>2. op'.st = "none" /\ op'.skipped = {} /\ op'.kind \notin {"toRepo", "toCouch"} /\ picked' \union gitList' = {}
    BY <1>1, <1>4, <1>5
  <2> QED
    BY <2>1, <2>2, Zenon DEF HomeOk
<1>15. UnreadOk'
  BY <1>1, Zenon DEF UnreadOk
<1>16. RepoOk' /\ ListsOk'
  <2> SUFFICES ASSUME ~crossed' PROVE RepoOk' /\ ListsOk'
    BY Zenon DEF RepoOk, ListsOk
  <2>1. \A m \in L!Slots : /\ loads'[m].st = "repo" => admin
                           /\ loads'[m].st \notin {"git", "asking"}
    BY <1>4, <1>5, <1>6, <1>7
  <2>2. admin => loads'[latest + 1].st = "repo"
    BY <1>6, <1>7
  <2>3. RepoOk'
    BY <1>1, <1>3, <1>4, <1>5, <2>1, <2>2 DEF RepoOk, Reading
  <2>4. FilesTrue'
    BY <1>1 DEF FilesTrue
  <2>5. loads'[latest + 1].by # "register" /\ loads'[latest + 1].st # "none"
    BY <1>6, <1>7
  <2> QED
    BY <1>3, <2>3, <2>4, <2>5, Zenon DEF ListsOk
<1>17. DialogOk'
  <2>1. ASSUME ~crossed' PROVE op'.kind \notin L!Modes
    BY <1>1, <1>4, <1>5, <2>1 DEF L!Modes
  <2> QED
    BY <1>1, <2>1, Zenon DEF DialogOk
<1> QED
  BY <1>1, <1>8, <1>9, <1>10, <1>11, <1>12, <1>13, <1>14, <1>15, <1>16, <1>17

LEMMA ListLandCouchDelete == ASSUME ListConstants, ListInv, L!LandCouchDelete PROVE ListInv'
<1> USE DEF ListInv
<1>1. /\ UNCHANGED <<files, linked, token, admin, sel, repoId, couchList, gitList, rows, filter, rights,
                     canWrite, dialog, ops, prompt, halved, shifted>>
      /\ op.st = "couch"
  BY DEF L!LandCouchDelete
<1>2. /\ sel # None /\ sel \in Dbs /\ op \in ListOp /\ op.kind \in {"couch", "both"} /\ op.db \in Dbs
      /\ op.kind \notin {"toRepo", "toCouch"} /\ op.kind \in L!Modes /\ (op.kind = "couch" => op.git = {})
      /\ repoId \in Repos \union {None} /\ prompt # L!TheOp
  BY <1>1 DEF OpShape, ListTypes, Unselected, L!Idle, L!Modes
<1>3. CASE /\ \E refused \in {{}, op.couch} :
                /\ couch' = [couch EXCEPT ![op.db] = @ \ (op.couch \ refused)]
                /\ IF refused = {} THEN UNCHANGED trouble ELSE L!Fail
           /\ rec' = IF sel = None THEN rec ELSE [rec EXCEPT ![sel] = @ \ L!NamesOf(L!couchOnly)]
           /\ IF op.git # {} /\ repoId # None
              THEN op' = [op EXCEPT !.st = "git", !.db = sel, !.repo = repoId] /\ UNCHANGED <<picked, loads, latest, busy, crossed>>
              ELSE L!Finish(op)
  <2>1. couch' \in [Dbs -> SUBSET Docs] /\ trouble' \in Nat /\ (trouble' = 0 => trouble = 0)
    <3>1. PICK refused \in {{}, op.couch} :
                /\ couch' = [couch EXCEPT ![op.db] = @ \ (op.couch \ refused)]
                /\ IF refused = {} THEN UNCHANGED trouble ELSE L!Fail
      BY <1>3
    <3>2. couch' \in [Dbs -> SUBSET Docs]
      BY <1>2, <3>1 DEF ListTypes
    <3>3. trouble' \in {trouble, trouble + 1}
      BY <3>1 DEF L!Fail
    <3> QED
      BY <3>2, <3>3 DEF ListTypes
  <2>2. rec' \in [Dbs -> SUBSET Docs] /\ \A d \in Dbs : rec'[d] \subseteq rec[d]
    <3>1. rec' = [rec EXCEPT ![sel] = @ \ L!NamesOf(L!couchOnly)]
      BY <1>2, <1>3
    <3> QED
      BY <1>2, <3>1 DEF ListTypes
  <2>3. CASE op.git # {} /\ repoId # None
    <3>0. op' = [op EXCEPT !.st = "git", !.db = sel, !.repo = repoId] /\ UNCHANGED <<picked, loads, latest, busy, crossed>>
      BY <1>3, <2>3
    <3>1. /\ op' \in ListOp /\ op'.kind = op.kind /\ op'.st = "git" /\ op'.db = sel /\ op'.repo = repoId
          /\ op'.couch = op.couch /\ op'.git = op.git /\ op'.skipped = op.skipped /\ op'.listed = op.listed
      BY <1>2, <3>0 DEF ListOp
    <3>2. op.kind = "both"
      BY <1>2, <2>3
    <3>3. ListTypes'
      BY <1>1, <2>1, <2>2, <3>0 DEF ListTypes
    <3>4. ListFlags' /\ Unselected' /\ RightsOk'
      BY <1>1, <1>2, <2>1, <3>0, Zenon DEF ListFlags, Unselected, RightsOk
    <3>5. LoadsShape'
      BY <1>1, <3>0, LoadsKept
    <3>6. OpShape'
      BY <1>1, <1>2, <2>3, <3>1, <3>2 DEF OpShape, L!TheOp, L!Modes
    <3>7. HomeOk'
      BY <1>1, <1>2, <3>0, <3>1 DEF HomeOk
    <3>8. UnreadOk'
      <4> SUFFICES ASSUME ~token PROVE UnreadOk'
        BY <1>1, Zenon DEF UnreadOk
      <4>1. \A r \in Repos, d \in Dbs : \A e \in Dbs : rec'[e] \subseteq files[r][d]
        BY <2>2 DEF UnreadOk
      <4> QED
        BY <1>1, <3>1, <4>1, Zenon DEF UnreadOk
    <3>9. RepoOk'
      BY <1>1, <1>2, <2>1, <2>3, <3>0, <3>1 DEF RepoOk, Reading
    <3>10. ListsOk'
      <4>1. ~Sure /\ Halfway' /\ (FilesTrue' <=> FilesTrue)
        BY <1>1, <3>1, <3>2 DEF Sure, Halfway, FilesTrue
      <4> QED
        BY <1>1, <2>1, <3>0, <4>1, Zenon DEF ListsOk, Reading
    <3>11. DialogOk'
      <4>1. op.st # "load" /\ (\A m : KeysOf(L!DeleteTargets(m).couch)' = KeysOf(L!DeleteTargets(m).couch))
             /\ (\A m : KeysOf(L!DeleteTargets(m).git)' = KeysOf(L!DeleteTargets(m).git))
        BY <1>1, <3>0 DEF KeysOf, L!DeleteTargets, L!couchOnly, L!gitOnly, L!synced, L!Chosen, L!Key
      <4> QED
        BY <1>1, <3>0, <3>1, <4>1, Zenon DEF DialogOk
    <3> QED
      BY <1>1, <3>3, <3>4, <3>5, <3>6, <3>7, <3>8, <3>9, <3>10, <3>11
  <2>4. CASE ~(op.git # {} /\ repoId # None)
    <3>1. L!Finish(op)
      BY <1>3, <2>4
    <3>2. ~crossed => op.db = sel /\ \A r \in op.skipped : r.db = sel
      BY <1>1 DEF HomeOk
    <3>3. ~token => \A r \in Repos, d \in Dbs : op.git \subseteq files[r][d]
      BY DEF UnreadOk
    <3>4. trouble = 0 /\ ~crossed /\ ~admin => op.kind \in L!Modes /\ op.git = {}
      BY <1>2, Zenon DEF RepoOk
    <3>5. ~crossed /\ ~shifted => \A d \in op.couch \union op.git : [db |-> sel, doc |-> d] \in op.listed
      BY <1>2, Zenon DEF DialogOk
    <3>6. files \in [Repos -> [Dbs -> SUBSET Docs]]
      BY DEF ListTypes
    <3> QED
      BY <1>1, <1>2, <2>1, <2>2, <3>1, <3>2, <3>3, <3>4, <3>5, <3>6, FinishKeeps
  <2> QED
    BY <2>3, <2>4
<1>4. CASE L!Fail /\ op' = L!Idle /\ UNCHANGED <<couch, rec, picked, loads, latest, busy, crossed>>
  <2>1. trouble' \in Nat /\ trouble' # 0
    BY <1>4 DEF L!Fail, ListTypes
  <2>2. ListTypes' /\ OpShape'
    BY <1>1, <1>2, <1>4, <2>1 DEF ListTypes, OpShape, L!Idle, ListOp
  <2>3. ListFlags' /\ Unselected' /\ RightsOk' /\ RepoOk' /\ ListsOk'
    BY <1>1, <1>2, <1>4, <2>1, Zenon DEF ListFlags, Unselected, RightsOk, RepoOk, ListsOk
  <2>4. LoadsShape'
    BY <1>1, <1>4, LoadsKept
  <2>5. /\ L!Idle.st = "none" /\ L!Idle.kind = "none" /\ L!Idle.git = {} /\ L!Idle.couch = {} /\ L!Idle.skipped = {}
        /\ L!Idle.kind \notin L!Modes
    BY DEF L!Idle, L!Modes
  <2>6. HomeOk'
    BY <1>1, <1>4, <2>5 DEF HomeOk
  <2>7. UnreadOk'
    <3>1. \A r \in Repos, d \in Dbs : op'.git \subseteq files[r][d]
      BY <1>4, <2>5
    <3> QED
      BY <1>1, <1>4, <3>1, Zenon DEF UnreadOk
  <2>8. DialogOk'
    <3>1. op.st # "load" /\ (\A m : KeysOf(L!DeleteTargets(m).couch)' = KeysOf(L!DeleteTargets(m).couch))
           /\ (\A m : KeysOf(L!DeleteTargets(m).git)' = KeysOf(L!DeleteTargets(m).git))
      BY <1>1, <1>4 DEF KeysOf, L!DeleteTargets, L!couchOnly, L!gitOnly, L!synced, L!Chosen, L!Key
    <3> QED
      BY <1>1, <1>4, <2>5, <3>1, Zenon DEF DialogOk
  <2> QED
    BY <1>1, <2>2, <2>3, <2>4, <2>6, <2>7, <2>8
<1> QED
  BY <1>3, <1>4 DEF L!LandCouchDelete, L!work

\* A deletion or a sync ends without the list being loaded again.
LEMMA OpGivesUp ==
  ASSUME ListConstants, ListInv, op.st \in {"git", "asking"}, op' = L!Idle, prompt' = None,
         halved' \in BOOLEAN, halved => halved', op.kind = "both" => halved',
         UNCHANGED <<couch, files, rec, linked, token, admin, sel, repoId, couchList, gitList, rows, filter, picked,
                     rights, canWrite, loads, latest, busy, dialog, crossed, shifted>>,
         trouble' \in Nat, trouble' = 0 => trouble = 0,
         token /\ ~halved' /\ trouble' = 0 /\ ~crossed /\ (\A n \in L!Slots : ~Reading(n)) => FilesTrue
  PROVE  ListInv'
<1> USE DEF ListInv
<1>1. op \in ListOp /\ op.kind \in {"both", "git", "toRepo", "toCouch"} /\ sel # None
  BY DEF OpShape, Unselected, L!Idle
<1>2. /\ L!Idle.st = "none" /\ L!Idle.kind = "none" /\ L!Idle.git = {} /\ L!Idle.couch = {} /\ L!Idle.skipped = {}
      /\ L!Idle.kind \notin L!Modes
  BY DEF L!Idle, L!Modes
<1>3. ListTypes' /\ OpShape'
  BY <1>2 DEF ListTypes, OpShape, L!Idle, ListOp, ListConstants, L!TheOp
<1>4. ListFlags' /\ Unselected' /\ RightsOk'
  BY <1>1, Zenon DEF ListFlags, Unselected, RightsOk
<1>5. LoadsShape'
  <2>1. \A n \in L!Slots : loads[n].by # "op"
    BY DEF LoadsShape
  <2>2. prompt' \notin L!Slots
    BY DEF L!Slots, ListConstants
  <2> QED
    BY <2>1, <2>2, Zenon DEF LoadsShape
<1>6. HomeOk'
  BY <1>2 DEF HomeOk
<1>7. UnreadOk'
  <2>1. \A r \in Repos, d \in Dbs : op'.git \subseteq files[r][d]
    BY <1>2
  <2> QED
    BY <2>1, Zenon DEF UnreadOk
<1>8. RepoOk'
  BY <1>1, <1>2 DEF RepoOk, Reading
<1>9. ListsOk'
  <2>1. ~Halfway' => ~Halfway
    BY <1>1, Zenon DEF Halfway
  <2>2. (CouchTrue' <=> CouchTrue) /\ (FilesTrue' <=> FilesTrue)
    BY Zenon DEF CouchTrue, FilesTrue
  <2> QED
    BY <2>1, <2>2, Zenon DEF ListsOk, Reading
<1>10. DialogOk'
  <2>1. op.st # "load" /\ (\A m : KeysOf(L!DeleteTargets(m).couch)' = KeysOf(L!DeleteTargets(m).couch))
         /\ (\A m : KeysOf(L!DeleteTargets(m).git)' = KeysOf(L!DeleteTargets(m).git))
    BY DEF KeysOf, L!DeleteTargets, L!couchOnly, L!gitOnly, L!synced, L!Chosen, L!Key
  <2> QED
    BY <1>2, <2>1, Zenon DEF DialogOk
<1> QED
  BY <1>3, <1>4, <1>5, <1>6, <1>7, <1>8, <1>9, <1>10, Zenon

\* It asks for the token instead, or is sent again once that is there.
LEMMA OpAsks ==
  ASSUME ListConstants, ListInv, op.st \in {"git", "asking"}, NEW st \in {"git", "asking"},
         op' = [op EXCEPT !.st = st] \/ op' = [op EXCEPT !.st = st, !.db = sel],
         \/ st = "asking" /\ prompt' = L!TheOp /\ ~token /\ token' = token
         \/ st = "git" /\ prompt' = None /\ ~token /\ token' = TRUE,
         UNCHANGED <<couch, files, rec, linked, admin, sel, repoId, couchList, gitList, rows, filter, picked,
                     rights, canWrite, loads, latest, busy, dialog, crossed, shifted, halved, trouble>>
  PROVE  ListInv'
<1> USE DEF ListInv
<1>1. /\ op \in ListOp /\ op.kind \in {"both", "git", "toRepo", "toCouch"} /\ sel # None /\ sel \in Dbs
      /\ op.db \in Dbs /\ op.repo \in Repos
  BY DEF OpShape, Unselected, L!Idle, ListTypes
<1>2. /\ op' \in ListOp /\ op'.kind = op.kind /\ op'.st = st /\ op'.repo = op.repo
      /\ op'.couch = op.couch /\ op'.git = op.git /\ op'.skipped = op.skipped /\ op'.listed = op.listed
      /\ op'.db \in {op.db, sel}
  BY <1>1 DEF ListOp
<1>3. ListTypes'
  BY DEF ListTypes
<1>4. ListFlags' /\ Unselected' /\ RightsOk'
  BY <1>1, Zenon DEF ListFlags, Unselected, RightsOk
<1>5. LoadsShape'
  <2>1. \A n \in L!Slots : loads[n].by # "op"
    BY DEF LoadsShape
  <2>2. prompt' \notin L!Slots
    BY DEF L!Slots, ListConstants, L!TheOp
  <2> QED
    BY <2>1, <2>2, Zenon DEF LoadsShape
<1>6. OpShape'
  BY <1>1, <1>2 DEF OpShape, L!TheOp, ListConstants
<1>7. HomeOk'
  BY <1>1, <1>2 DEF HomeOk
<1>8. UnreadOk'
  <2>1. CASE st = "git"
    BY <2>1, Zenon DEF UnreadOk
  <2>2. CASE st = "asking"
    BY <1>2, <2>2, Zenon DEF UnreadOk
  <2> QED
    BY <2>1, <2>2
<1>9. RepoOk'
  BY <1>1, <1>2 DEF RepoOk, Reading
<1>10. ListsOk'
  <2>1. (CouchTrue' <=> CouchTrue) /\ (Halfway' <=> Halfway)
    BY <1>2 DEF CouchTrue, Halfway
  <2>2. token' => Sure'
    <3>1. CASE st = "asking"
      BY <3>1, Zenon
    <3>2. CASE st = "git"
      <4>1. op.git \subseteq files[op.repo][op'.db]
        BY <1>1, <1>2 DEF UnreadOk
      <4> QED
        BY <1>1, <1>2, <3>2, <4>1 DEF Sure
    <3> QED
      BY <3>1, <3>2
  <2> QED
    BY <2>1, <2>2, Zenon DEF ListsOk
<1>11. DialogOk'
  <2>1. op.st # "load" /\ (\A m : KeysOf(L!DeleteTargets(m).couch)' = KeysOf(L!DeleteTargets(m).couch))
         /\ (\A m : KeysOf(L!DeleteTargets(m).git)' = KeysOf(L!DeleteTargets(m).git))
    BY DEF KeysOf, L!DeleteTargets, L!couchOnly, L!gitOnly, L!synced, L!Chosen, L!Key
  <2> QED
    BY <1>2, <2>1, Zenon DEF DialogOk
<1>12. prompt' # None => ~token'
  BY Zenon
<1> QED
  BY <1>3, <1>4, <1>5, <1>6, <1>7, <1>8, <1>9, <1>10, <1>11, <1>12, Zenon

LEMMA ListLandGitDelete == ASSUME ListConstants, ListInv, L!LandGitDelete PROVE ListInv'
<1> USE DEF ListInv
<1>1. /\ UNCHANGED <<couch, linked, token, admin, sel, repoId, couchList, gitList, rows, filter, rights,
                     canWrite, dialog, ops, shifted>>
      /\ op.st = "git" /\ op.kind \in L!Modes
  BY DEF L!LandGitDelete
<1>2. /\ sel # None /\ sel \in Dbs /\ op \in ListOp /\ op.kind \in {"git", "both"} /\ op.db \in Dbs /\ op.repo \in Repos
      /\ op.kind \notin {"toRepo", "toCouch"} /\ prompt # L!TheOp /\ op.git \subseteq Docs
  BY <1>1 DEF OpShape, ListTypes, Unselected, L!Idle, L!Modes, ListOp
<1>3. token => prompt = None
  OBVIOUS
<1>4. CASE /\ token /\ linked[op.db] = op.repo /\ op.git \subseteq files[op.repo][op.db]
           /\ files' = [files EXCEPT ![op.repo][op.db] = @ \ op.git]
           /\ rec' = [rec EXCEPT ![op.db] = @ \ op.git]
           /\ L!Finish(op) /\ UNCHANGED <<prompt, trouble, halved>>
  <2>1. files' \in [Repos -> [Dbs -> SUBSET Docs]] /\ rec' \in [Dbs -> SUBSET Docs]
    BY <1>2, <1>4 DEF ListTypes
  <2>2. ~crossed => op.db = sel /\ \A r \in op.skipped : r.db = sel
    BY <1>1 DEF HomeOk
  <2>4. trouble = 0 /\ ~crossed /\ ~admin => op.kind \in L!Modes /\ op.git = {}
    BY <1>1, <1>2, Zenon DEF RepoOk
  <2>5. ~crossed /\ ~shifted => \A d \in op.couch \union op.git : [db |-> sel, doc |-> d] \in op.listed
    BY <1>1, Zenon DEF DialogOk
  <2>6. trouble \in Nat /\ couch \in [Dbs -> SUBSET Docs]
    BY DEF ListTypes
  <2>7. op.kind # "couch"
    BY <1>2
  <2> QED
    BY <1>1, <1>2, <1>4, <2>1, <2>2, <2>4, <2>5, <2>6, <2>7, FinishKeeps
<1>5. CASE /\ token /\ L!GiveUp /\ UNCHANGED <<files, rec, picked, loads, latest, busy, crossed, prompt>>
           /\ \/ UNCHANGED trouble /\ (linked[op.db] # op.repo \/ ~(op.git \subseteq files[op.repo][op.db]))
              \/ L!Fail
  <2>1. /\ halved' \in BOOLEAN /\ (halved => halved') /\ (op.kind = "both" => halved') /\ op' = L!Idle
    BY <1>5, Zenon DEF L!GiveUp, ListFlags
  <2>2. prompt' = None
    BY <1>3, <1>5
  <2>3. CASE UNCHANGED trouble /\ (linked[op.db] # op.repo \/ ~(op.git \subseteq files[op.repo][op.db]))
    <3>1. trouble' \in Nat
      BY <2>3 DEF ListTypes
    <3>2. ASSUME token, ~halved', trouble = 0, ~crossed, \A n \in L!Slots : ~Reading(n) PROVE FilesTrue
      <4>1. op.kind = "git" /\ ~halved
        BY <1>2, <2>1, <3>2
      <4>2. op.db = sel
        BY <1>1, <3>2 DEF HomeOk
      <4>3. admin /\ op.repo = repoId /\ repoId = linked[sel]
        BY <1>1, <1>2, <3>2 DEF RepoOk, Reading
      <4>4. ~Sure
        BY <2>3, <4>1, <4>2, <4>3 DEF Sure
      <4> QED
        BY <1>2, <3>2, <4>1, <4>4, Zenon DEF ListsOk
    <3> QED
      BY <1>1, <1>5, <2>1, <2>2, <2>3, <3>1, <3>2, OpGivesUp
  <2>4. CASE L!Fail
    <3>1. trouble' \in Nat /\ trouble' # 0
      BY <2>4 DEF L!Fail, ListTypes
    <3> QED
      BY <1>1, <1>5, <2>1, <2>2, <3>1, OpGivesUp
  <2> QED
    BY <1>5, <2>3, <2>4
<1>6. CASE /\ ~token /\ op' = [op EXCEPT !.st = "asking"] /\ prompt' = L!TheOp
           /\ UNCHANGED <<files, rec, picked, loads, latest, busy, crossed, halved, trouble>>
  BY <1>1, <1>6, OpAsks
<1> QED
  BY <1>4, <1>5, <1>6 DEF L!LandGitDelete, L!work

LEMMA ListLandSync == ASSUME ListConstants, ListInv, L!LandSync PROVE ListInv'
<1> USE DEF ListInv
<1> DEFINE names == {k.doc : k \in op.listed}
           carried == names \intersect (IF op.kind = "toRepo" THEN couch[op.db] ELSE files[op.repo][op.db])
<1>1. /\ UNCHANGED <<linked, token, admin, sel, repoId, couchList, gitList, rows, filter, rights,
                     canWrite, dialog, ops, halved, shifted>>
      /\ op.st = "git" /\ op.kind \in {"toRepo", "toCouch"}
      /\ \/ /\ token /\ L!KeysMatch /\ linked[op.db] = op.repo
            /\ IF op.kind = "toRepo"
               THEN files' = [files EXCEPT ![op.repo][op.db] = @ \union carried] /\ UNCHANGED couch
               ELSE couch' = [couch EXCEPT ![op.db] = @ \union carried] /\ UNCHANGED files
            /\ rec' = [rec EXCEPT ![op.db] = @ \union carried]
            /\ L!Finish(op) /\ UNCHANGED <<prompt, trouble>>
         \/ /\ token /\ (~L!KeysMatch \/ linked[op.db] # op.repo)
            /\ op' = L!Idle /\ UNCHANGED <<couch, files, rec, picked, loads, latest, busy, crossed, prompt, trouble>>
         \/ token /\ L!Fail /\ op' = L!Idle /\ UNCHANGED <<couch, files, rec, picked, loads, latest, busy, crossed, prompt>>
         \/ /\ ~token /\ op' = [op EXCEPT !.st = "asking"] /\ prompt' = L!TheOp
            /\ UNCHANGED <<couch, files, rec, picked, loads, latest, busy, crossed, trouble>>
  BY Zenon DEF L!LandSync, L!Syncing, L!work
<1>2. /\ sel # None /\ sel \in Dbs /\ op \in ListOp /\ op.db \in Dbs /\ op.repo \in Repos
      /\ op.kind \notin L!Modes /\ op.kind # "both" /\ op.kind # "couch" /\ prompt # L!TheOp
      /\ names \subseteq Docs /\ carried \subseteq Docs
  BY <1>1 DEF OpShape, ListTypes, Unselected, L!Idle, L!Modes, ListOp, Keys
<1>3. token => prompt = None
  OBVIOUS
<1> HIDE DEF names, carried
<1>4. CASE /\ token /\ L!KeysMatch /\ linked[op.db] = op.repo
           /\ IF op.kind = "toRepo"
              THEN files' = [files EXCEPT ![op.repo][op.db] = @ \union carried] /\ UNCHANGED couch
              ELSE couch' = [couch EXCEPT ![op.db] = @ \union carried] /\ UNCHANGED files
           /\ rec' = [rec EXCEPT ![op.db] = @ \union carried]
           /\ L!Finish(op) /\ UNCHANGED <<prompt, trouble>>
  <2>1. /\ couch' \in [Dbs -> SUBSET Docs] /\ files' \in [Repos -> [Dbs -> SUBSET Docs]]
        /\ rec' \in [Dbs -> SUBSET Docs]
    <3>1. CASE op.kind = "toRepo"
      <4>1. files[op.repo] \in [Dbs -> SUBSET Docs] /\ files[op.repo][op.db] \union carried \subseteq Docs
        BY <1>2 DEF ListTypes
      <4>2. files' = [files EXCEPT ![op.repo] = [files[op.repo] EXCEPT ![op.db] = @ \union carried]]
        BY <1>4, <3>1
      <4>3. [files[op.repo] EXCEPT ![op.db] = @ \union carried] \in [Dbs -> SUBSET Docs]
        BY <1>2, <4>1
      <4>4. files' \in [Repos -> [Dbs -> SUBSET Docs]]
        BY <1>2, <4>2, <4>3 DEF ListTypes
      <4>5. rec' \in [Dbs -> SUBSET Docs] /\ couch' \in [Dbs -> SUBSET Docs]
        BY <1>2, <1>4, <3>1 DEF ListTypes
      <4> QED
        BY <4>4, <4>5
    <3>2. CASE op.kind # "toRepo"
      BY <1>2, <1>4, <3>2 DEF ListTypes
    <3> QED
      BY <3>1, <3>2
  <2>2. ~crossed => /\ op.db = sel /\ \A r \in op.skipped : r.db = sel
                    /\ \A k \in op.listed : k.db = sel
    BY <1>1 DEF HomeOk
  <2>3. ~(trouble = 0 /\ ~crossed /\ ~admin)
    BY <1>1, <1>2 DEF RepoOk
  <2>4. trouble \in Nat
    BY DEF ListTypes
  <2> QED
    BY <1>1, <1>2, <1>4, <2>1, <2>2, <2>3, <2>4, FinishKeeps
<1>5. CASE /\ token /\ (~L!KeysMatch \/ linked[op.db] # op.repo)
           /\ op' = L!Idle /\ UNCHANGED <<couch, files, rec, picked, loads, latest, busy, crossed, prompt, trouble>>
  <2>1. trouble' \in Nat /\ halved' \in BOOLEAN /\ prompt' = None
    BY <1>1, <1>3, <1>5 DEF ListTypes, ListFlags
  <2>2. ASSUME trouble = 0, ~crossed, \A n \in L!Slots : ~Reading(n) PROVE FALSE
    <3>1. L!KeysMatch /\ op.db = sel
      BY <1>1, <2>2 DEF HomeOk, L!KeysMatch
    <3>2. op.repo = linked[sel]
      BY <1>1, <1>2, <2>2 DEF RepoOk, Reading
    <3> QED
      BY <1>5, <3>1, <3>2
  <2> QED
    BY <1>1, <1>2, <1>5, <2>1, <2>2, OpGivesUp
<1>6. CASE token /\ L!Fail /\ op' = L!Idle /\ UNCHANGED <<couch, files, rec, picked, loads, latest, busy, crossed, prompt>>
  <2>1. trouble' \in Nat /\ trouble' # 0 /\ halved' \in BOOLEAN /\ prompt' = None
    BY <1>1, <1>3, <1>6 DEF ListTypes, ListFlags, L!Fail
  <2> QED
    BY <1>1, <1>2, <1>6, <2>1, OpGivesUp
<1>7. CASE /\ ~token /\ op' = [op EXCEPT !.st = "asking"] /\ prompt' = L!TheOp
           /\ UNCHANGED <<couch, files, rec, picked, loads, latest, busy, crossed, trouble>>
  BY <1>1, <1>7, OpAsks
<1> QED
  BY <1>1, <1>4, <1>5, <1>6, <1>7

LEMMA ListLandUnlink == ASSUME ListConstants, ListInv, L!LandUnlink PROVE ListInv'
<1> USE DEF ListInv
<1>1. /\ UNCHANGED <<couch, files, token, admin, sel, couchList, filter, picked, rights, canWrite, loads, latest, busy,
                     dialog, ops, prompt, halved>>
      /\ op.kind = "unlink" /\ op' = L!Idle /\ crossed' = (crossed \/ L!Running)
  BY Zenon DEF L!LandUnlink, L!Cross, L!work
<1>2. op.st = "send" /\ sel # None /\ sel \in Dbs /\ op \in ListOp /\ op.db \in Dbs
  BY <1>1 DEF OpShape, ListTypes, Unselected, L!Idle
<1>3. /\ crossed' \in BOOLEAN /\ (~crossed' => ~crossed)
      /\ ~crossed' => \A n \in L!Slots : loads[n] = L!NoLoad
  <2>1. crossed' \in BOOLEAN /\ (~crossed' => ~crossed /\ ~L!Running)
    BY <1>1, Zenon DEF ListFlags
  <2> QED
    BY <2>1 DEF L!Running
<1>4. /\ L!Idle.st = "none" /\ L!Idle.kind = "none" /\ L!Idle.git = {} /\ L!Idle.couch = {} /\ L!Idle.skipped = {}
      /\ L!NoLoad.st = "none" /\ L!Idle.kind \notin L!Modes
  BY DEF L!Idle, L!NoLoad, L!Modes
<1>5. OpShape' /\ LoadsShape'
  <2>1. OpShape'
    BY <1>1, <1>2 DEF OpShape, L!Idle, ListOp
  <2> QED
    BY <1>1, <1>2, <2>1, LoadsKept
<1>6. HomeOk' \/ ~(gitList' = {} \/ gitList' = gitList)
  BY <1>1, <1>3, <1>4 DEF HomeOk
<1>7. CASE /\ linked' = [d \in Dbs |-> IF linked[d] = op.repo THEN None ELSE linked[d]]
           /\ rec' = [d \in Dbs |-> IF linked[d] = op.repo THEN {} ELSE rec[d]]
           /\ repoId' = None /\ gitList' = {} /\ L!refreshDocs
           /\ UNCHANGED trouble
  <2>1. /\ linked' \in [Dbs -> Repos \union {None}] /\ rec' \in [Dbs -> SUBSET Docs] /\ \A d \in Dbs : rec'[d] \subseteq rec[d]
        /\ linked'[sel] = IF linked[sel] = op.repo THEN None ELSE linked[sel]
    BY <1>2, <1>7 DEF ListTypes
  <2>2. rows' = L!buildDDocs(couchList', gitList', sel)
    BY <1>7 DEF L!refreshDocs
  <2>3. /\ rows' \subseteq ListRow /\ \A w \in rows' : w.rev \/ w.sha
        /\ \A w \in rows' : w.sha => \E c \in couchList : c.rec /\ c.doc = w.doc
    <3>1. couchList' \in SUBSET CouchRow /\ gitList' \in SUBSET Keys
      BY <1>1, <1>7 DEF ListTypes
    <3>2. /\ rows' \subseteq ListRow /\ \A w \in rows' : w.rev \/ w.sha
          /\ \A w \in rows' : w.sha /\ gitList' = {} => \E c \in couchList' : c.rec /\ c.doc = w.doc
      BY <1>2, <2>2, <3>1, BuiltRows
    <3> QED
      BY <1>1, <1>7, <3>2
  <2>4. shifted' \in BOOLEAN /\ (~shifted' => ~shifted /\ dialog = L!NoDialog)
    BY <1>7, Zenon DEF L!refreshDocs, ListFlags
  <2>5. ListTypes'
    BY <1>1, <1>7, <2>1, <2>3 DEF ListTypes
  <2>6. ListFlags' /\ Unselected' /\ RightsOk'
    BY <1>1, <1>2, <1>3, <1>7, <2>4, Zenon DEF ListFlags, Unselected, RightsOk
  <2>7. UnreadOk'
    <3> SUFFICES ASSUME ~token PROVE UnreadOk'
      BY <1>1, Zenon DEF UnreadOk
    <3>1. \A r \in Repos, d \in Dbs : \A w \in rows' : w.sha => w.doc \in files[r][d]
      BY <2>3 DEF UnreadOk
    <3>2. \A r \in Repos, d \in Dbs : (\A e \in Dbs : rec'[e] \subseteq files[r][d]) /\ op'.git \subseteq files[r][d]
      BY <1>1, <1>4, <2>1 DEF UnreadOk
    <3> QED
      BY <1>1, <1>7, <3>1, <3>2, Zenon DEF UnreadOk
  <2>8. RepoOk' /\ ListsOk'
    <3> SUFFICES ASSUME trouble' = 0, ~crossed' PROVE RepoOk' /\ ListsOk'
      BY Zenon DEF RepoOk, ListsOk
    <3>1. /\ trouble = 0 /\ ~crossed
          /\ \A n \in L!Slots : loads[n].st = "none" /\ ~Reading(n) /\ ~Reading(n)'
      BY <1>1, <1>3, <1>4, <1>7 DEF Reading
    <3>2. admin /\ repoId = linked[sel] /\ op.repo = repoId
      BY <1>1, <1>2, <3>1 DEF RepoOk, L!Modes
    <3>3. RepoOk'
      BY <1>1, <1>4, <1>7, <2>1, <3>1, <3>2 DEF RepoOk
    <3>4. FilesTrue'
      BY <1>7 DEF FilesTrue
    <3>5. ~Halfway' => CouchTrue'
      <4>1. ~Halfway' => ~Halfway
        BY <1>1, Zenon DEF Halfway
      <4>2. ~Halfway => CouchTrue
        BY <1>2, <3>1, Zenon DEF ListsOk
      <4> QED
        BY <1>1, <4>1, <4>2, Zenon DEF CouchTrue
    <3> QED
      BY <1>1, <2>2, <3>3, <3>4, <3>5, Zenon DEF ListsOk
  <2>9. DialogOk'
    <3>1. dialog.mode = "none" => dialog = L!NoDialog
      BY DEF DialogOk
    <3> QED
      BY <1>1, <1>4, <2>4, <3>1, Zenon DEF DialogOk
  <2>10. prompt' # None => ~token'
    BY <1>1, Zenon
  <2> QED
    BY <1>5, <1>6, <1>7, <2>5, <2>6, <2>7, <2>8, <2>9, <2>10
<1>8. CASE L!Fail /\ UNCHANGED <<linked, rec, repoId, gitList, rows, shifted>>
  <2>1. trouble' \in Nat /\ trouble' # 0
    BY <1>8 DEF L!Fail, ListTypes
  <2>2. ListTypes'
    BY <1>1, <1>8, <2>1 DEF ListTypes
  <2>3. ListFlags' /\ Unselected' /\ RightsOk' /\ RepoOk' /\ ListsOk'
    BY <1>1, <1>2, <1>3, <1>8, <2>1, Zenon DEF ListFlags, Unselected, RightsOk, RepoOk, ListsOk
  <2>4. UnreadOk'
    <3>1. \A r \in Repos, d \in Dbs : op'.git \subseteq files[r][d]
      BY <1>1, <1>4
    <3> QED
      BY <1>1, <1>8, <3>1, Zenon DEF UnreadOk
  <2>5. DialogOk'
    <3>1. op.st # "load" /\ (\A m : KeysOf(L!DeleteTargets(m).couch)' = KeysOf(L!DeleteTargets(m).couch))
           /\ (\A m : KeysOf(L!DeleteTargets(m).git)' = KeysOf(L!DeleteTargets(m).git))
      BY <1>1, <1>2, <1>8 DEF KeysOf, L!DeleteTargets, L!couchOnly, L!gitOnly, L!synced, L!Chosen, L!Key
    <3> QED
      BY <1>1, <1>3, <1>4, <1>8, <3>1, Zenon DEF DialogOk
  <2>6. prompt' # None => ~token'
    BY <1>1, Zenon
  <2> QED
    BY <1>5, <1>6, <1>8, <2>2, <2>3, <2>4, <2>5, <2>6
<1> QED
  BY <1>7, <1>8 DEF L!LandUnlink

LEMMA ListLandRegister == ASSUME ListConstants, ListInv, L!LandRegister PROVE ListInv'
<1> USE DEF ListInv
<1>1. /\ UNCHANGED <<couch, files, token, admin, sel, couchList, gitList, rows, filter, picked, rights,
                     canWrite, busy, dialog, ops, prompt, halved, shifted>>
      /\ op.kind = "register" /\ op' = L!Idle /\ crossed' = (crossed \/ L!Running)
  BY Zenon DEF L!LandRegister, L!Cross
<1>2. op.st = "send" /\ sel # None /\ sel \in Dbs /\ op \in ListOp /\ op.db \in Dbs /\ op.repo \in Repos
  BY <1>1 DEF OpShape, ListTypes, Unselected, L!Idle
<1>3. /\ crossed' \in BOOLEAN /\ (~crossed' => ~crossed)
      /\ ~crossed' => \A n \in L!Slots : loads[n] = L!NoLoad
  <2>1. crossed' \in BOOLEAN /\ (~crossed' => ~crossed /\ ~L!Running)
    BY <1>1, Zenon DEF ListFlags
  <2> QED
    BY <2>1 DEF L!Running
<1>4. /\ L!Idle.st = "none" /\ L!Idle.kind = "none" /\ L!Idle.git = {} /\ L!Idle.couch = {} /\ L!Idle.skipped = {}
      /\ L!NoLoad.st = "none" /\ L!Idle.kind \notin L!Modes
  BY DEF L!Idle, L!NoLoad, L!Modes
<1>5. OpShape'
  BY <1>1, <1>2 DEF OpShape, L!Idle, ListOp
<1>6. ListFlags' /\ Unselected' /\ (prompt' # None => ~token')
  BY <1>1, <1>2, <1>3, Zenon DEF ListFlags, Unselected
<1>7. DialogOk'
  <2>1. op.st # "load" /\ (\A m : KeysOf(L!DeleteTargets(m).couch)' = KeysOf(L!DeleteTargets(m).couch))
         /\ (\A m : KeysOf(L!DeleteTargets(m).git)' = KeysOf(L!DeleteTargets(m).git))
    BY <1>1, <1>2 DEF KeysOf, L!DeleteTargets, L!couchOnly, L!gitOnly, L!synced, L!Chosen, L!Key
  <2> QED
    BY <1>1, <1>3, <1>4, <2>1, Zenon DEF DialogOk
<1>8. ASSUME rec' \in [Dbs -> SUBSET Docs], \A d \in Dbs : rec'[d] \subseteq rec[d] PROVE UnreadOk'
  <2> SUFFICES ASSUME ~token PROVE UnreadOk'
    BY <1>1, Zenon DEF UnreadOk
  <2>1. \A r \in Repos, d \in Dbs : (\A e \in Dbs : rec'[e] \subseteq files[r][d]) /\ op'.git \subseteq files[r][d]
    BY <1>1, <1>4, <1>8 DEF UnreadOk
  <2> QED
    BY <1>1, <2>1, Zenon DEF UnreadOk
<1>9. CASE /\ linked' = [linked EXCEPT ![op.db] = op.repo] /\ repoId' = op.repo
           /\ rec' = IF linked[op.db] \in {None, op.repo} THEN rec ELSE [rec EXCEPT ![op.db] = {}]
           /\ latest < MaxLoads /\ latest' = latest + 1
           /\ loads' = [loads EXCEPT ![latest + 1] = [st |-> "git", db |-> sel, repo |-> op.repo, by |-> "register"]]
           /\ UNCHANGED trouble
  <2>1. /\ linked' \in [Dbs -> Repos \union {None}] /\ linked'[op.db] = op.repo
        /\ rec' \in [Dbs -> SUBSET Docs] /\ \A d \in Dbs : rec'[d] \subseteq rec[d]
    BY <1>2, <1>9 DEF ListTypes
  <2>2. latest' \in 0..MaxLoads /\ latest \in 0..MaxLoads /\ latest + 1 \in L!Slots
    BY <1>9 DEF ListTypes, ListConstants, L!Slots
  <2>3. ListTypes'
    BY <1>1, <1>2, <1>9, <2>1, <2>2 DEF ListTypes
  <2>4. PICK l \in ListLoad : /\ loads' = [loads EXCEPT ![latest + 1] = l] /\ l.st = "git" /\ l.db = sel
                              /\ l.repo = op.repo /\ l.by = "register"
    <3>1. [st |-> "git", db |-> sel, repo |-> op.repo, by |-> "register"] \in ListLoad
      BY <1>2 DEF ListLoad
    <3> QED
      BY <1>9, <3>1
  <2>5. /\ loads' \in [L!Slots -> ListLoad] /\ loads'[latest + 1] = l
        /\ \A m \in L!Slots \ {latest + 1} : loads'[m] = loads[m]
    BY <2>2, <2>4 DEF LoadsShape
  <2>6. LoadsShape'
    <3>1. loads[latest + 1] = L!NoLoad
      BY <2>2 DEF LoadsShape
    <3>2. \A m \in L!Slots : loads[m].by # "op"
      BY <1>2 DEF LoadsShape
    <3>3. \A m \in L!Slots : loads'[m].st = "none" \/ m > latest' => loads'[m] = L!NoLoad
      BY <1>9, <2>2, <2>4, <2>5 DEF LoadsShape, L!Slots
    <3>4. \A m \in L!Slots : loads'[m].st # "none" => loads'[m].db \in Dbs
      BY <1>2, <2>4, <2>5 DEF LoadsShape
    <3>5. \A m \in L!Slots : loads'[m].by # "op"
      BY <2>4, <2>5, <3>2
    <3>6. \A m \in L!Slots : loads'[m].by = "register" => loads'[m].st \in {"git", "asking"}
      BY <2>4, <2>5 DEF LoadsShape
    <3>8. prompt' \in L!Slots => loads'[prompt'].st = "asking"
      BY <1>1, <1>4, <2>5, <3>1 DEF LoadsShape
    <3> QED
      BY <2>5, <3>3, <3>4, <3>5, <3>6, <3>8 DEF LoadsShape
  <2>7. HomeOk'
    <3> SUFFICES ASSUME ~crossed' PROVE HomeOk'
      BY Zenon DEF HomeOk
    <3>1. \A m \in L!Slots : loads'[m].st # "none" => loads'[m].db = sel /\ m = latest + 1
      BY <1>3, <1>4, <2>4, <2>5
    <3>2. \A k \in picked \union gitList : k.db = sel
      BY <1>3 DEF HomeOk
    <3>3. op'.st = "none" /\ op'.skipped = {} /\ op'.kind \notin {"toRepo", "toCouch"}
      BY <1>1, <1>4
    <3> QED
      BY <1>1, <3>1, <3>2, <3>3, Zenon DEF HomeOk
  <2>8. RightsOk'
    BY <1>1, <1>9, Zenon DEF RightsOk
  <2>9. RepoOk' /\ ListsOk'
    <3> SUFFICES ASSUME trouble' = 0, ~crossed' PROVE RepoOk' /\ ListsOk'
      BY Zenon DEF RepoOk, ListsOk
    <3>1. /\ trouble = 0 /\ ~crossed /\ \A m \in L!Slots : loads[m].st = "none"
      BY <1>3, <1>4, <1>9
    <3>2. admin /\ op.db = sel
      BY <1>1, <1>2, <3>1 DEF RepoOk, HomeOk, L!Modes
    <3>3. repoId' # None /\ repoId' = linked'[sel]
      BY <1>2, <1>9, <2>1, <3>2 DEF ListConstants
    <3>4. \A m \in L!Slots : /\ loads'[m].st # "repo"
                             /\ loads'[m].st \in {"git", "asking"} => loads'[m].repo = repoId'
                             /\ loads'[m].st # "none" => loads'[m].by = "register"
      BY <1>9, <2>4, <2>5, <3>1
    <3>5. RepoOk'
      BY <1>1, <1>4, <3>2, <3>3, <3>4 DEF RepoOk
    <3>6. loads'[latest + 1].st = "git" /\ latest + 1 \in L!Slots
      BY <2>2, <2>4, <2>5
    <3>7. (\E m \in L!Slots : Reading(m)') /\ (\E m \in L!Slots : loads'[m].st # "none")
      BY <3>6 DEF Reading
    <3>8. ~Halfway' => CouchTrue'
      <4>1. ~Halfway' => ~Halfway
        BY <1>1, Zenon DEF Halfway
      <4>2. ~Halfway => CouchTrue
        BY <1>2, <3>1, Zenon DEF ListsOk
      <4> QED
        BY <1>1, <4>1, <4>2, Zenon DEF CouchTrue
    <3> QED
      BY <3>5, <3>7, <3>8, Zenon DEF ListsOk
  <2> QED
    BY <1>5, <1>6, <1>7, <1>8, <2>1, <2>3, <2>6, <2>7, <2>8, <2>9
<1>10. CASE L!Fail /\ UNCHANGED <<linked, rec, repoId, loads, latest>>
  <2>1. trouble' \in Nat /\ trouble' # 0
    BY <1>10 DEF L!Fail, ListTypes
  <2>2. ListTypes'
    BY <1>1, <1>10, <2>1 DEF ListTypes
  <2>3. RightsOk' /\ RepoOk' /\ ListsOk'
    BY <1>1, <2>1, Zenon DEF RightsOk, RepoOk, ListsOk
  <2>4. LoadsShape'
    BY <1>1, <1>2, <1>10, LoadsKept
  <2>5. HomeOk'
    BY <1>1, <1>3, <1>4, <1>10 DEF HomeOk
  <2>7. admin' => rights' = {}
    BY <1>1, Zenon DEF RightsOk
  <2>8. UnreadOk'
    BY <1>8, <1>10 DEF ListTypes
  <2> QED
    BY <1>5, <1>6, <1>7, <2>2, <2>3, <2>4, <2>5, <2>7, <2>8
<1> QED
  BY <1>9, <1>10 DEF L!LandRegister

LEMMA ListConfirm == ASSUME ListConstants, ListInv, L!confirm PROVE ListInv'
<1> USE DEF ListInv
<1>1. /\ UNCHANGED <<couch, files, rec, linked, admin, sel, repoId, couchList, gitList, rows, filter, picked, rights,
                     canWrite, latest, busy, dialog, ops, trouble, crossed, halved, shifted>>
      /\ prompt # None /\ prompt' = None /\ token' = TRUE /\ ~token /\ L!Resend(prompt)
  BY DEF L!confirm, L!service, L!lists
<1>2. CASE prompt = L!TheOp
  <2>1. op.st = "asking"
    BY <1>2 DEF OpShape
  <2>2. op' = [op EXCEPT !.st = "git", !.db = sel] /\ loads' = loads
    BY <1>1, <1>2 DEF L!Resend
  <2> QED
    BY <1>1, <2>1, <2>2, OpAsks
<1>3. CASE prompt # L!TheOp
  <2>1. prompt \in L!Slots /\ loads[prompt].st = "asking"
    BY <1>1, <1>3 DEF ListTypes, LoadsShape
  <2>2. op' = op /\ loads' = [loads EXCEPT ![prompt] = [loads[prompt] EXCEPT !.st = "git", !.db = sel]]
    BY <1>1, <1>3, <2>1 DEF L!Resend, LoadsShape
  <2>3. sel # None /\ sel \in Dbs /\ loads[prompt] \in ListLoad
    BY <2>1, LoadSelected
  <2>4. PICK n \in L!Slots : n = prompt
    BY <2>1
  <2>5. PICK l \in ListLoad : /\ loads' = [loads EXCEPT ![n] = l] /\ l.st = "git" /\ l.db = sel
                              /\ l.repo = loads[n].repo /\ l.by = loads[n].by
    <3>1. [loads[n] EXCEPT !.st = "git", !.db = sel] \in ListLoad
      BY <2>3, <2>4 DEF ListLoad
    <3> QED
      BY <2>2, <2>3, <2>4, <3>1 DEF ListLoad
  <2>6. loads'[n] = l /\ (\A m \in L!Slots \ {n} : loads'[m] = loads[m]) /\ loads[n].st = "asking"
    BY <2>1, <2>4, <2>5 DEF LoadsShape
  <2>7. LoadsShape'
    BY <1>1, <2>2, <2>3, <2>5, <2>6, LoadMoves
  <2>8. ListTypes' /\ OpShape'
    BY <1>1, <2>2 DEF ListTypes, OpShape, L!TheOp, ListConstants
  <2>9. ListFlags' /\ Unselected' /\ RightsOk' /\ UnreadOk' /\ (prompt' # None => ~token')
    BY <1>1, <2>3, Zenon DEF ListFlags, Unselected, RightsOk, UnreadOk
  <2>10. HomeOk'
    <3>1. \A m \in L!Slots : /\ loads'[m].st = "none" <=> loads[m].st = "none"
                             /\ loads'[m].db = loads[m].db \/ loads'[m].db = sel
      BY <2>5, <2>6
    <3> QED
      BY <1>1, <2>2, <3>1, Zenon DEF HomeOk
  <2>11. \A m \in L!Slots : /\ Reading(m)' <=> Reading(m)
                            /\ loads'[m].st = "repo" <=> loads[m].st = "repo"
                            /\ loads'[m].st \in {"git", "asking"} <=> loads[m].st \in {"git", "asking"}
                            /\ loads'[m].st = "none" <=> loads[m].st = "none"
                            /\ loads'[m].by = loads[m].by /\ loads'[m].repo = loads[m].repo
    BY <2>5, <2>6 DEF Reading
  <2>12. RepoOk'
    BY <1>1, <2>2, <2>11, Zenon DEF RepoOk
  <2>13. ListsOk'
    <3>1. (CouchTrue' <=> CouchTrue) /\ (Halfway' <=> Halfway)
      BY <1>1, <2>2, Zenon DEF CouchTrue, Halfway
    <3>2. Reading(n)'
      BY <2>5, <2>6 DEF Reading
    <3> QED
      BY <1>1, <2>11, <3>1, <3>2, Zenon DEF ListsOk
  <2> QED
    BY <1>1, <2>2, <2>7, <2>8, <2>9, <2>10, <2>12, <2>13, DialogKept
<1> QED
  BY <1>2, <1>3

LEMMA ListCancel == ASSUME ListConstants, ListInv, L!cancel PROVE ListInv'
<1> USE DEF ListInv
<1>1. /\ UNCHANGED <<couch, files, rec, linked, token, admin, sel, repoId, couchList, filter, picked, rights, canWrite,
                     latest, busy, dialog, ops, trouble, crossed>>
      /\ prompt # None /\ prompt' = None /\ ~token
  BY DEF L!cancel, L!service
<1>2. trouble' \in Nat
  BY <1>1 DEF ListTypes
<1>3. CASE prompt = L!TheOp
  <2>1. op.st = "asking"
    BY <1>3 DEF OpShape
  <2>2. L!GiveUp /\ UNCHANGED <<gitList, rows, loads, shifted>>
    BY <1>3 DEF L!cancel
  <2>3. /\ halved' \in BOOLEAN /\ (halved => halved') /\ (op.kind = "both" => halved') /\ op' = L!Idle
    BY <2>2, Zenon DEF L!GiveUp, ListFlags
  <2> QED
    BY <1>1, <1>2, <2>1, <2>2, <2>3, OpGivesUp
<1>4. CASE prompt # L!TheOp
  <2>1. prompt \in L!Slots /\ loads[prompt].st = "asking"
    BY <1>1, <1>4 DEF ListTypes, LoadsShape
  <2>2. gitList' = {} /\ L!AfterFiles(prompt) /\ op' = op /\ halved' = halved
    BY <1>4 DEF L!cancel
  <2>3. PICK n \in L!Slots : n = prompt
    BY <2>1
  <2>4. L!AfterFiles(n) /\ loads[n].st = "asking"
    BY <2>1, <2>2, <2>3, Zenon
  <2> QED
    BY <1>1, <1>2, <2>2, <2>4, AfterFilesKeeps
<1> QED
  BY <1>3, <1>4

LEMMA ListInit == ASSUME ListConstants, L!Init PROVE ListInv
<1>1. PICK here \in SUBSET Docs, there \in SUBSET Docs :
        /\ couch = [d \in Dbs |-> here] /\ files = [r \in Repos |-> [d \in Dbs |-> there]]
        /\ rec = [d \in Dbs |-> IF linked[d] = None THEN {} ELSE here \intersect there]
  BY DEF L!Init
<1>2. /\ linked \in Links /\ token \in BOOLEAN /\ admin \in BOOLEAN
      /\ sel = None /\ repoId = None /\ couchList = {} /\ gitList = {} /\ rows = {}
      /\ filter = FALSE /\ picked = {} /\ rights = {} /\ canWrite = FALSE
      /\ loads = [n \in L!Slots |-> L!NoLoad] /\ latest = 0 /\ busy = FALSE
      /\ dialog = L!NoDialog /\ op = L!Idle /\ ops = 0 /\ prompt = None
      /\ trouble = 0 /\ crossed = FALSE /\ halved = FALSE /\ shifted = FALSE
  BY Zenon DEF L!Init
<1>3. ListTypes
  <2>1. 0 \in 0..MaxLoads /\ linked \in [Dbs -> Repos \union {None}]
    BY <1>2 DEF ListConstants
  <2>2. L!NoDialog \in [mode : L!Modes \union {"none"}, listed : SUBSET Keys]
    BY DEF L!NoDialog
  <2>3. /\ couch \in [Dbs -> SUBSET Docs] /\ files \in [Repos -> [Dbs -> SUBSET Docs]]
        /\ rec \in [Dbs -> SUBSET Docs]
    BY <1>1
  <2> QED
    BY <1>2, <2>1, <2>2, <2>3 DEF ListTypes
<1>4. ListFlags
  BY <1>2, Zenon DEF ListFlags
<1>5. Unselected /\ LoadsShape
  <2>1. L!NoLoad \in ListLoad /\ L!NoLoad.st = "none" /\ L!NoLoad.by = "user"
    BY DEF L!NoLoad, ListLoad
  <2>2. loads \in [L!Slots -> ListLoad] /\ \A n \in L!Slots : loads[n] = L!NoLoad
    BY <1>2, <2>1
  <2>3. prompt \notin L!Slots
    BY <1>2 DEF L!Slots, ListConstants
  <2>4. LoadsShape
    BY <2>1, <2>2, <2>3 DEF LoadsShape
  <2> QED
    BY <1>2, <2>2, <2>4 DEF Unselected
<1>6. OpShape
  BY <1>2 DEF OpShape, ListOp, L!Idle, L!TheOp, ListConstants
<1>7. RightsOk /\ RepoOk /\ ListsOk
  BY <1>2, Zenon DEF RightsOk, RepoOk, ListsOk
<1>8. /\ L!Idle.st = "none" /\ L!Idle.kind = "none" /\ L!Idle.git = {} /\ L!Idle.skipped = {} /\ L!Idle.kind \notin L!Modes
      /\ L!NoLoad.st = "none"
  BY DEF L!Idle, L!Modes, L!NoLoad
<1>9. HomeOk
  BY <1>2, <1>8 DEF HomeOk
<1>10. UnreadOk
  <2>1. ASSUME ~token, NEW r \in Repos, NEW d \in Dbs
        PROVE  op.git \subseteq files[r][d] /\ \A e \in Dbs : rec[e] \subseteq files[r][d]
    BY <1>1, <1>2, <1>8
  <2> QED
    BY <1>2, <2>1 DEF UnreadOk
<1>11. DialogOk
  BY <1>2, <1>8 DEF DialogOk
<1> QED
  BY <1>2, <1>3, <1>4, <1>5, <1>6, <1>7, <1>9, <1>10, <1>11 DEF ListInv

LEMMA ListStep == ASSUME ListConstants, ListInv, [L!Next]_(L!vars) PROVE ListInv'
<1>1. CASE UNCHANGED L!vars
  <2>1. UNCHANGED <<couch, files, rec, linked, token, admin, sel, repoId, couchList, gitList, rows, filter, picked, rights,
                    canWrite, loads, latest, busy, dialog, op, ops, prompt, trouble, crossed, halved, shifted>>
    BY <1>1 DEF L!vars
  <2>2. ListTypes' /\ ListFlags' /\ Unselected'
    BY <2>1 DEF ListInv, ListTypes, ListFlags, Unselected
  <2> QED
    BY <2>1, <2>2, LoadsKept, OpKept, RightsKept, HomeKept, UnreadKept, RepoKept, ListsKept,
       DialogKept DEF ListInv
<1>2. ASSUME NEW n \in L!Slots, L!LandRepo(n) \/ L!LandFiles(n) \/ L!LandCouch(n) PROVE ListInv'
  BY <1>2, ListLandRepo, ListLandFiles, ListLandCouch
<1> QED
  BY <1>1, <1>2, ListSelectDatabase, ListLandRights, ListPick, ListSearch, ListPrepareDelete,
     ListCancelDelete,
     ListConfirmDelete, ListLandCouchDelete, ListLandGitDelete, ListAsk, ListLandSync, ListLandUnlink,
     ListLandRegister, ListConfirm, ListCancel, Zenon DEF L!Next

LEMMA ListInvariant == ASSUME ListConstants PROVE L!Spec => []ListInv
<1>1. L!Init => ListInv
  BY ListInit
<1>2. ListInv /\ [L!Next]_(L!vars) => ListInv'
  BY ListStep
<1> QED
  BY <1>1, <1>2, PTL DEF L!Spec

\* Settled, nothing is in the way of the two lists being true.
LEMMA ListIsOfTheSelection == ASSUME ListConstants, ListInv PROVE L!ScreenIsTheSelection
<1> USE DEF ListInv
<1>1. ASSUME L!Settled, rights = {} PROVE canWrite = (admin \/ sel \in Writable)
  <2>1. sel # None /\ trouble = 0
    BY <1>1, Zenon DEF L!Settled
  <2> QED
    BY <1>1, <2>1, Zenon DEF RightsOk
<1>2. ASSUME L!Settled, ~crossed, ~halved, token
      PROVE  /\ repoId = (IF admin THEN linked[sel] ELSE None)
             /\ {[db |-> r.db, doc |-> r.doc] : r \in rows} =
                  {[db |-> sel, doc |-> d] : d \in couch[sel] \union (IF repoId = None THEN {} ELSE files[repoId][sel])}
  <2>1. /\ sel # None /\ sel \in Dbs /\ trouble = 0 /\ op = L!Idle /\ \A n \in L!Slots : loads[n] = L!NoLoad
        /\ L!NoLoad.st = "none" /\ L!Idle.st = "none" /\ L!Idle.kind = "none"
    BY <1>2 DEF L!Settled, L!Running, L!NoLoad, L!Idle, ListTypes
  <2>2. \A n \in L!Slots : ~Reading(n) /\ loads[n].st = "none"
    BY <2>1 DEF Reading
  <2>3. /\ ~admin => repoId = None
        /\ admin => repoId = linked[sel]
    BY <1>2, <2>1, <2>2 DEF RepoOk
  <2>4. ~Halfway /\ ~Sure
    BY <1>2, <2>1, Zenon DEF Halfway, Sure
  <2>5. CouchTrue /\ FilesTrue /\ rows = L!buildDDocs(couchList, gitList, sel)
    BY <1>2, <2>1, <2>2, <2>4, Zenon DEF ListsOk
  <2>6. \A k \in couchList \union gitList : k.db = sel
    <3>1. \A c \in couchList : [db |-> c.db, doc |-> c.doc] \in {[db |-> sel, doc |-> d] : d \in couch[sel]}
      BY <2>5 DEF CouchTrue
    <3>2. \A c \in couchList : c.db = sel
      <4> TAKE c \in couchList
      <4>1. PICK d \in couch[sel] : [db |-> c.db, doc |-> c.doc] = [db |-> sel, doc |-> d]
        BY <3>1
      <4> QED
        BY <4>1
    <3>3. \A k \in gitList : k.db = sel
      BY <2>5 DEF FilesTrue
    <3> QED
      BY <3>2, <3>3
  <2>7. couchList \in SUBSET CouchRow /\ gitList \in SUBSET Keys
    BY DEF ListTypes
  <2>8. {[db |-> r.db, doc |-> r.doc] : r \in rows} = {[db |-> c.db, doc |-> c.doc] : c \in couchList} \union gitList
    BY <2>1, <2>5, <2>6, <2>7, BuiltRows
  <2>9. {[db |-> r.db, doc |-> r.doc] : r \in rows} =
          {[db |-> sel, doc |-> d] : d \in couch[sel] \union (IF repoId = None THEN {} ELSE files[repoId][sel])}
    BY <2>5, <2>8 DEF CouchTrue, FilesTrue
  <2> QED
    BY <2>3, <2>9
<1> QED
  BY <1>1, <1>2, Zenon DEF L!ScreenIsTheSelection

\* The steps that change documents or files.
LEMMA WhoChanges ==
  ASSUME [L!Next]_(L!vars)
  PROVE  L!LandCouchDelete \/ L!LandGitDelete \/ L!LandSync \/ UNCHANGED <<couch, files>>
<1>1. ASSUME NEW n \in L!Slots, L!LandRepo(n) \/ L!LandFiles(n) \/ L!LandCouch(n) PROVE UNCHANGED <<couch, files>>
  BY <1>1 DEF L!LandRepo, L!LandFiles, L!LandCouch, L!service
<1>2. CASE L!SelectDatabase \/ L!LandRights \/ L!Pick \/ L!PickAll \/ L!SetSearchText \/ L!prepareDelete \/ L!cancelDelete
  BY <1>2 DEF L!SelectDatabase, L!LandRights, L!Pick, L!PickAll, L!SetSearchText, L!prepareDelete,
     L!cancelDelete, L!service
<1>3. CASE L!confirmDelete
  BY <1>3 DEF L!confirmDelete, L!service
<1>4. CASE L!Sync \/ L!Unlink \/ L!LandUnlink \/ L!Register \/ L!LandRegister
  BY <1>4 DEF L!Sync, L!Unlink, L!LandUnlink, L!Register, L!LandRegister, L!service
<1>5. CASE L!confirm \/ L!cancel
  BY <1>5 DEF L!confirm, L!cancel, L!service
<1>6. CASE UNCHANGED L!vars
  BY <1>6 DEF L!vars
<1> QED
  BY <1>1, <1>2, <1>3, <1>4, <1>5, <1>6, Zenon DEF L!Next

LEMMA ListDeletes == ASSUME ListConstants, ListInv, [L!Next]_(L!vars) PROVE L!DeletesWhatWasListedStep
<1> USE DEF ListInv
<1> SUFFICES ASSUME op.kind \in L!Modes, ~crossed, ~shifted, NEW d0 \in Dbs,
                    NEW d \in (couch[d0] \ couch'[d0]) \union UNION {files[r][d0] \ files'[r][d0] : r \in Repos}
             PROVE  [db |-> d0, doc |-> d] \in op.listed
  BY DEF L!DeletesWhatWasListedStep
<1>1. op.st # "none" /\ \A x \in op.couch \union op.git : [db |-> sel, doc |-> x] \in op.listed
  BY DEF DialogOk, OpShape, L!Idle, L!Modes
<1>2. op.db = sel
  BY <1>1 DEF HomeOk
<1>3. CASE L!LandCouchDelete
  <2>1. couch' = couch \/ \E gone \in SUBSET op.couch : couch' = [couch EXCEPT ![op.db] = @ \ gone]
    BY <1>3 DEF L!LandCouchDelete
  <2>2. files' = files
    BY <1>3 DEF L!LandCouchDelete
  <2>3. d \in couch[d0] \ couch'[d0]
    BY <2>2
  <2>4. d0 = op.db /\ d \in op.couch
    BY <2>1, <2>3 DEF ListTypes
  <2> QED
    BY <1>1, <1>2, <2>4
<1>4. CASE L!LandGitDelete
  <2>1. files' = files \/ (op.st = "git" /\ files' = [files EXCEPT ![op.repo] = [files[op.repo] EXCEPT ![op.db] = @ \ op.git]])
    BY <1>4 DEF L!LandGitDelete
  <2>2. couch' = couch
    BY <1>4 DEF L!LandGitDelete
  <2>3. PICK r \in Repos : d \in files[r][d0] \ files'[r][d0]
    BY <2>2
  <2>4. d0 = op.db /\ d \in op.git
    BY <2>1, <2>3 DEF ListTypes
  <2> QED
    BY <1>1, <1>2, <2>4
<1>5. CASE L!LandSync
  BY <1>5 DEF L!LandSync, L!Syncing, L!Modes
<1>6. CASE UNCHANGED <<couch, files>>
  BY <1>6
<1> QED
  BY <1>3, <1>4, <1>5, <1>6, WhoChanges

LEMMA ListSyncs == ASSUME ListConstants, ListInv, [L!Next]_(L!vars) PROVE L!SyncStaysHomeStep
<1> USE DEF ListInv
<1> SUFFICES ASSUME L!Syncing, NEW d0 \in Dbs,
                    NEW d \in (couch'[d0] \ couch[d0]) \union UNION {files'[r][d0] \ files[r][d0] : r \in Repos}
             PROVE  [db |-> d0, doc |-> d] \in op.listed /\ linked[d0] = op.repo
  BY DEF L!SyncStaysHomeStep
<1>1. op.kind \in {"toRepo", "toCouch"} /\ op.kind \notin L!Modes /\ op.listed \subseteq Keys /\ op.st # "couch"
  BY DEF L!Syncing, L!Modes, OpShape, ListOp
<1>2. CASE L!LandCouchDelete
  BY <1>1, <1>2 DEF L!LandCouchDelete
<1>3. CASE L!LandGitDelete
  BY <1>1, <1>3 DEF L!LandGitDelete
<1>4. CASE L!LandSync
  <2> DEFINE names == {k.doc : k \in op.listed}
             carried == names \intersect (IF op.kind = "toRepo" THEN couch[op.db] ELSE files[op.repo][op.db])
  <2>1. \/ couch' = couch /\ files' = files
        \/ /\ L!KeysMatch /\ linked[op.db] = op.repo
           /\ \/ /\ files' = [files EXCEPT ![op.repo] = [files[op.repo] EXCEPT ![op.db] = @ \union carried]]
                 /\ UNCHANGED couch
              \/ couch' = [couch EXCEPT ![op.db] = @ \union carried] /\ UNCHANGED files
    BY <1>4 DEF L!LandSync
  <2>2. carried \subseteq names
    OBVIOUS
  <2> HIDE DEF carried
  <2>3. L!KeysMatch /\ linked[op.db] = op.repo /\ d0 = op.db /\ d \in carried
    BY <2>1 DEF ListTypes
  <2>4. PICK k \in op.listed : d = k.doc
    BY <2>2, <2>3
  <2>5. k = [db |-> d0, doc |-> d]
    BY <1>1, <2>3, <2>4 DEF Keys, L!KeysMatch
  <2> QED
    BY <2>3, <2>4, <2>5
<1>5. CASE UNCHANGED <<couch, files>>
  BY <1>5
<1> QED
  BY <1>2, <1>3, <1>4, <1>5, WhoChanges

\* Switching databases: with nothing in flight, nothing failed or left half done and no switch over
\* something in flight, the list shows the selected database's documents and files, its repository
\* and its rights, whatever was deleted, synced, unlinked and registered on the way.
THEOREM ListIsTheSelections == ASSUME ListConstants PROVE L!Spec => [](L!TypeOK /\ L!ScreenIsTheSelection)
<1>1. ListInv => L!TypeOK /\ L!ScreenIsTheSelection
  BY ListTypesType, ListIsOfTheSelection DEF ListInv
<1> QED
  BY <1>1, ListInvariant, PTL

\* A deletion takes only what its dialog listed, of the database it was listed for, and a sync gives
\* only what was selected, between the database and the repository linked to it, whatever prompts,
\* retries, loads and other operations come between (a rebuild under the open dialog excepted).
THEOREM OperationsTouchWhatWasListed ==
  ASSUME ListConstants PROVE L!Spec => L!DeletesWhatWasListed /\ L!SyncStaysHome
<1>1. ListInv /\ [L!Next]_(L!vars) => [L!DeletesWhatWasListedStep]_(L!vars) /\ [L!SyncStaysHomeStep]_(L!vars)
  BY ListDeletes, ListSyncs
<1> QED
  BY <1>1, ListInvariant, PTL DEF L!Spec, L!DeletesWhatWasListed, L!SyncStaysHome

----------------------------------------------------------------------------
(* The conflict viewer: any documents, acknowledgements under way for several cards at once, *)
(* and syncs, commits, compactions and sweeps elsewhere.                                     *)

C == INSTANCE ConflictViewer

\* None is neither a record nor a request; there is a first revision, and the bounds are numbers.
ConflictConstants ==
  /\ None \notin C!DesignConflict /\ None # [get |-> TRUE]
  /\ MaxRev \in Nat \ {0} /\ MaxOthers \in Nat /\ MaxTrouble \in Nat

\* Cards are acknowledged on a list that has arrived, which is never asked for again.
ResolvingOk == \A d \in Docs : resolving[d] # C!Idle => ~loading /\ ~loadError /\ conflicts[d] # None
ConflictInv == C!TypeOK /\ ResolvingOk /\ C!CardsAreTheRecords

LEMMA ConflictStarts == ASSUME ConflictConstants PROVE C!Init => ConflictInv
<1> SUFFICES ASSUME C!Init PROVE ConflictInv
  OBVIOUS
<1>1. C!TypeOK
  <2>1. 1 \in C!Revs /\ 1 \in 0..MaxRev /\ 0 \in 0..MaxTrouble /\ 0 \in 0..MaxOthers
    BY DEF ConflictConstants, C!Revs
  <2>2. couch \in [Docs -> C!Revs] /\ kept \in [Docs -> SUBSET C!Revs] /\ file \in [Docs -> 0..MaxRev]
    BY <2>1 DEF C!Init
  <2>3. \A b \in BOOLEAN : [couch_rev |-> 1, git_sha |-> 1, resolved |-> b] \in C!DesignConflict
    BY <2>1 DEF C!DesignConflict
  <2>4. records \in [Docs -> C!DesignConflict]
    BY <2>3, Zenon DEF C!Init
  <2>5. loading \in BOOLEAN /\ loadError \in BOOLEAN
    BY Zenon DEF C!Init
  <2>6. /\ conflicts \in [Docs -> C!DesignConflict \union {None}] /\ expandedId \in Docs \union {None}
        /\ resolving \in [Docs -> C!DesignConflict \union {C!Idle, [get |-> TRUE]}]
        /\ trouble = 0 /\ others = 0 /\ touched \subseteq Docs
    BY DEF C!Init
  <2> QED
    BY <2>1, <2>2, <2>4, <2>5, <2>6 DEF C!TypeOK
<1>2. ResolvingOk /\ C!CardsAreTheRecords
  BY DEF C!Init, ResolvingOk, C!CardsAreTheRecords
<1> QED
  BY <1>1, <1>2 DEF ConflictInv

\* What writeConflict writes, and what resolveConflict writes back, are records.
LEMMA ConflictRecords ==
  ASSUME ConflictConstants, C!TypeOK, NEW d \in Docs
  PROVE  /\ C!Detected(d) \in C!DesignConflict
         /\ resolving[d] # C!Idle /\ ~C!Getting(d) =>
              /\ resolving[d] \in C!DesignConflict
              /\ [resolving[d] EXCEPT !.resolved = TRUE] \in C!DesignConflict
              /\ [resolving[d] EXCEPT !.resolved = TRUE].resolved = TRUE
<1>1. couch[d] \in C!Revs /\ file[d] \in 0..MaxRev
      /\ resolving[d] \in C!DesignConflict \union {C!Idle, [get |-> TRUE]}
  BY DEF C!TypeOK
<1>2. C!Detected(d) \in C!DesignConflict
  BY <1>1 DEF C!Detected, C!DesignConflict
<1>3. resolving[d] # C!Idle /\ ~C!Getting(d) => resolving[d] \in C!DesignConflict
  BY <1>1 DEF C!Getting
<1> QED
  BY <1>2, <1>3 DEF C!DesignConflict

LEMMA ConflictStep == ASSUME ConflictConstants, ConflictInv, [C!Next]_(C!vars) PROVE ConflictInv'
<1> USE DEF ConflictInv
<1>1. CASE UNCHANGED C!vars
  BY <1>1 DEF C!vars, C!TypeOK, ResolvingOk, C!CardsAreTheRecords, C!DesignConflict, C!Revs
<1>2. CASE C!load \/ C!LoadFails \/ C!Retry
  <2>1. C!TypeOK'
    <3>1. loading' \in BOOLEAN /\ loadError' \in BOOLEAN
      BY <1>2, Zenon DEF C!load, C!LoadFails, C!Retry, C!TypeOK
    <3>2. /\ UNCHANGED <<couch, kept, file, others, records, resolving, expandedId, versions>>
          /\ conflicts' \in [Docs -> C!DesignConflict \union {None}] /\ touched' \in SUBSET Docs
          /\ trouble' \in 0..MaxTrouble
      BY <1>2 DEF ConflictConstants, C!load, C!LoadFails, C!Retry, C!world, C!TypeOK
    <3> QED
      BY <3>1, <3>2 DEF C!TypeOK, C!DesignConflict, C!Revs
  <2>2. ResolvingOk'
    BY <1>2 DEF C!load, C!LoadFails, C!Retry, C!world, ResolvingOk, C!Idle
  <2>3. C!CardsAreTheRecords'
    BY <1>2 DEF C!load, C!LoadFails, C!Retry, C!CardsAreTheRecords
  <2> QED
    BY <2>1, <2>2, <2>3
<1>3. ASSUME NEW d \in Docs, C!Save(d) \/ C!Compact(d) \/ C!Commit(d) PROVE ConflictInv'
  <2> USE DEF C!Save, C!Compact, C!Commit, C!Elsewhere, C!view
  <2>1. UNCHANGED <<records, conflicts, loading, loadError, resolving, expandedId, trouble, touched>>
    BY <1>3
  <2>2. couch' \in [Docs -> C!Revs] /\ kept' \in [Docs -> SUBSET C!Revs]
    BY <1>3 DEF C!TypeOK, C!Revs, ConflictConstants
  <2>3. file' \in [Docs -> 0..MaxRev] /\ others' \in 0..MaxOthers
    BY <1>3 DEF C!TypeOK, ConflictConstants
  <2> QED
    BY <2>1, <2>2, <2>3 DEF C!TypeOK, ResolvingOk, C!CardsAreTheRecords, C!DesignConflict, C!Revs
<1>4. ASSUME NEW d \in Docs, C!writeConflict(d) \/ C!Sweep(d) PROVE ConflictInv'
  <2> USE DEF C!writeConflict, C!Sweep, C!Elsewhere, C!view, C!world
  <2>1. /\ UNCHANGED <<couch, kept, file, conflicts, loading, loadError, resolving, expandedId, versions, trouble>>
        /\ touched' = touched \union {d} /\ others' \in 0..MaxOthers
    BY <1>4 DEF C!TypeOK, ConflictConstants
  <2>2. \E v \in C!DesignConflict \union {None} : records' = [records EXCEPT ![d] = v]
    BY <1>4, ConflictRecords
  <2>3. C!TypeOK'
    BY <2>1, <2>2 DEF C!TypeOK, C!DesignConflict, C!Revs
  <2>4. ResolvingOk' /\ C!CardsAreTheRecords'
    BY <2>1, <2>2 DEF ResolvingOk, C!CardsAreTheRecords, C!TypeOK, C!Idle
  <2> QED
    BY <2>3, <2>4
<1>5. ASSUME NEW d \in Docs, C!resolve(d) \/ C!ResolveReads(d) PROVE ConflictInv'
  <2> USE DEF C!resolve, C!ResolveReads, C!view, C!world
  <2>1. UNCHANGED <<couch, kept, file, records, conflicts, loading, loadError, expandedId, versions, trouble, others,
                   touched>>
    BY <1>5
  <2>2. \E v \in C!DesignConflict \union {C!Idle, [get |-> TRUE]} : resolving' = [resolving EXCEPT ![d] = v]
    BY <1>5 DEF C!TypeOK, C!Idle
  <2>3. ~loading /\ ~loadError /\ conflicts[d] # None
    BY <1>5 DEF C!Card, C!Getting, C!Idle, ResolvingOk, ConflictConstants
  <2> QED
    BY <2>1, <2>2, <2>3 DEF C!TypeOK, ResolvingOk, C!CardsAreTheRecords, C!DesignConflict, C!Revs
<1>6. ASSUME NEW d \in Docs, C!resolveConflict(d) PROVE ConflictInv'
  <2> DEFINE back == [resolving[d] EXCEPT !.resolved = TRUE]
  <2>1. back \in C!DesignConflict /\ conflicts[d] # None /\ ~loading /\ ~loadError
    BY <1>6, ConflictRecords DEF C!resolveConflict, ResolvingOk
  <2>2. /\ records' = [records EXCEPT ![d] = back] /\ conflicts' = [conflicts EXCEPT ![d] = back]
        /\ touched' = touched \ {d} /\ resolving' = [resolving EXCEPT ![d] = C!Idle]
        /\ UNCHANGED <<couch, kept, file, others, loading, loadError, expandedId, versions, trouble>>
    BY <1>6, <2>1 DEF C!resolveConflict, C!world, C!TypeOK
  <2> HIDE DEF back
  <2>3. back # None
    BY <2>1 DEF ConflictConstants
  <2> QED
    BY <2>1, <2>2, <2>3 DEF C!TypeOK, ResolvingOk, C!CardsAreTheRecords, C!DesignConflict, C!Revs
<1>7. ASSUME NEW d \in Docs, C!ResolveFails(d) PROVE ConflictInv'
  <2>1. /\ UNCHANGED <<couch, kept, file, others, conflicts, loading, loadError, expandedId, versions>>
        /\ trouble' \in 0..MaxTrouble /\ resolving' = [resolving EXCEPT ![d] = C!Idle]
    BY <1>7 DEF C!ResolveFails, C!world, C!view, C!TypeOK, ConflictConstants
  <2>2. \/ UNCHANGED <<records, touched>>
        \/ touched' = touched \union {d} /\ \E v \in C!DesignConflict : records' = [records EXCEPT ![d] = v]
    BY <1>7, ConflictRecords DEF C!ResolveFails
  <2> QED
    BY <2>1, <2>2 DEF C!TypeOK, ResolvingOk, C!CardsAreTheRecords, C!DesignConflict, C!Revs
<1>8. ASSUME NEW d \in Docs, C!toggleCompare(d) \/ C!getConflictVersions(d) PROVE ConflictInv'
  <2>1. /\ UNCHANGED <<couch, kept, file, others, records, conflicts, loading, loadError, resolving, touched>>
        /\ expandedId' \in Docs \union {None}
    BY <1>8 DEF C!toggleCompare, C!getConflictVersions, C!world, C!TypeOK
  <2>2. trouble' \in 0..MaxTrouble
    BY <1>8 DEF C!toggleCompare, C!getConflictVersions, C!TypeOK, ConflictConstants
  <2> QED
    BY <2>1, <2>2 DEF C!TypeOK, ResolvingOk, C!CardsAreTheRecords, C!DesignConflict, C!Revs
<1> QED
  BY <1>1, <1>2, <1>3, <1>4, <1>5, <1>6, <1>7, <1>8 DEF C!Next

\* An acknowledgement is taken back only by writeConflict, for another pair.
LEMMA AcknowledgedStep ==
  ASSUME ConflictConstants, ConflictInv, [C!Next]_(C!vars) PROVE C!AcknowledgementStaysStep
<1> SUFFICES ASSUME NEW d \in Docs, records[d] # None, records'[d] # None, records[d].resolved,
                    ~records'[d].resolved
             PROVE  <<couch[d], file[d]>> # <<records[d].couch_rev, records[d].git_sha>>
  BY DEF C!AcknowledgementStaysStep
<1>1. records'[d] # records[d]
  OBVIOUS
<1>2. PICK e \in Docs : C!writeConflict(e) \/ C!Sweep(e) \/ C!resolveConflict(e) \/ C!ResolveFails(e)
  BY <1>1 DEF C!Next, C!vars, C!load, C!LoadFails, C!Retry, C!Save, C!Compact, C!Commit, C!resolve,
     C!ResolveReads,
              C!toggleCompare, C!getConflictVersions
<1>3. records \in [Docs -> C!DesignConflict \union {None}]
  BY DEF ConflictInv, C!TypeOK
<1>4. e = d
  BY <1>1, <1>2, <1>3 DEF C!writeConflict, C!Sweep, C!resolveConflict, C!ResolveFails
<1>5. CASE C!writeConflict(d)
  <2>1. records'[d] = C!Detected(d)
    BY <1>3, <1>5 DEF C!writeConflict
  <2>2. ASSUME couch[d] = records[d].couch_rev, file[d] = records[d].git_sha PROVE FALSE
    <3>1. records'[d] = [couch_rev |-> couch[d], git_sha |-> file[d], resolved |-> TRUE]
      BY <2>1, <2>2 DEF C!Detected
    <3> QED
      BY <3>1
  <2> QED
    BY <2>2
<1>6. CASE C!Sweep(d)
  BY <1>3, <1>6 DEF C!Sweep
<1>7. CASE C!resolveConflict(d) \/ C!ResolveFails(d)
  <2>1. records'[d] = [resolving[d] EXCEPT !.resolved = TRUE] /\ resolving[d] # C!Idle /\ ~C!Getting(d)
    BY <1>1, <1>3, <1>7 DEF C!resolveConflict, C!ResolveFails
  <2> QED
    BY <2>1, ConflictRecords DEF ConflictInv
<1> QED
  BY <1>2, <1>4, <1>5, <1>6, <1>7

LEMMA ConflictInvariant == ASSUME ConflictConstants PROVE C!Spec => []ConflictInv
<1>1. C!Init => ConflictInv
  BY ConflictStarts
<1>2. ConflictInv /\ [C!Next]_(C!vars) => ConflictInv'
  BY ConflictStep
<1> QED
  BY <1>1, <1>2, PTL DEF C!Spec

\* A card on the list is its record, acknowledged or not, unless a sync or a sweep elsewhere has
\* touched the record since (conflict-viewer.ts, load and resolve).
THEOREM CardsAreRecords == ASSUME ConflictConstants PROVE C!Spec => [](C!TypeOK /\ C!CardsAreTheRecords)
<1>1. ConflictInv => C!TypeOK /\ C!CardsAreTheRecords
  BY DEF ConflictInv
<1> QED
  BY <1>1, ConflictInvariant, PTL

\* An acknowledged conflict stays acknowledged until one of its two sides moves, whichever answers
\* and syncs overtake each other (resolveConflict, writeConflict).
THEOREM AcknowledgedStays == ASSUME ConflictConstants PROVE C!Spec => C!AcknowledgementStays
<1>1. ConflictInv /\ [C!Next]_(C!vars) => [C!AcknowledgementStaysStep]_(C!vars)
  BY AcknowledgedStep
<1> QED
  BY <1>1, ConflictInvariant, PTL DEF C!Spec, C!AcknowledgementStays

----------------------------------------------------------------------------
(* The list of replications: any replications, searches and reads that overtake each other,  *)
(* while others edit, delete and drive replications on.                                      *)

P == INSTANCE ReplicationList

ReplJob == [rev : Nat, state : States]
ReplDocs == [Ids -> Nat]
ReplJobs == [Ids -> ReplJob \union {None}]
ReplDeletion == [id : Ids, rev : Nat \union {None}]

\* None is nothing else, the bounds are numbers, and the first read is within them.
ReplConstants ==
  /\ None \notin Nat /\ None \notin ReplJob /\ None \notin P!Row
  /\ None \notin ReplDocs /\ None \notin ReplJobs /\ None \notin ReplDeletion
  /\ MaxLoads \in Nat \ {0} /\ MaxOthers \in Nat /\ MaxTrouble \in Nat

ReplRead == [seq : 1..MaxLoads, filter : Filters \union {None}, docs : ReplDocs \union {None},
             jobs : ReplJobs \union {None}]
ReplTypes ==
  /\ stored \in [Ids -> [rev : Nat \ {0}, live : BOOLEAN]] /\ jobs \in ReplJobs
  /\ replications \in [Ids -> P!Row \union {None}] /\ filterValue \in Filters \union {None}
  /\ loadSeq \in 1..MaxLoads /\ loads \in SUBSET ReplRead /\ moved \in [1..MaxLoads -> SUBSET Ids]
  /\ _confirmDelete \in Ids \union {None} /\ deletion \in ReplDeletion \union {None}
  /\ trouble \in 0..MaxTrouble /\ others \in 0..MaxOthers
ReplFlags == debounce \in BOOLEAN /\ loading \in BOOLEAN

\* Each read has a number of its own, and the last one asks what the search box asks.
ReadsOk ==
  /\ \A l \in loads : l.seq <= loadSeq
  /\ \A l, m \in loads : l.seq = m.seq => l = m
  /\ ~debounce => \A l \in loads : P!Latest(l) => l.filter = filterValue

\* What a read has been told is so, of all that has not changed since it began.
ReadIsTrue(l) ==
  \A i \in Ids \ moved[l.seq] :
    /\ l.docs # None => l.docs[i] = IF stored[i].live THEN stored[i].rev ELSE 0
    /\ l.jobs # None => l.jobs[i] \in {None, jobs[i]}
ReadsTrue == \A l \in loads : ReadIsTrue(l)

ReplInv == ReplTypes /\ ReplFlags /\ ReadsOk /\ P!SettledListIsTheSearch /\ ReadsTrue

LEMMA ReplTypesType == ReplTypes /\ ReplFlags /\ ReadsOk => P!TypeOK
<1> SUFFICES ASSUME ReplTypes, ReplFlags, ReadsOk PROVE P!TypeOK
  OBVIOUS
<1>1. {l.seq : l \in loads} \subseteq 1..loadSeq
  BY DEF ReplTypes, ReadsOk, ReplRead
<1>2. \A i \in Ids : stored[i].rev \in Nat /\ stored[i].live \in BOOLEAN
  BY DEF ReplTypes
<1>3. loadSeq \in 0..MaxLoads
  BY DEF ReplTypes
<1> QED
  BY <1>1, <1>2, <1>3, Zenon DEF P!TypeOK, ReplTypes, ReplFlags

LEMMA ReplStarts == ASSUME ReplConstants PROVE P!Init => ReplInv
<1> SUFFICES ASSUME P!Init PROVE ReplInv
  OBVIOUS
<1> DEFINE first == [seq |-> 1, filter |-> None, docs |-> None, jobs |-> None]
<1>1. loads = {first} /\ first \in ReplRead /\ loadSeq = 1 /\ 1 \in 1..MaxLoads
  BY DEF P!Init, ReplRead, ReplConstants
<1>2. ReplTypes
  <2>1. stored \in [Ids -> [rev : Nat \ {0}, live : BOOLEAN]] /\ jobs \in ReplJobs
    BY DEF P!Init, ReplJobs
  <2> QED
    BY <1>1, <2>1 DEF P!Init, ReplTypes, ReplConstants
<1>3. ReplFlags
  BY Zenon DEF P!Init, ReplFlags
<1>4. ReadsOk /\ ReadsTrue
  BY <1>1 DEF P!Init, ReadsOk, ReadsTrue, ReadIsTrue, P!Latest
<1>5. P!SettledListIsTheSearch
  BY <1>1 DEF P!Init, P!SettledListIsTheSearch, P!Latest
<1> QED
  BY <1>2, <1>3, <1>4, <1>5 DEF ReplInv

\* The parts that an action keeps, because it leaves alone what they are about.
LEMMA ReplKept ==
  ASSUME ReplInv
  PROVE  /\ UNCHANGED <<debounce, loading>> => ReplFlags'
         /\ UNCHANGED <<loads, loadSeq, debounce, filterValue>> => ReadsOk'
         /\ UNCHANGED <<loads, loadSeq, loading, debounce, filterValue, answered, replications>>
              /\ trouble \in Nat /\ trouble' \in Nat /\ trouble' >= trouble
              => P!SettledListIsTheSearch'
         /\ UNCHANGED <<loads, moved, stored, jobs>> => ReadsTrue'
<1>1. UNCHANGED <<debounce, loading>> => ReplFlags'
  BY Zenon DEF ReplInv, ReplFlags
<1>2. UNCHANGED <<loads, loadSeq, debounce, filterValue>> => ReadsOk'
  BY DEF ReplInv, ReadsOk, P!Latest
<1>3. UNCHANGED <<loads, loadSeq, loading, debounce, filterValue, answered, replications>> /\ trouble' >= trouble
        /\ trouble' \in Nat /\ trouble \in Nat
        => P!SettledListIsTheSearch'
  BY DEF ReplInv, P!SettledListIsTheSearch, P!Latest, P!Wanted
<1>4. UNCHANGED <<loads, moved, stored, jobs>> => ReadsTrue'
  BY DEF ReplInv, ReadsTrue, ReadIsTrue
<1> QED
  BY <1>1, <1>2, <1>3, <1>4

\* A new read makes the older ones out of date, and asks what the search box asks.
LEMMA ReplLoads ==
  ASSUME ReplConstants, ReplInv, P!load, UNCHANGED <<replications, answered>>,
         filterValue' \in Filters \union {None},
         ~debounce' \/ UNCHANGED <<debounce, filterValue>>
  PROVE  /\ loads' \in SUBSET ReplRead /\ loadSeq' \in 1..MaxLoads
         /\ ReadsOk' /\ P!SettledListIsTheSearch'
         /\ \A l \in loads' : l \in loads \/ (l.docs = None /\ l.jobs = None)
<1> DEFINE new == P!Load(loadSeq + 1)
<1>1. /\ loadSeq \in 1..MaxLoads /\ loadSeq + 1 \in 1..MaxLoads /\ loadSeq' = loadSeq + 1
      /\ loading' = TRUE /\ loads' = loads \union {new}
  BY DEF P!load, ReplInv, ReplTypes, ReplConstants
<1>2. new \in ReplRead /\ new.seq = loadSeq + 1 /\ new.filter = filterValue' /\ new.docs = None /\ new.jobs = None
  BY <1>1 DEF P!Load, ReplRead
<1> HIDE DEF new
<1>3. loads \in SUBSET ReplRead /\ \A l \in loads : l.seq \in Nat /\ l.seq <= loadSeq
  BY DEF ReplInv, ReplTypes, ReplRead, ReadsOk
<1>4. loads' \in SUBSET ReplRead
  BY <1>1, <1>2, <1>3
<1>5. ReadsOk'
  BY <1>1, <1>2, <1>3 DEF ReplInv, ReadsOk, P!Latest
<1>6. P!SettledListIsTheSearch'
  BY <1>1, <1>2 DEF ReplInv, P!SettledListIsTheSearch, P!Latest, P!Wanted
<1> QED
  BY <1>1, <1>2, <1>4, <1>5, <1>6

\* A replication that changes has changed for every read under way.
LEMMA ReplMoves ==
  ASSUME ReplInv, NEW i \in Ids, P!Moved(i),
         stored' = stored \/ \E v \in [rev : Nat \ {0}, live : BOOLEAN] : stored' = [stored EXCEPT ![i] = v],
         jobs' = jobs \/ \E v : jobs' = [jobs EXCEPT ![i] = v],
         \A l \in loads' : l \in loads \/ (l.docs = None /\ l.jobs = None)
  PROVE  ReadsTrue' /\ moved' \in [1..MaxLoads -> SUBSET Ids]
<1>1. moved' \in [1..MaxLoads -> SUBSET Ids]
  BY DEF P!Moved, ReplInv, ReplTypes
<1>2. ASSUME NEW l \in loads, NEW k \in Ids \ moved'[l.seq]
      PROVE  k \in Ids \ moved[l.seq] /\ k # i
  BY <1>2 DEF P!Moved, ReplInv, ReplTypes, ReplRead
<1>3. ASSUME NEW k \in Ids, k # i PROVE stored'[k] = stored[k] /\ jobs'[k] = jobs[k]
  BY <1>3 DEF ReplInv, ReplTypes, ReplJobs
<1>4. ASSUME NEW l \in loads PROVE ReadIsTrue(l)'
  <2>1. ReadIsTrue(l)
    BY DEF ReplInv, ReadsTrue
  <2> SUFFICES ASSUME NEW k \in Ids \ moved'[l.seq]
               PROVE  /\ l.docs # None => l.docs[k] = IF stored'[k].live THEN stored'[k].rev ELSE 0
                      /\ l.jobs # None => l.jobs[k] \in {None, jobs'[k]}
    BY DEF ReadIsTrue
  <2>2. k \in Ids \ moved[l.seq] /\ stored'[k] = stored[k] /\ jobs'[k] = jobs[k]
    BY <1>2, <1>3
  <2> QED
    BY <2>1, <2>2 DEF ReadIsTrue
<1>5. ReadsTrue'
  BY <1>4 DEF ReadsTrue, ReadIsTrue
<1> QED
  BY <1>1, <1>5

\* A request of a read is answered with what the server has.
LEMMA ReplServed ==
  ASSUME ReplConstants, ReplInv, NEW l \in loads, NEW m \in ReplRead, P!Swap(l, m),
         m.seq = l.seq, m.filter = l.filter, ReadIsTrue(m),
         UNCHANGED <<stored, jobs, moved, filterValue, debounce, replications, answered, loading, loadSeq>>,
         trouble' \in Nat, trouble' >= trouble
  PROVE  loads' \in SUBSET ReplRead /\ ReadsOk' /\ P!SettledListIsTheSearch' /\ ReadsTrue'
<1>1. loads' = (loads \ {l}) \union {m} /\ loads \in SUBSET ReplRead /\ trouble \in Nat
  BY DEF P!Swap, ReplInv, ReplTypes
<1>2. ReadsOk'
  BY <1>1 DEF ReplInv, ReadsOk, P!Latest
<1>3. (\E k \in loads' : k.seq = loadSeq) <=> \E k \in loads : k.seq = loadSeq
  BY <1>1
<1>4. P!SettledListIsTheSearch'
  BY <1>1, <1>3 DEF ReplInv, P!SettledListIsTheSearch, P!Latest, P!Wanted
<1>5. ReadsTrue'
  BY <1>1 DEF ReplInv, ReadsTrue, ReadIsTrue
<1> QED
  BY <1>1, <1>2, <1>4, <1>5

LEMMA ReplDocsServed ==
  ASSUME ReplConstants, ReplInv, NEW l \in loads, P!DocsServed(l) PROVE ReplInv'
<1> DEFINE m == [l EXCEPT !.docs = [i \in Ids |-> IF stored[i].live THEN stored[i].rev ELSE 0]]
<1>1. l \in ReplRead /\ P!Swap(l, m)
  BY DEF P!DocsServed, ReplInv, ReplTypes
<1>2. m \in ReplRead /\ m.seq = l.seq /\ m.filter = l.filter /\ m.jobs = l.jobs
      /\ m.docs = [i \in Ids |-> IF stored[i].live THEN stored[i].rev ELSE 0]
  BY <1>1 DEF ReplRead, ReplDocs, ReplInv, ReplTypes
<1> HIDE DEF m
<1>3. ReadIsTrue(m)
  BY <1>2 DEF ReadIsTrue, ReplInv, ReadsTrue
<1>4. UNCHANGED <<stored, jobs, moved, filterValue, debounce, replications, answered, loading, loadSeq, trouble,
                 _confirmDelete, deletion, others>> /\ trouble \in Nat
  BY DEF P!DocsServed, P!server, P!shown, ReplInv, ReplTypes
<1>5. loads' \in SUBSET ReplRead /\ ReadsOk' /\ P!SettledListIsTheSearch' /\ ReadsTrue'
  BY <1>1, <1>2, <1>3, <1>4, ReplServed
<1> QED
  BY <1>4, <1>5, ReplKept DEF ReplInv, ReplTypes

LEMMA ReplSchedulerServed ==
  ASSUME ReplConstants, ReplInv, NEW l \in loads, P!SchedulerServed(l) PROVE ReplInv'
<1>1. PICK j \in {jobs, [i \in Ids |-> None]} : P!Swap(l, [l EXCEPT !.jobs = j])
  BY DEF P!SchedulerServed
<1> DEFINE m == [l EXCEPT !.jobs = j]
<1>2. l \in ReplRead /\ P!Swap(l, m) /\ j \in ReplJobs
  BY <1>1 DEF ReplInv, ReplTypes, ReplJobs
<1>3. m \in ReplRead /\ m.seq = l.seq /\ m.filter = l.filter /\ m.docs = l.docs /\ m.jobs = j
  BY <1>2 DEF ReplRead
<1> HIDE DEF m
<1>4. ReadIsTrue(m)
  BY <1>1, <1>3 DEF ReadIsTrue, ReplInv, ReadsTrue
<1>5. /\ UNCHANGED <<stored, jobs, moved, filterValue, debounce, replications, answered, loading, loadSeq,
                    _confirmDelete, deletion, others>>
      /\ trouble' \in 0..MaxTrouble /\ trouble' >= trouble
  BY DEF P!SchedulerServed, P!server, P!shown, ReplInv, ReplTypes, ReplConstants
<1>6. loads' \in SUBSET ReplRead /\ ReadsOk' /\ P!SettledListIsTheSearch' /\ ReadsTrue'
  BY <1>2, <1>3, <1>4, <1>5, ReplServed
<1> QED
  BY <1>5, <1>6, ReplKept DEF ReplInv, ReplTypes

\* A read that ends.
LEMMA ReplEnds ==
  ASSUME ReplConstants, ReplInv, NEW l \in loads, loads' = loads \ {l},
         UNCHANGED <<stored, jobs, moved, filterValue, debounce, loadSeq>>
  PROVE  /\ loads' \in SUBSET ReplRead /\ ReadsOk' /\ ReadsTrue'
         /\ P!Latest(l) => \A k \in loads' : ~P!Latest(k)
         /\ ~P!Latest(l) => ((\E k \in loads' : P!Latest(k)) <=> \E k \in loads : P!Latest(k))
<1>1. loads' \in SUBSET ReplRead
  BY DEF ReplInv, ReplTypes
<1>2. ReadsOk' /\ ReadsTrue'
  BY DEF ReplInv, ReadsOk, ReadsTrue, ReadIsTrue, P!Latest
<1>3. P!Latest(l) => \A k \in loads' : ~P!Latest(k)
  BY DEF ReplInv, ReadsOk, P!Latest
<1> QED
  BY <1>1, <1>2, <1>3

LEMMA ReplRow ==
  ASSUME ReplConstants, ReplInv, NEW l \in loads, l.docs # None, l.jobs # None, NEW i \in Ids
  PROVE  LET row == P!listReplications(l)[i] IN
         /\ row \in P!Row \union {None}
         /\ row # None <=> (l.docs[i] # 0 /\ i \in P!Wanted(l.filter))
         /\ row # None => row.rev = l.docs[i] /\ row.state = IF l.jobs[i] = None THEN None ELSE l.jobs[i].state
<1> DEFINE made == [rev |-> l.docs[i], state |-> IF l.jobs[i] = None THEN None ELSE l.jobs[i].state]
<1>1. l.docs \in ReplDocs /\ l.jobs \in ReplJobs
  BY DEF ReplInv, ReplTypes, ReplRead
<1>2. made \in P!Row
  BY <1>1 DEF P!Row, ReplDocs, ReplJobs, ReplJob
<1>3. made.rev = l.docs[i] /\ made.state = IF l.jobs[i] = None THEN None ELSE l.jobs[i].state
  OBVIOUS
<1>4. P!listReplications(l)[i] = IF l.docs[i] # 0 /\ i \in P!Wanted(l.filter) THEN made ELSE None
  BY DEF P!listReplications
<1> HIDE DEF made
<1> QED
  BY <1>2, <1>3, <1>4 DEF ReplConstants

LEMMA ReplRows ==
  ASSUME ReplConstants, ReplInv, NEW l \in loads, l.docs # None, l.jobs # None
  PROVE  P!listReplications(l) \in [Ids -> P!Row \union {None}]
<1> DEFINE made == P!listReplications(l)
<1>1. \A i \in Ids : made[i] \in P!Row \union {None}
  BY ReplRow
<1>2. made = [i \in Ids |-> made[i]]
  BY DEF P!listReplications
<1> HIDE DEF made
<1>3. made \in [Ids -> P!Row \union {None}]
  BY <1>1, <1>2
<1> QED
  BY <1>3 DEF made

LEMMA ReplLanded ==
  ASSUME ReplConstants, ReplInv, NEW l \in loads, P!Landed(l) \/ P!LoadFails(l) PROVE ReplInv'
<1>1. /\ loads' = loads \ {l}
      /\ UNCHANGED <<stored, jobs, moved, filterValue, debounce, loadSeq, _confirmDelete, deletion, others>>
  BY DEF P!Landed, P!LoadFails, P!server
<1>2. trouble' \in 0..MaxTrouble /\ trouble \in Nat /\ trouble' >= trouble
  <2>1. trouble' = trouble \/ (trouble < MaxTrouble /\ trouble' = trouble + 1)
    BY Zenon DEF P!Landed, P!LoadFails
  <2>2. trouble \in 0..MaxTrouble /\ MaxTrouble \in Nat
    BY DEF ReplInv, ReplTypes, ReplConstants
  <2> QED
    BY <2>1, <2>2
<1>3. /\ loads' \in SUBSET ReplRead /\ ReadsOk' /\ ReadsTrue'
      /\ P!Latest(l) => \A k \in loads' : ~P!Latest(k)
      /\ ~P!Latest(l) => ((\E k \in loads' : P!Latest(k)) <=> \E k \in loads : P!Latest(k))
  BY <1>1, ReplEnds
<1>4. CASE ~P!Latest(l)
  <2>1. UNCHANGED <<replications, answered, loading>>
    BY <1>4 DEF P!Landed, P!LoadFails, P!shown
  <2>2. P!SettledListIsTheSearch'
    BY <1>1, <1>2, <1>3, <1>4, <2>1 DEF ReplInv, P!SettledListIsTheSearch, P!Latest, P!Wanted
  <2>3. ReplFlags'
    BY <1>1, <2>1, ReplKept
  <2> QED
    BY <1>1, <1>2, <1>3, <2>1, <2>2, <2>3 DEF ReplInv, ReplTypes
<1>5. CASE P!Latest(l)
  <2>1. ~loading'
    BY <1>5 DEF P!Landed, P!LoadFails
  <2>2. ReplFlags'
    BY <1>1, <1>5, Zenon DEF P!Landed, P!LoadFails, ReplInv, ReplFlags
  <2>3. CASE P!Landed(l)
    <3>1. l.docs # None /\ l.jobs # None /\ replications' = P!listReplications(l) /\ answered' = l.filter
      BY <1>5, <2>3 DEF P!Landed
    <3>2. loading' <=> \E k \in loads' : P!Latest(k)'
      BY <1>1, <1>3, <1>5, <2>1 DEF P!Latest
    <3>3. ~debounce' => answered' = filterValue'
      BY <1>1, <1>5, <3>1 DEF ReplInv, ReadsOk
    <3>4. ASSUME NEW i \in Ids, replications'[i] # None PROVE i \in P!Wanted(answered')
      BY <3>1, <3>4, ReplRow
    <3>5. P!SettledListIsTheSearch'
      BY <3>2, <3>3, <3>4 DEF P!SettledListIsTheSearch, P!Wanted
    <3> QED
      BY <1>1, <1>2, <1>3, <2>2, <3>1, <3>5, ReplRows DEF ReplInv, ReplTypes
  <2>4. CASE P!LoadFails(l)
    <3>1. UNCHANGED <<replications, answered>> /\ trouble' # 0
      BY <1>2, <2>4 DEF P!LoadFails, P!shown
    <3>2. loading' <=> \E k \in loads' : P!Latest(k)'
      BY <1>1, <1>3, <1>5, <2>1 DEF P!Latest
    <3>3. \A i \in Ids : replications'[i] # None => i \in P!Wanted(answered')
      BY <3>1 DEF ReplInv, P!SettledListIsTheSearch
    <3>4. P!SettledListIsTheSearch'
      BY <3>1, <3>2, <3>3 DEF P!SettledListIsTheSearch, P!Wanted
    <3> QED
      BY <1>1, <1>2, <1>3, <2>2, <3>1, <3>4 DEF ReplInv, ReplTypes
  <2> QED
    BY <2>3, <2>4
<1> QED
  BY <1>4, <1>5

\* What others do to a replication.
LEMMA ReplElsewhere ==
  ASSUME ReplConstants, ReplInv, NEW i \in Ids, P!Elsewhere(i) \/ P!Scheduled(i) PROVE ReplInv'
<1>1. /\ UNCHANGED <<filterValue, debounce, replications, answered, loading, loadSeq, loads, _confirmDelete, deletion,
                    trouble>>
      /\ others' \in 0..MaxOthers /\ P!Moved(i) /\ trouble \in Nat
  BY DEF P!Elsewhere, P!Scheduled, P!shown, ReplInv, ReplTypes, ReplConstants
<1>2. stored' = stored \/ \E v \in [rev : Nat \ {0}, live : BOOLEAN] : stored' = [stored EXCEPT ![i] = v]
  <2>1. CASE P!Elsewhere(i)
    <3>1. PICK b \in BOOLEAN : stored' = [stored EXCEPT ![i] = [rev |-> stored[i].rev + 1, live |-> b]]
      BY <2>1 DEF P!Elsewhere
    <3>2. [rev |-> stored[i].rev + 1, live |-> b] \in [rev : Nat \ {0}, live : BOOLEAN]
      BY DEF ReplInv, ReplTypes
    <3> QED
      BY <3>1, <3>2
  <2>2. CASE P!Scheduled(i)
    BY <2>2 DEF P!Scheduled
  <2> QED
    BY <2>1, <2>2
<1>3. jobs' = jobs \/ \E v \in ReplJob \union {None} : jobs' = [jobs EXCEPT ![i] = v]
  <2>1. CASE P!Elsewhere(i)
    BY <2>1 DEF P!Elsewhere
  <2>2. CASE P!Scheduled(i)
    <3>1. PICK v \in IF stored[i].live THEN {[rev |-> stored[i].rev, state |-> s] : s \in States} ELSE {None} :
            jobs' = [jobs EXCEPT ![i] = v]
      BY <2>2 DEF P!Scheduled
    <3>2. v \in ReplJob \union {None}
      BY DEF ReplJob, ReplInv, ReplTypes
    <3> QED
      BY <3>1, <3>2
  <2> QED
    BY <2>1, <2>2
<1>4. ReadsTrue' /\ moved' \in [1..MaxLoads -> SUBSET Ids]
  BY <1>1, <1>2, <1>3, ReplMoves
<1>5. jobs' \in ReplJobs /\ stored' \in [Ids -> [rev : Nat \ {0}, live : BOOLEAN]]
  <2>1. stored' \in [Ids -> [rev : Nat \ {0}, live : BOOLEAN]]
    BY <1>2 DEF ReplInv, ReplTypes
  <2>2. jobs \in [Ids -> ReplJob \union {None}]
    BY DEF ReplInv, ReplTypes, ReplJobs
  <2>3. jobs' \in [Ids -> ReplJob \union {None}]
    BY <1>3, <2>2
  <2> QED
    BY <2>1, <2>3 DEF ReplJobs
<1>6. ReplFlags' /\ ReadsOk' /\ P!SettledListIsTheSearch'
  BY <1>1, ReplKept
<1> QED
  BY <1>1, <1>4, <1>5, <1>6 DEF ReplInv, ReplTypes

\* The search box, and the reads it starts.
LEMMA ReplSearch ==
  ASSUME ReplConstants, ReplInv, (\E f \in Filters : P!Type(f)) \/ P!_scheduleSearch \/ P!_reloadNow PROVE ReplInv'
<1>1. UNCHANGED <<stored, jobs, moved, replications, answered, _confirmDelete, deletion, others, trouble>>
  BY DEF P!Type, P!_scheduleSearch, P!_reloadNow, P!server, P!shown
<1>2. filterValue' \in Filters \union {None}
  BY DEF P!Type, P!_scheduleSearch, P!_reloadNow, ReplInv, ReplTypes
<1>3. CASE \E f \in Filters : P!Type(f)
  <2>1. debounce' = TRUE /\ UNCHANGED <<loading, loadSeq, loads>>
    BY <1>3 DEF P!Type
  <2>2. ReplFlags'
    BY <1>3, Zenon DEF P!Type, ReplInv, ReplFlags
  <2>3. ReadsOk' /\ P!SettledListIsTheSearch' /\ ReadsTrue'
    BY <1>1, <2>1 DEF ReplInv, ReadsOk, P!SettledListIsTheSearch, ReadsTrue, ReadIsTrue, P!Latest,
       P!Wanted
  <2> QED
    BY <1>1, <1>2, <2>1, <2>2, <2>3 DEF ReplInv, ReplTypes
<1>4. CASE P!_scheduleSearch \/ P!_reloadNow
  <2>1. P!load /\ debounce' = FALSE
    BY <1>4 DEF P!_scheduleSearch, P!_reloadNow
  <2>2. ReplFlags'
    BY <2>1, Zenon DEF P!load, ReplFlags
  <2>3. /\ loads' \in SUBSET ReplRead /\ loadSeq' \in 1..MaxLoads /\ ReadsOk' /\ P!SettledListIsTheSearch'
        /\ \A l \in loads' : l \in loads \/ (l.docs = None /\ l.jobs = None)
    BY <1>1, <1>2, <2>1, ReplLoads
  <2>4. ReadsTrue'
    BY <1>1, <2>3 DEF ReplInv, ReadsTrue, ReadIsTrue
  <2> QED
    BY <1>1, <1>2, <2>2, <2>3, <2>4 DEF ReplInv, ReplTypes
<1> QED
  BY <1>3, <1>4

\* The dialog of a deletion, and the requests that leave the list as it is.
LEMMA ReplDialog ==
  ASSUME ReplConstants, ReplInv,
         \/ \E i \in Ids : P!AskDelete(i)
         \/ P!CancelDelete \/ P!_doDelete \/ P!DeleteReads \/ P!DeleteFails
  PROVE  ReplInv'
<1>1. /\ UNCHANGED <<stored, jobs, filterValue, debounce, replications, answered, loading, loadSeq, loads, others, moved>>
      /\ _confirmDelete' \in Ids \union {None} /\ trouble \in Nat /\ trouble' \in 0..MaxTrouble /\ trouble' >= trouble
  BY DEF P!AskDelete, P!CancelDelete, P!_doDelete, P!DeleteReads, P!DeleteFails, P!server, P!shown,
     ReplInv, ReplTypes,
         ReplConstants
<1>2. deletion' \in ReplDeletion \union {None}
  <2>1. CASE P!DeleteReads
    <3>1. deletion \in ReplDeletion /\ deletion' = [deletion EXCEPT !.rev = stored[deletion.id].rev]
      BY <2>1 DEF P!DeleteReads, ReplInv, ReplTypes
    <3>2. stored[deletion.id].rev \in Nat
      BY <3>1 DEF ReplDeletion, ReplInv, ReplTypes
    <3> QED
      BY <3>1, <3>2 DEF ReplDeletion
  <2>2. CASE ~P!DeleteReads
    BY <2>2 DEF P!AskDelete, P!CancelDelete, P!_doDelete, P!DeleteFails, ReplInv, ReplTypes,
       ReplDeletion
  <2> QED
    BY <2>1, <2>2
<1>3. ReplFlags' /\ ReadsOk' /\ P!SettledListIsTheSearch' /\ ReadsTrue'
  BY <1>1, ReplKept
<1> QED
  BY <1>1, <1>2, <1>3 DEF ReplInv, ReplTypes

LEMMA ReplDeleted == ASSUME ReplConstants, ReplInv, P!deleteReplication PROVE ReplInv'
<1>1. /\ deletion \in ReplDeletion /\ deletion.id \in Ids /\ deletion.rev \in Nat
      /\ deletion' = None /\ _confirmDelete' = None /\ P!load
      /\ P!Moved(deletion.id) /\ UNCHANGED <<filterValue, jobs, debounce, replications, answered, others, trouble>>
  BY DEF P!deleteReplication, P!shown, ReplInv, ReplTypes, ReplDeletion
<1>2. \E v \in [rev : Nat \ {0}, live : BOOLEAN] : stored' = [stored EXCEPT ![deletion.id] = v]
  <2>1. stored' = [stored EXCEPT ![deletion.id] = [rev |-> deletion.rev + 1, live |-> FALSE]]
    BY DEF P!deleteReplication
  <2>2. [rev |-> deletion.rev + 1, live |-> FALSE] \in [rev : Nat \ {0}, live : BOOLEAN]
    BY <1>1
  <2> QED
    BY <2>1, <2>2
<1>3. /\ loads' \in SUBSET ReplRead /\ loadSeq' \in 1..MaxLoads /\ ReadsOk' /\ P!SettledListIsTheSearch'
      /\ \A l \in loads' : l \in loads \/ (l.docs = None /\ l.jobs = None)
  <2>1. filterValue' \in Filters \union {None}
    BY <1>1 DEF ReplInv, ReplTypes
  <2> QED
    BY <1>1, <2>1, ReplLoads
<1>4. ReadsTrue' /\ moved' \in [1..MaxLoads -> SUBSET Ids]
  BY <1>1, <1>2, <1>3, ReplMoves
<1>5. ReplFlags'
  BY <1>1, Zenon DEF P!load, ReplInv, ReplFlags
<1>6. stored' \in [Ids -> [rev : Nat \ {0}, live : BOOLEAN]]
  BY <1>1, <1>2 DEF ReplInv, ReplTypes
<1> QED
  BY <1>1, <1>3, <1>4, <1>5, <1>6 DEF ReplInv, ReplTypes

LEMMA ReplInvariant == ASSUME ReplConstants PROVE P!Spec => []ReplInv
<1>1. P!Init => ReplInv
  BY ReplStarts
<1>2. ASSUME ReplInv, [P!Next]_(P!vars) PROVE ReplInv'
  <2>1. CASE UNCHANGED P!vars
    <3>1. ReplFlags' /\ ReadsOk' /\ P!SettledListIsTheSearch' /\ ReadsTrue'
      BY <1>2, <2>1, ReplKept DEF P!vars, ReplInv, ReplTypes, ReplConstants
    <3> QED
      BY <1>2, <2>1, <3>1 DEF P!vars, ReplInv, ReplTypes
  <2>2. CASE P!Next
    BY <1>2, <2>2, ReplElsewhere, ReplSearch, ReplDialog, ReplDeleted, ReplDocsServed,
       ReplSchedulerServed, ReplLanded
       DEF P!Next
  <2> QED
    BY <1>2, <2>1, <2>2
<1> QED
  BY <1>1, <1>2, PTL DEF P!Spec

\* With nothing under way and nothing failed, the rows answer the search box; the spinner is up
\* exactly while the newest read is under way, whatever reads it overtook (repl-list.ts, _loadSeq).
THEOREM ReplicationsAreTheSearch == ASSUME ReplConstants PROVE P!Spec => [](P!TypeOK /\ P!SettledListIsTheSearch)
<1>1. ReplInv => P!TypeOK /\ P!SettledListIsTheSearch
  BY ReplTypesType DEF ReplInv
<1> QED
  BY <1>1, ReplInvariant, PTL

\* Only the answer of the newest read puts rows on the screen.
LEMMA RowsStep == ASSUME ReplConstants, ReplInv, [P!Next]_(P!vars) PROVE P!RowsAreReplicationsStep
<1> SUFFICES ASSUME NEW i \in Ids, NEW l \in loads, loads' = loads \ {l}, replications' # replications,
                    i \notin moved[l.seq], i \in P!Wanted(l.filter)
             PROVE  /\ (replications'[i] # None) = stored[i].live
                    /\ replications'[i] # None =>
                         /\ replications'[i].rev = stored[i].rev
                         /\ replications'[i].state \in {None} \union {jobs[j].state : j \in {k \in {i} : jobs[k] # None}}
  BY DEF P!RowsAreReplicationsStep
<1>1. PICK k \in loads : P!Landed(k)
  BY DEF P!Next, P!vars, P!Elsewhere, P!Scheduled, P!AskDelete, P!Type, P!_scheduleSearch,
     P!_reloadNow, P!CancelDelete,
         P!_doDelete, P!DeleteReads, P!deleteReplication, P!DeleteFails, P!DocsServed, P!SchedulerServed, P!LoadFails,
         P!shown
<1>2. k = l
  BY <1>1 DEF P!Landed
<1>3. replications' = P!listReplications(l) /\ l.docs # None /\ l.jobs # None
  BY <1>1, <1>2 DEF P!Landed, P!shown
<1>4. /\ l.docs[i] = IF stored[i].live THEN stored[i].rev ELSE 0
      /\ l.jobs[i] \in {None, jobs[i]}
      /\ stored[i].rev \in Nat \ {0} /\ stored[i].live \in BOOLEAN
  BY <1>3 DEF ReplInv, ReadsTrue, ReadIsTrue, ReplTypes
<1> DEFINE made == P!listReplications(l)
<1>5. /\ replications' = made
      /\ made[i] # None <=> l.docs[i] # 0
      /\ made[i] # None => /\ made[i].rev = l.docs[i]
                           /\ made[i].state = IF l.jobs[i] = None THEN None ELSE l.jobs[i].state
  BY <1>3, ReplRow
<1> HIDE DEF made
<1>6. (replications'[i] # None) = stored[i].live
  <2>1. stored[i].live => l.docs[i] # 0
    BY <1>4
  <2>2. ~stored[i].live => l.docs[i] = 0
    BY <1>4
  <2> QED
    BY <1>4, <1>5, <2>1, <2>2
<1>7. ASSUME replications'[i] # None
      PROVE  /\ replications'[i].rev = stored[i].rev
             /\ replications'[i].state \in {None} \union {jobs[j].state : j \in {n \in {i} : jobs[n] # None}}
  <2>1. /\ replications'[i].rev = l.docs[i]
        /\ replications'[i].state = IF l.jobs[i] = None THEN None ELSE l.jobs[i].state
    BY <1>5, <1>7
  <2>2. stored[i].live
    BY <1>6, <1>7
  <2> QED
    BY <1>4, <2>1, <2>2
<1> QED
  BY <1>6, <1>7

\* A row that is put on the screen is a replication of the server with the state of its own job,
\* unless it changed while the list was read (listReplications, annotate).
THEOREM RowsAreOfTheServer == ASSUME ReplConstants PROVE P!Spec => P!RowsAreReplications
<1>1. ReplInv /\ [P!Next]_(P!vars) => [P!RowsAreReplicationsStep]_(P!vars)
  BY RowsStep
<1> QED
  BY <1>1, ReplInvariant, PTL DEF P!Spec, P!RowsAreReplications

----------------------------------------------------------------------------
(* The database list: any databases, overlapping loads, deletions and creations, while others *)
(* create and drop databases and open and close the listing.                                 *)

B == INSTANCE DbList

\* The first load is within the bounds.
DbConstants == MaxLoads \in Nat \ {0} /\ MaxOthers \in Nat

DbLoad == [st : {"none", "names", "info", "refused", "answered", "failed"}, q : BOOLEAN, by : B!Orders,
           names : SUBSET Dbs]
DbTypes ==
  /\ existing \subseteq Dbs /\ secured \subseteq existing /\ order \in B!Orders
  /\ latest \in 1..MaxLoads /\ loads \in [1..MaxLoads -> DbLoad]
  /\ \A n \in 1..MaxLoads : n > latest => loads[n] = B!NoLoad
  /\ shown \subseteq Dbs /\ drawer \in Dbs \union {None} /\ opened \in Dbs \union {None} /\ others \in 0..MaxOthers
  /\ deleting \in [db : Dbs \union {None}, st : {"none", "sent", "done", "failed"}]
  /\ probe \in [db : Dbs \union {None}, st : {"none", "sent", "ok", "refused"}]
  /\ create \in [db : Dbs \union {None}, st : {"none", "put", "security", "failed", "done"}]
  /\ probe.st # "none" => probe.db \in Dbs
  /\ create.st # "none" => create.db \in Dbs
DbFlags ==
  /\ listable \in BOOLEAN /\ search \in BOOLEAN /\ timer \in BOOLEAN /\ loading \in BOOLEAN
  /\ denied \in BOOLEAN /\ left \in BOOLEAN
DbHidden == denied => shown = {}

\* What the newest load was told is so as long as nothing changed since it was sent, and it asks
\* what is on the screen; once it has landed, so does the list.
Newest == loads[latest]
NewestIsTrue ==
  ~moved =>
    /\ Newest.st \in {"info", "answered"} => listable /\ Newest.names = existing
    /\ Newest.st = "refused" => ~listable
NewestAsks == ~left /\ ~timer => (Newest.st # "none" => Newest.q = search /\ Newest.by = order)
ListAnswers ==
  ~left /\ ~timer /\ Newest.st = "none" =>
    \/ denied /\ (~moved => ~listable)
    \/ shownFor.by = "failed"
    \/ /\ shownFor = B!Question(search, order)
       /\ ~moved => (listable /\ shown = B!Filtered(search, existing))

DbInv == DbTypes /\ DbFlags /\ DbHidden /\ NewestIsTrue /\ NewestAsks /\ ListAnswers

LEMMA DbTypesType == DbTypes /\ DbFlags /\ DbHidden => B!TypeOK
<1> SUFFICES ASSUME DbTypes, DbFlags, DbHidden PROVE B!TypeOK
  OBVIOUS
<1>1. latest \in 0..MaxLoads /\ \A n \in 1..MaxLoads : n > latest => loads[n] = B!NoLoad
  BY DEF DbTypes
<1>2. deleting.st \in {"none", "sent", "done", "failed"} /\ probe.st \in {"none", "sent", "ok", "refused"}
      /\ create.st \in {"none", "put", "security", "failed", "done"}
  BY DEF DbTypes
<1> QED
  BY <1>1, <1>2, Zenon DEF B!TypeOK, DbTypes, DbFlags, DbHidden

LEMMA DbStarts == ASSUME DbConstants PROVE B!Init => DbInv
<1> SUFFICES ASSUME B!Init PROVE DbInv
  OBVIOUS
<1>1. B!NoLoad \in DbLoad /\ [B!NoLoad EXCEPT !.st = "names"] \in DbLoad
  BY DEF B!NoLoad, DbLoad, B!Orders
<1>2. loads \in [1..MaxLoads -> DbLoad] /\ latest \in 1..MaxLoads
      /\ \A n \in 1..MaxLoads : n > latest => loads[n] = B!NoLoad
  BY <1>1 DEF B!Init, DbConstants
<1>3. Newest.st = "names" /\ ~Newest.q /\ Newest.by = "name"
  BY <1>2 DEF B!Init, Newest, DbConstants, B!NoLoad
<1>4. DbTypes
  BY <1>2 DEF B!Init, DbTypes, DbConstants, B!NoCreate, B!Orders
<1>5. DbFlags
  BY Zenon DEF B!Init, DbFlags
<1>6. DbHidden /\ NewestIsTrue /\ ListAnswers
  BY <1>3 DEF B!Init, DbHidden, NewestIsTrue, ListAnswers
<1>7. NewestAsks
  <2>1. Newest.q = FALSE
    BY <1>1, <1>2 DEF B!Init, Newest, DbConstants, B!NoLoad
  <2> QED
    BY <1>3, <2>1 DEF B!Init, NewestAsks
<1> QED
  BY <1>4, <1>5, <1>6, <1>7 DEF DbInv

\* What an action keeps, because it leaves alone what the part is about.
LEMMA DbKept ==
  ASSUME DbInv
  PROVE  /\ UNCHANGED <<listable, search, timer, loading, denied, left>> => DbFlags'
         /\ UNCHANGED <<denied, shown>> => DbHidden'
         /\ UNCHANGED <<loads, latest>> /\ (moved' \/ UNCHANGED <<moved, listable, existing>>) => NewestIsTrue'
         /\ UNCHANGED <<loads, latest>> /\ (left' \/ timer' \/ UNCHANGED <<left, timer, search, order>>) => NewestAsks'
         /\ (/\ UNCHANGED <<loads, latest>>
             /\ left' \/ timer' \/ UNCHANGED <<left, timer, search, order, denied, shown, shownFor>>
             /\ moved' \/ UNCHANGED <<moved, listable, existing>>)
              => ListAnswers'
<1>1. UNCHANGED <<listable, search, timer, loading, denied, left>> => DbFlags'
  BY Zenon DEF DbInv, DbFlags
<1>2. UNCHANGED <<denied, shown>> => DbHidden'
  BY DEF DbInv, DbHidden
<1>3. UNCHANGED <<loads, latest>> /\ (moved' \/ UNCHANGED <<moved, listable, existing>>) => NewestIsTrue'
  BY DEF DbInv, NewestIsTrue, Newest
<1>4. UNCHANGED <<loads, latest>> /\ (left' \/ timer' \/ UNCHANGED <<left, timer, search, order>>) => NewestAsks'
  BY DEF DbInv, NewestAsks, Newest
<1>5. (/\ UNCHANGED <<loads, latest>>
       /\ left' \/ timer' \/ UNCHANGED <<left, timer, search, order, denied, shown, shownFor>>
       /\ moved' \/ UNCHANGED <<moved, listable, existing>>)
        => ListAnswers'
  <2> SUFFICES ASSUME UNCHANGED <<loads, latest>>, moved' \/ UNCHANGED <<moved, listable, existing>>,
                      left' \/ timer' \/ UNCHANGED <<left, timer, search, order, denied, shown, shownFor>>
               PROVE  ListAnswers'
    OBVIOUS
  <2>1. CASE left' \/ timer'
    BY <2>1 DEF ListAnswers
  <2>2. CASE UNCHANGED <<left, timer, search, order, denied, shown, shownFor>> /\ moved'
    BY <2>2, Zenon DEF DbInv, ListAnswers, Newest
  <2>3. CASE UNCHANGED <<left, timer, search, order, denied, shown, shownFor, moved, listable, existing>>
    BY <2>3 DEF DbInv, ListAnswers, Newest, B!Filtered, B!Question
  <2> QED
    BY <2>1, <2>2, <2>3, Zenon
<1> QED
  BY <1>1, <1>2, <1>3, <1>4, <1>5

\* A load asks what is on the screen, and the list says nothing of it until it has landed.
LEMMA DbLoads ==
  ASSUME DbConstants, DbInv, B!Load, search' \in BOOLEAN, order' \in B!Orders
  PROVE  /\ latest' \in 1..MaxLoads /\ loads' \in [1..MaxLoads -> DbLoad]
         /\ \A n \in 1..MaxLoads : n > latest' => loads'[n] = B!NoLoad
         /\ NewestIsTrue' /\ NewestAsks' /\ ListAnswers' /\ DbHidden'
         /\ loading' \in BOOLEAN /\ denied' \in BOOLEAN /\ shown' \subseteq Dbs
<1> DEFINE new == [B!NoLoad EXCEPT !.st = "names", !.q = search', !.by = order']
<1>1. /\ latest \in 1..MaxLoads /\ latest + 1 \in 1..MaxLoads /\ latest' = latest + 1
      /\ loads' = [loads EXCEPT ![latest + 1] = new] /\ UNCHANGED <<shown, shownFor, denied>>
  BY DEF B!Load, DbInv, DbTypes, DbConstants
<1>2. new \in DbLoad /\ new.st = "names" /\ new.by = order'
  BY DEF B!NoLoad, DbLoad, B!Orders
<1>3. new.q = search'
  BY DEF B!NoLoad
<1> HIDE DEF new
<1>4. loads' \in [1..MaxLoads -> DbLoad] /\ \A n \in 1..MaxLoads : n > latest' => loads'[n] = B!NoLoad
  BY <1>1, <1>2 DEF DbInv, DbTypes
<1>5. loads'[latest'] = new
  BY <1>1 DEF DbInv, DbTypes
<1>6. NewestIsTrue' /\ ListAnswers'
  BY <1>2, <1>5 DEF NewestIsTrue, ListAnswers, Newest
<1>7. NewestAsks'
  BY <1>2, <1>3, <1>5 DEF NewestAsks, Newest
<1>8. DbHidden' /\ shown' \subseteq Dbs
  BY <1>1 DEF DbInv, DbHidden, DbTypes
<1>9. loading' \in BOOLEAN /\ denied' \in BOOLEAN
  BY Zenon DEF B!Load, DbInv, DbFlags
<1> QED
  BY <1>1, <1>4, <1>6, <1>7, <1>8, <1>9

\* The search box and the headers.
LEMMA DbSearch ==
  ASSUME DbConstants, DbInv, B!Search \/ B!Debounced \/ B!ClearSearch \/ B!SortBy PROVE DbInv'
<1>1. UNCHANGED <<existing, secured, listable, drawer, deleting, probe, left, opened, create, others>>
  BY DEF B!Search, B!Debounced, B!ClearSearch, B!SortBy, B!server, B!acts
<1>2. search' \in BOOLEAN /\ timer' \in BOOLEAN
  BY Zenon DEF B!Search, B!Debounced, B!ClearSearch, B!SortBy, B!ReloadNow, DbInv, DbFlags
<1>3. order' \in B!Orders
  BY DEF B!Search, B!Debounced, B!ClearSearch, B!SortBy, DbInv, DbTypes
<1>4. CASE B!Search
  <2>1. timer' = TRUE /\ UNCHANGED <<order, loads, latest, loading, shown, shownFor, denied, moved>>
    BY <1>4 DEF B!Search, B!list
  <2>2. DbFlags'
    BY <1>1, <1>2, <2>1, Zenon DEF DbInv, DbFlags
  <2>3. DbHidden' /\ NewestIsTrue' /\ NewestAsks' /\ ListAnswers'
    BY <1>1, <2>1, DbKept
  <2> QED
    BY <1>1, <1>3, <2>1, <2>2, <2>3 DEF DbInv, DbTypes
<1>5. CASE ~B!Search
  <2>1. B!Load
    BY <1>5 DEF B!Debounced, B!ClearSearch, B!SortBy, B!ReloadNow
  <2>2. /\ latest' \in 1..MaxLoads /\ loads' \in [1..MaxLoads -> DbLoad]
        /\ \A n \in 1..MaxLoads : n > latest' => loads'[n] = B!NoLoad
        /\ NewestIsTrue' /\ NewestAsks' /\ ListAnswers' /\ DbHidden'
        /\ loading' \in BOOLEAN /\ denied' \in BOOLEAN /\ shown' \subseteq Dbs
    BY <1>2, <1>3, <2>1, DbLoads
  <2>3. DbFlags'
    BY <1>1, <1>2, <2>2, Zenon DEF DbInv, DbFlags
  <2> QED
    BY <1>1, <1>3, <2>2, <2>3 DEF DbInv, DbTypes
<1> QED
  BY <1>4, <1>5

\* The requests of a load.
LEMMA DbAnswered ==
  ASSUME DbConstants, DbInv, NEW n \in 1..MaxLoads, B!Names(n) \/ B!Info(n) \/ B!Fails(n) PROVE DbInv'
<1>1. /\ UNCHANGED <<existing, secured, listable, search, order, timer, latest, loading, shown, shownFor, denied, drawer,
                    deleting, probe, left, opened, create, moved>>
      /\ others' \in 0..MaxOthers /\ loads[n].st \in {"names", "info"} /\ loads[n] \in DbLoad
  BY DEF B!Names, B!Info, B!Fails, B!server, B!acts, DbInv, DbTypes, DbConstants
<1>2. \E m \in DbLoad :
         /\ loads' = [loads EXCEPT ![n] = m] /\ m.q = loads[n].q /\ m.by = loads[n].by /\ m.st # "none"
         /\ m.st \in {"info", "answered"} => \/ loads[n].st = "names" /\ listable /\ m.names = existing
                                             \/ loads[n].st = "info" /\ m.names = loads[n].names \intersect existing
         /\ m.st = "refused" => loads[n].st = "names" /\ ~listable
  <2>1. CASE B!Names(n)
    <3> DEFINE m == [loads[n] EXCEPT !.st = IF listable THEN "info" ELSE "refused",
                                    !.names = IF listable THEN existing ELSE {}]
    <3>1. loads' = [loads EXCEPT ![n] = m] /\ loads[n].st = "names"
      BY <2>1 DEF B!Names
    <3>2. CASE listable
      <4>1. /\ m \in DbLoad /\ m.q = loads[n].q /\ m.by = loads[n].by /\ m.st = "info" /\ m.names = existing
        BY <1>1, <3>2 DEF DbLoad, DbInv, DbTypes
      <4> HIDE DEF m
      <4> QED
        BY <3>1, <3>2, <4>1
    <3>3. CASE ~listable
      <4>1. /\ m \in DbLoad /\ m.q = loads[n].q /\ m.by = loads[n].by /\ m.st = "refused"
        BY <1>1, <3>3 DEF DbLoad
      <4> HIDE DEF m
      <4> QED
        BY <3>1, <3>3, <4>1
    <3> QED
      BY <3>2, <3>3
  <2>2. CASE B!Info(n)
    <3> DEFINE m == [loads[n] EXCEPT !.st = "answered", !.names = loads[n].names \intersect existing]
    <3>1. loads' = [loads EXCEPT ![n] = m] /\ loads[n].st = "info"
      BY <1>1, <2>2 DEF B!Info, DbInv, DbTypes
    <3>2. /\ m \in DbLoad /\ m.q = loads[n].q /\ m.by = loads[n].by /\ m.st = "answered"
          /\ m.names = loads[n].names \intersect existing
      BY <1>1 DEF DbLoad
    <3> HIDE DEF m
    <3> QED
      BY <3>1, <3>2
  <2>3. CASE B!Fails(n)
    <3> DEFINE m == [loads[n] EXCEPT !.st = "failed"]
    <3>1. loads' = [loads EXCEPT ![n] = m]
      BY <2>3 DEF B!Fails, DbInv, DbTypes
    <3>2. m \in DbLoad /\ m.q = loads[n].q /\ m.by = loads[n].by /\ m.st = "failed"
      BY <1>1 DEF DbLoad
    <3> HIDE DEF m
    <3> QED
      BY <3>1, <3>2
  <2> QED
    BY <2>1, <2>2, <2>3
<1>3. PICK m \in DbLoad :
         /\ loads' = [loads EXCEPT ![n] = m] /\ m.q = loads[n].q /\ m.by = loads[n].by /\ m.st # "none"
         /\ m.st \in {"info", "answered"} => \/ loads[n].st = "names" /\ listable /\ m.names = existing
                                             \/ loads[n].st = "info" /\ m.names = loads[n].names \intersect existing
         /\ m.st = "refused" => loads[n].st = "names" /\ ~listable
  BY <1>2
<1>4. /\ loads' \in [1..MaxLoads -> DbLoad]
      /\ \A k \in 1..MaxLoads : k > latest' => loads'[k] = B!NoLoad
  <2>1. loads \in [1..MaxLoads -> DbLoad] /\ \A k \in 1..MaxLoads : k > latest => loads[k] = B!NoLoad
    BY DEF DbInv, DbTypes
  <2>2. B!NoLoad.st = "none"
    BY DEF B!NoLoad
  <2>3. ~(n > latest)
    BY <1>1, <2>1, <2>2
  <2> QED
    BY <1>1, <1>3, <2>1, <2>3
<1>5. loads'[latest] = IF n = latest THEN m ELSE loads[latest]
  BY <1>3 DEF DbInv, DbTypes
<1>6. DbFlags' /\ DbHidden'
  BY <1>1, DbKept
<1>7. NewestIsTrue'
  BY <1>1, <1>3, <1>5 DEF DbInv, NewestIsTrue, Newest
<1>8. NewestAsks'
  BY <1>1, <1>3, <1>5 DEF DbInv, NewestAsks, Newest
<1>9. ListAnswers'
  <2>1. CASE n = latest
    BY <1>1, <1>3, <1>5, <2>1 DEF ListAnswers, Newest
  <2>2. CASE n # latest
    <3>1. UNCHANGED Newest
      BY <1>1, <1>5, <2>2 DEF Newest
    <3>2. UNCHANGED <<left, timer, denied, moved, listable, shownFor, search, order, shown, existing, Newest>>
      BY <1>1, <3>1
    <3> QED
      BY <3>2 DEF DbInv, ListAnswers, B!Filtered, B!Question
  <2> QED
    BY <2>1, <2>2
<1> QED
  BY <1>1, <1>4, <1>6, <1>7, <1>8, <1>9 DEF DbInv, DbTypes

\* The answer of the newest load is put on the screen, any other is dropped.
LEMMA DbLands == ASSUME DbConstants, DbInv, NEW n \in 1..MaxLoads, B!Land(n) PROVE DbInv'
<1>1. /\ UNCHANGED <<existing, secured, listable, search, order, timer, latest, drawer, deleting, probe, left, opened,
                    create, others, moved>>
      /\ loads[n].st \in {"answered", "refused", "failed"} /\ loads' = [loads EXCEPT ![n] = B!NoLoad]
      /\ loads[n] \in DbLoad
  BY DEF B!Land, B!server, B!acts, DbInv, DbTypes
<1>2. B!NoLoad \in DbLoad /\ B!NoLoad.st = "none"
  BY DEF B!NoLoad, DbLoad, B!Orders
<1>3. /\ loads' \in [1..MaxLoads -> DbLoad]
      /\ \A k \in 1..MaxLoads : k > latest' => loads'[k] = B!NoLoad
  BY <1>1, <1>2 DEF DbInv, DbTypes
<1>4. loads'[latest] = IF n = latest THEN B!NoLoad ELSE loads[latest]
  BY <1>1 DEF DbInv, DbTypes
<1>5. NewestIsTrue' /\ NewestAsks'
  BY <1>1, <1>2, <1>4 DEF DbInv, NewestIsTrue, NewestAsks, Newest
<1>6. CASE n # latest
  <2>1. UNCHANGED <<loading, shown, shownFor, denied>>
    BY <1>6 DEF B!Land, B!Newest
  <2>2. UNCHANGED Newest
    BY <1>1, <1>4, <1>6 DEF Newest
  <2>3. UNCHANGED <<left, timer, denied, moved, listable, shownFor, search, order, shown, existing, Newest>>
    BY <1>1, <2>1, <2>2
  <2>4. ListAnswers'
    BY <2>3 DEF DbInv, ListAnswers, B!Filtered, B!Question
  <2>5. DbFlags' /\ DbHidden'
    BY <1>1, <2>1, DbKept
  <2> QED
    BY <1>1, <1>3, <1>5, <2>1, <2>4, <2>5 DEF DbInv, DbTypes
<1>7. CASE n = latest
  <2> DEFINE l == loads[n]
  <2>1. /\ loading' = FALSE
        /\ l.st = "answered" => denied' = FALSE /\ shown' = B!Filtered(l.q, l.names) /\ shownFor' = B!Question(l.q, l.by)
        /\ l.st = "refused" => denied' = TRUE /\ shown' = {} /\ UNCHANGED shownFor
        /\ l.st = "failed" => UNCHANGED <<shown, denied>> /\ shownFor' = B!Question(FALSE, "failed")
    BY <1>1, <1>7 DEF B!Land, B!Newest
  <2>2. /\ ~moved => (l.st \in {"info", "answered"} => listable /\ l.names = existing) /\ (l.st = "refused" => ~listable)
        /\ ~left /\ ~timer => l.q = search /\ l.by = order
    BY <1>1, <1>7 DEF DbInv, NewestIsTrue, NewestAsks, Newest
  <2>3. denied' \in BOOLEAN /\ loading' \in BOOLEAN
    <3>1. l.st = "answered" \/ l.st = "refused" \/ l.st = "failed"
      BY <1>1
    <3> QED
      BY <2>1, <3>1, Zenon DEF DbInv, DbFlags
  <2>4. DbFlags'
    BY <1>1, <2>3, Zenon DEF DbInv, DbFlags
  <2>5. shown' \subseteq Dbs /\ DbHidden'
    <3>1. l.names \subseteq Dbs
      BY <1>1 DEF DbLoad
    <3>2. B!Filtered(l.q, l.names) \subseteq Dbs
      BY <3>1 DEF B!Filtered
    <3>3. shown \subseteq Dbs /\ (denied => shown = {})
      BY DEF DbInv, DbTypes, DbHidden
    <3>4. CASE l.st = "answered"
      BY <2>1, <3>2, <3>4 DEF DbHidden
    <3>5. CASE l.st = "refused"
      BY <2>1, <3>5 DEF DbHidden
    <3>6. CASE l.st = "failed"
      BY <2>1, <3>3, <3>6 DEF DbHidden
    <3> QED
      BY <1>1, <3>4, <3>5, <3>6
  <2>6. ListAnswers'
    <3> SUFFICES ASSUME ~left, ~timer
                 PROVE  \/ denied' /\ (~moved => ~listable)
                        \/ shownFor'.by = "failed"
                        \/ /\ shownFor' = B!Question(search, order)
                           /\ ~moved => (listable /\ shown' = B!Filtered(search, existing))
      BY <1>1 DEF ListAnswers, B!Question, B!Filtered
    <3>1. CASE l.st = "answered"
      <4>1. shownFor' = B!Question(search, order)
        BY <2>1, <2>2, <3>1
      <4>2. ~moved => listable /\ shown' = B!Filtered(search, existing)
        BY <2>1, <2>2, <3>1
      <4> QED
        BY <4>1, <4>2
    <3>2. CASE l.st = "refused"
      BY <2>1, <2>2, <3>2
    <3>3. CASE l.st = "failed"
      BY <2>1, <3>3 DEF B!Question
    <3> QED
      BY <1>1, <3>1, <3>2, <3>3
  <2> QED
    BY <1>1, <1>3, <1>5, <2>4, <2>5, <2>6 DEF DbInv, DbTypes
<1> QED
  BY <1>6, <1>7

\* The drawer, the probe and the creation, up to the requests that change the server.
LEMMA DbDialogs ==
  ASSUME DbConstants, DbInv,
         \/ B!ConfirmDelete \/ B!CloseDrawer \/ B!DoDelete \/ B!OpenByName \/ B!ProbeServed \/ B!ProbeLands \/ B!Leave
         \/ B!Create
  PROVE  DbInv'
<1>1. /\ UNCHANGED <<existing, secured, listable, search, order, loads, latest, loading, shown, shownFor, denied, others,
                    moved>>
      /\ UNCHANGED <<left, timer>> \/ left'
  BY DEF B!ConfirmDelete, B!CloseDrawer, B!DoDelete, B!OpenByName, B!ProbeServed, B!ProbeLands,
     B!Leave, B!Create,
         B!server, B!list
<1>2. left' \in BOOLEAN /\ timer' \in BOOLEAN
  BY Zenon DEF B!ConfirmDelete, B!CloseDrawer, B!DoDelete, B!OpenByName, B!ProbeServed, B!ProbeLands,
     B!Leave, B!Create,
               DbInv, DbFlags
<1>3. DbFlags'
  BY <1>1, <1>2, Zenon DEF DbInv, DbFlags
<1>4. DbHidden' /\ NewestIsTrue' /\ NewestAsks' /\ ListAnswers'
  BY <1>1, DbKept
<1>5. drawer' \in Dbs \union {None} /\ opened' \in Dbs \union {None}
  BY DEF B!ConfirmDelete, B!CloseDrawer, B!DoDelete, B!OpenByName, B!ProbeServed, B!ProbeLands,
     B!Leave, B!Create,
         DbInv, DbTypes
<1>6. deleting' \in [db : Dbs \union {None}, st : {"none", "sent", "done", "failed"}]
  BY DEF B!ConfirmDelete, B!CloseDrawer, B!DoDelete, B!OpenByName, B!ProbeServed, B!ProbeLands,
     B!Leave, B!Create,
         DbInv, DbTypes
<1>7. /\ probe' \in [db : Dbs \union {None}, st : {"none", "sent", "ok", "refused"}]
      /\ probe'.st # "none" => probe'.db \in Dbs
  BY DEF B!ConfirmDelete, B!CloseDrawer, B!DoDelete, B!OpenByName, B!ProbeServed, B!ProbeLands,
     B!Leave, B!Create,
         DbInv, DbTypes
<1>8. /\ create' \in [db : Dbs \union {None}, st : {"none", "put", "security", "failed", "done"}]
      /\ create'.st # "none" => create'.db \in Dbs
  BY DEF B!ConfirmDelete, B!CloseDrawer, B!DoDelete, B!OpenByName, B!ProbeServed, B!ProbeLands,
     B!Leave, B!Create,
         DbInv, DbTypes
<1> QED
  BY <1>1, <1>3, <1>4, <1>5, <1>6, <1>7, <1>8 DEF DbInv, DbTypes

\* What changes the server has changed it since the newest load was sent.
LEMMA DbServed ==
  ASSUME DbConstants, DbInv, B!DeleteServed \/ B!CreatePut \/ B!CreateSecurity \/ B!Elsewhere PROVE DbInv'
<1>1. /\ UNCHANGED <<search, order, timer, loads, latest, loading, shown, shownFor, denied, drawer, probe, left, opened>>
      /\ moved' \/ UNCHANGED <<moved, listable, existing>>
  BY DEF B!DeleteServed, B!CreatePut, B!CreateSecurity, B!Elsewhere, B!list, B!acts
<1>2. existing' \subseteq Dbs /\ secured' \subseteq existing'
  BY DEF B!DeleteServed, B!CreatePut, B!CreateSecurity, B!Elsewhere, DbInv, DbTypes
<1>3. listable' \in BOOLEAN
  BY Zenon DEF B!DeleteServed, B!CreatePut, B!CreateSecurity, B!Elsewhere, DbInv, DbFlags
<1>4. others' \in 0..MaxOthers
  BY DEF B!DeleteServed, B!CreatePut, B!CreateSecurity, B!Elsewhere, DbInv, DbTypes, DbConstants
<1>5. deleting' \in [db : Dbs \union {None}, st : {"none", "sent", "done", "failed"}]
  BY DEF B!DeleteServed, B!CreatePut, B!CreateSecurity, B!Elsewhere, B!acts, DbInv, DbTypes
<1>6. /\ create' \in [db : Dbs \union {None}, st : {"none", "put", "security", "failed", "done"}]
      /\ create'.st # "none" => create'.db \in Dbs
  BY DEF B!DeleteServed, B!CreatePut, B!CreateSecurity, B!Elsewhere, B!acts, DbInv, DbTypes
<1>7. DbFlags'
  BY <1>1, <1>3, Zenon DEF DbInv, DbFlags
<1>8. DbHidden' /\ NewestIsTrue' /\ NewestAsks' /\ ListAnswers'
  BY <1>1, DbKept
<1> QED
  BY <1>1, <1>2, <1>4, <1>5, <1>6, <1>7, <1>8 DEF DbInv, DbTypes

LEMMA DbDeleteLands == ASSUME DbConstants, DbInv, B!DeleteLands PROVE DbInv'
<1>1. /\ UNCHANGED <<existing, secured, listable, search, order, probe, left, opened, create, others>>
      /\ deleting' = [db |-> None, st |-> "none"]
  BY DEF B!DeleteLands, B!server
<1>2. CASE deleting.st = "done"
  <2>1. drawer' = None /\ timer' = FALSE /\ B!Load
    BY <1>2 DEF B!DeleteLands, B!ReloadNow
  <2>2. search' \in BOOLEAN /\ order' \in B!Orders
    BY <1>1 DEF DbInv, DbTypes, DbFlags
  <2>3. /\ latest' \in 1..MaxLoads /\ loads' \in [1..MaxLoads -> DbLoad]
        /\ \A n \in 1..MaxLoads : n > latest' => loads'[n] = B!NoLoad
        /\ NewestIsTrue' /\ NewestAsks' /\ ListAnswers' /\ DbHidden'
        /\ loading' \in BOOLEAN /\ denied' \in BOOLEAN /\ shown' \subseteq Dbs
    BY <2>1, <2>2, DbLoads
  <2>4. DbFlags'
    BY <1>1, <2>1, <2>3, Zenon DEF DbInv, DbFlags
  <2> QED
    BY <1>1, <2>1, <2>3, <2>4 DEF DbInv, DbTypes
<1>3. CASE deleting.st # "done"
  <2>1. UNCHANGED <<drawer, timer, loads, latest, loading, shown, shownFor, denied, moved>>
    BY <1>3 DEF B!DeleteLands, B!list
  <2>2. DbFlags' /\ DbHidden' /\ NewestIsTrue' /\ NewestAsks' /\ ListAnswers'
    BY <1>1, <2>1, DbKept
  <2> QED
    BY <1>1, <2>1, <2>2 DEF DbInv, DbTypes
<1> QED
  BY <1>2, <1>3

LEMMA DbInvariant == ASSUME DbConstants PROVE B!Spec => []DbInv
<1>1. B!Init => DbInv
  BY DbStarts
<1>2. ASSUME DbInv, [B!Next]_(B!vars) PROVE DbInv'
  <2>1. CASE UNCHANGED B!vars
    <3>1. DbFlags' /\ DbHidden' /\ NewestIsTrue' /\ NewestAsks' /\ ListAnswers'
      BY <1>2, <2>1, DbKept DEF B!vars
    <3> QED
      BY <1>2, <2>1, <3>1 DEF B!vars, DbInv, DbTypes
  <2>2. CASE B!Next
    BY <1>2, <2>2, DbSearch, DbAnswered, DbLands, DbDialogs, DbServed, DbDeleteLands DEF B!Next
  <2> QED
    BY <1>2, <2>1, <2>2
<1> QED
  BY <1>1, <1>2, PTL DEF B!Spec

\* With nothing in flight, the rows answer the search and the sort on the screen and are the
\* server's databases, or the screen says that the listing was refused or has failed, whichever
\* loads were overtaken (db-list.ts, _load and _loadSeq).
THEOREM DatabasesAreTheServers == ASSUME DbConstants PROVE B!Spec => [](B!TypeOK /\ B!SettledListIsTheServers)
<1>1. DbInv => B!TypeOK
  BY DbTypesType DEF DbInv
<1>2. ASSUME DbInv PROVE B!SettledListIsTheServers
  <2> SUFFICES ASSUME B!Settled
               PROVE  \/ denied /\ (~moved => ~listable)
                      \/ shownFor.by = "failed"
                      \/ /\ shownFor = B!Question(search, order)
                         /\ ~moved => (listable /\ shown = B!Filtered(search, existing))
    BY DEF B!SettledListIsTheServers
  <2>1. ~left /\ ~timer /\ Newest.st = "none"
    BY <1>2 DEF B!Settled, DbInv, DbTypes, Newest, B!NoLoad
  <2> QED
    BY <1>2, <2>1 DEF DbInv, ListAnswers
<1> QED
  BY <1>1, <1>2, DbInvariant, PTL

----------------------------------------------------------------------------
(* The overview of version control: any accounts and repositories, loads that overtake each  *)
(* other, and the dialogs and the drawer acting on its rows meanwhile.                       *)

O == INSTANCE RepoOverview

\* A token lives somewhere, and the first load is within the bounds.
OverviewConstants == AccountModes # {} /\ MaxLoads \in Nat \ {0} /\ MaxRequests \in Nat

OverviewModes == [Accounts -> AccountModes]
OverviewLoad == [st : {"none", "sent", "repos", "accounts", "answered"}, q : BOOLEAN, repos : SUBSET Repos,
                 accounts : SUBSET Accounts, modes : OverviewModes \union {<<>>}]
OverviewRequestOk(q) ==
  /\ q.st \in {"none", "sent", "done", "failed", "tokenRequired", "notLinked"} /\ q.mode \in AccountModes

OverviewTypes ==
  /\ accounts \subseteq Accounts /\ modes \in OverviewModes /\ targets \in [Repos -> SUBSET Dbs]
  /\ latest \in 1..MaxLoads /\ loads \in [1..MaxLoads -> OverviewLoad]
  /\ \A n \in 1..MaxLoads : n > latest => loads[n] = O!NoLoad
  /\ \A n \in 1..MaxLoads : loads[n].st \in {"accounts", "answered"} => loads[n].modes \in OverviewModes
OverviewFlags == filter \in BOOLEAN /\ timer \in BOOLEAN /\ loading \in BOOLEAN
OverviewRows ==
  /\ shownRepos \subseteq Repos /\ DOMAIN rows \subseteq Accounts /\ \A x \in DOMAIN rows : rows[x] \subseteq Repos
  /\ rowModes \in OverviewModes /\ shownFor \in {"nothing", "all", "matches", "failed"}
OverviewDrawers == [account : Accounts \union {None}, mode : AccountModes, needsToken : BOOLEAN, saving : BOOLEAN]
OverviewDrawer == drawer \in OverviewDrawers
OverviewRequests ==
  /\ requests = [s \in O!Slots |-> requests[s]] /\ \A s \in O!Slots : OverviewRequestOk(requests[s])

\* The newest load asks what is on the screen; once it has landed, the list answers that.
OverviewAsks == ~timer /\ loads[latest].st # "none" => loads[latest].q = filter
OverviewAnswers ==
  ~timer /\ loads[latest].st = "none" => shownFor \in {O!Answering(filter), "failed"}

OverviewInv ==
  /\ OverviewTypes /\ OverviewFlags /\ OverviewRows /\ OverviewDrawer /\ OverviewRequests
  /\ OverviewAsks /\ OverviewAnswers

LEMMA OverviewTypesType == OverviewInv => O!TypeOK /\ O!SettledListMatchesFilter
<1> SUFFICES ASSUME OverviewInv PROVE O!TypeOK /\ O!SettledListMatchesFilter
  OBVIOUS
<1>1. latest \in 0..MaxLoads /\ latest \in 1..MaxLoads /\ \A n \in 1..MaxLoads : n > latest => loads[n] = O!NoLoad
  BY DEF OverviewInv, OverviewTypes
<1>2. \A s \in O!Slots : requests[s].st \in {"none", "sent", "done", "failed", "tokenRequired", "notLinked"}
  BY DEF OverviewInv, OverviewRequests, OverviewRequestOk
<1>3. drawer.account \in Accounts \union {None}
  BY DEF OverviewInv, OverviewDrawer, OverviewDrawers
<1>4. O!TypeOK
  BY <1>1, <1>2, <1>3, Zenon DEF O!TypeOK, OverviewInv, OverviewTypes, OverviewFlags, OverviewRows,
     OverviewModes
<1>5. ASSUME O!Settled PROVE loads[latest].st = "none" /\ ~timer
  BY <1>1, <1>5 DEF O!Settled, O!NoLoad
<1>6. O!SettledListMatchesFilter
  BY <1>5 DEF O!SettledListMatchesFilter, OverviewInv, OverviewAnswers
<1> QED
  BY <1>4, <1>6

LEMMA OverviewClosed ==
  ASSUME OverviewConstants
  PROVE  /\ O!Closed \in [account : {None}, mode : AccountModes, needsToken : BOOLEAN, saving : BOOLEAN]
         /\ O!Closed.mode \in AccountModes
<1>1. (CHOOSE m \in AccountModes : TRUE) \in AccountModes
  BY Zenon DEF OverviewConstants
<1> DEFINE some == CHOOSE m \in AccountModes : TRUE
<1>2. some \in AccountModes /\ O!Closed = [account |-> None, mode |-> some, needsToken |-> FALSE, saving |-> FALSE]
  BY <1>1 DEF O!Closed
<1> HIDE DEF some
<1> QED
  BY <1>2

LEMMA OverviewStarts == ASSUME OverviewConstants PROVE O!Init => OverviewInv
<1> SUFFICES ASSUME O!Init PROVE OverviewInv
  OBVIOUS
<1> DEFINE first == [O!NoLoad EXCEPT !.st = "sent"]
<1>1. O!NoLoad \in OverviewLoad /\ first \in OverviewLoad /\ O!NoLoad.st = "none" /\ first.st = "sent"
  BY DEF O!NoLoad, OverviewLoad
<1>2. first.q = FALSE
  BY DEF O!NoLoad
<1>3. 1 \in 1..MaxLoads /\ latest = 1 /\ loads = [n \in 1..MaxLoads |-> IF n = 1 THEN first ELSE O!NoLoad]
  BY DEF O!Init, OverviewConstants
<1> HIDE DEF first
<1>4. /\ loads \in [1..MaxLoads -> OverviewLoad] /\ loads[1] = first
      /\ \A n \in 1..MaxLoads : n > 1 => loads[n] = O!NoLoad
      /\ \A n \in 1..MaxLoads : loads[n].st \in {"none", "sent"}
  BY <1>1, <1>3
<1>5. OverviewTypes
  BY <1>3, <1>4 DEF O!Init, OverviewTypes, OverviewModes
<1>6. OverviewFlags
  BY Zenon DEF O!Init, OverviewFlags
<1>7. OverviewRows
  BY DEF O!Init, OverviewRows, OverviewModes
<1>8. OverviewDrawer
  BY OverviewClosed DEF O!Init, OverviewDrawer, OverviewDrawers
<1>9. OverviewRequests
  <2>1. O!NoRequest.st = "none" /\ O!NoRequest.mode \in AccountModes
    BY OverviewClosed DEF O!NoRequest
  <2> QED
    BY <2>1 DEF O!Init, OverviewRequests, OverviewRequestOk
<1>10. OverviewAsks /\ OverviewAnswers
  <2>1. loads[latest].st = "sent" /\ loads[latest].q = FALSE /\ filter = FALSE
    BY <1>1, <1>2, <1>3, <1>4 DEF O!Init
  <2> QED
    BY <2>1 DEF OverviewAsks, OverviewAnswers
<1> QED
  BY <1>5, <1>6, <1>7, <1>8, <1>9, <1>10 DEF OverviewInv

\* What an action keeps, because it leaves alone what the part is about.
LEMMA OverviewKept ==
  ASSUME OverviewInv
  PROVE  /\ UNCHANGED <<accounts, modes, targets, loads, latest>> => OverviewTypes'
         /\ UNCHANGED <<filter, timer, loading>> => OverviewFlags'
         /\ UNCHANGED <<shownRepos, rows, rowModes, shownFor>> => OverviewRows'
         /\ UNCHANGED drawer => OverviewDrawer'
         /\ UNCHANGED requests => OverviewRequests'
         /\ UNCHANGED <<loads, latest>> /\ (timer' \/ UNCHANGED <<timer, filter>>) => OverviewAsks'
         /\ UNCHANGED <<loads, latest>> /\ (timer' \/ UNCHANGED <<timer, filter, shownFor>>) => OverviewAnswers'
<1>1. UNCHANGED <<accounts, modes, targets, loads, latest>> => OverviewTypes'
  BY DEF OverviewInv, OverviewTypes
<1>2. UNCHANGED <<filter, timer, loading>> => OverviewFlags'
  BY Zenon DEF OverviewInv, OverviewFlags
<1>3. UNCHANGED <<shownRepos, rows, rowModes, shownFor>> => OverviewRows'
  BY DEF OverviewInv, OverviewRows
<1>4. UNCHANGED drawer => OverviewDrawer'
  BY DEF OverviewInv, OverviewDrawer, OverviewDrawers
<1>5. UNCHANGED requests => OverviewRequests'
  BY DEF OverviewInv, OverviewRequests
<1>6. UNCHANGED <<loads, latest>> /\ (timer' \/ UNCHANGED <<timer, filter>>) => OverviewAsks'
  BY DEF OverviewInv, OverviewAsks
<1>7. UNCHANGED <<loads, latest>> /\ (timer' \/ UNCHANGED <<timer, filter, shownFor>>) => OverviewAnswers'
  <2> SUFFICES ASSUME UNCHANGED <<loads, latest>>, timer' \/ UNCHANGED <<timer, filter, shownFor>> PROVE OverviewAnswers'
    OBVIOUS
  <2>1. CASE timer'
    BY <2>1 DEF OverviewAnswers
  <2>2. CASE UNCHANGED <<timer, filter, shownFor>>
    BY <2>2 DEF OverviewInv, OverviewAnswers, O!Answering
  <2> QED
    BY <2>1, <2>2
<1> QED
  BY <1>1, <1>2, <1>3, <1>4, <1>5, <1>6, <1>7

\* A load asks what is in the search box, and the list says nothing of it until it has landed.
LEMMA OverviewLoads ==
  ASSUME OverviewConstants, OverviewInv, O!Load, filter' \in BOOLEAN, UNCHANGED <<accounts, modes, targets>>
  PROVE  OverviewTypes' /\ OverviewRows' /\ OverviewAsks' /\ OverviewAnswers' /\ loading' = TRUE
<1> DEFINE new == [O!NoLoad EXCEPT !.st = "sent", !.q = filter']
<1>1. /\ latest \in 1..MaxLoads /\ latest + 1 \in 1..MaxLoads /\ latest' = latest + 1
      /\ loads' = [loads EXCEPT ![latest + 1] = new] /\ UNCHANGED <<shownRepos, rows, rowModes, shownFor>>
  BY DEF O!Load, OverviewInv, OverviewTypes, OverviewConstants
<1>2. new \in OverviewLoad /\ new.st = "sent" /\ new.q = filter'
  BY DEF O!NoLoad, OverviewLoad
<1> HIDE DEF new
<1>3. /\ loads' \in [1..MaxLoads -> OverviewLoad] /\ loads'[latest'] = new
      /\ \A n \in 1..MaxLoads : n > latest' => loads'[n] = O!NoLoad
      /\ \A n \in 1..MaxLoads : loads'[n] = new \/ loads'[n] = loads[n]
  BY <1>1, <1>2 DEF OverviewInv, OverviewTypes
<1>4. OverviewTypes'
  BY <1>1, <1>2, <1>3 DEF OverviewInv, OverviewTypes
<1>5. OverviewRows'
  BY <1>1, OverviewKept
<1>6. OverviewAsks' /\ OverviewAnswers'
  BY <1>2, <1>3 DEF OverviewAsks, OverviewAnswers
<1>7. loading' = TRUE
  BY DEF O!Load
<1> QED
  BY <1>4, <1>5, <1>6, <1>7

\* The search box, the debounce, the clear button and Refresh.
LEMMA OverviewSearch ==
  ASSUME OverviewConstants, OverviewInv, O!Search \/ O!Debounced \/ O!ReloadNow PROVE OverviewInv'
<1>1. UNCHANGED <<accounts, modes, targets, dialog, drawer, requests>>
  BY DEF O!Search, O!Debounced, O!ReloadNow, O!service
<1>2. filter' \in BOOLEAN /\ timer' \in BOOLEAN
  BY Zenon DEF O!Search, O!Debounced, O!ReloadNow, OverviewInv, OverviewFlags
<1>3. CASE O!Search
  <2>1. timer' = TRUE /\ UNCHANGED <<loads, latest, loading, shownRepos, rows, rowModes, shownFor>>
    BY <1>3 DEF O!Search, O!list
  <2>2. OverviewFlags'
    BY <1>2, <2>1, Zenon DEF OverviewInv, OverviewFlags
  <2> QED
    BY <1>1, <2>1, <2>2, OverviewKept DEF OverviewInv
<1>4. CASE ~O!Search
  <2>1. O!Load
    BY <1>4 DEF O!Debounced, O!ReloadNow
  <2>2. OverviewTypes' /\ OverviewRows' /\ OverviewAsks' /\ OverviewAnswers' /\ loading' = TRUE
    BY <1>1, <1>2, <2>1, OverviewLoads
  <2>3. OverviewFlags'
    BY <1>2, <2>2, Zenon DEF OverviewFlags
  <2> QED
    BY <1>1, <2>2, <2>3, OverviewKept DEF OverviewInv
<1> QED
  BY <1>3, <1>4

\* The two answers of a load.
LEMMA OverviewAnswered ==
  ASSUME OverviewConstants, OverviewInv, NEW n \in 1..MaxLoads, O!Answer(n) PROVE OverviewInv'
<1> DEFINE withRepos == [loads[n] EXCEPT !.repos = O!Found(loads[n].q), !.st = IF loads[n].st = "sent" THEN "repos" ELSE "answered"]
           owned == [loads[n] EXCEPT !.accounts = accounts, !.modes = modes,
                                     !.st = IF loads[n].st = "sent" THEN "accounts" ELSE "answered"]
<1>1. loads[n] \in OverviewLoad
  BY DEF OverviewInv, OverviewTypes
<1>2. /\ UNCHANGED <<accounts, modes, targets, filter, timer, latest, loading, shownRepos, rows, rowModes, shownFor, drawer, requests>>
      /\ \/ loads[n].st \in {"sent", "accounts"} /\ loads' = [loads EXCEPT ![n] = withRepos]
         \/ loads[n].st \in {"sent", "repos"} /\ loads' = [loads EXCEPT ![n] = owned]
  BY <1>1 DEF O!Answer, O!service, OverviewInv, OverviewTypes, OverviewLoad
<1>3. loads[n].st \in {"sent", "accounts"} =>
        /\ withRepos \in OverviewLoad /\ withRepos.q = loads[n].q /\ withRepos.st # "none"
        /\ withRepos.st \in {"accounts", "answered"} => withRepos.modes \in OverviewModes
  <2>1. O!Found(loads[n].q) \in SUBSET Repos
    BY DEF O!Found, O!Registered
  <2>2. loads[n].st = "accounts" => loads[n].modes \in OverviewModes
    BY DEF OverviewInv, OverviewTypes
  <2> HIDE DEF O!Found
  <2> QED
    BY <1>1, <2>1, <2>2 DEF OverviewLoad
<1>4. /\ owned \in OverviewLoad /\ owned.q = loads[n].q /\ owned.st # "none"
      /\ owned.st \in {"accounts", "answered"} => owned.modes \in OverviewModes
  <2>1. accounts \in SUBSET Accounts /\ modes \in OverviewModes
    BY DEF OverviewInv, OverviewTypes
  <2> QED
    BY <1>1, <2>1 DEF OverviewLoad
<1> HIDE DEF withRepos, owned
<1>5. PICK m \in OverviewLoad :
        /\ loads' = [loads EXCEPT ![n] = m] /\ m.q = loads[n].q /\ m.st # "none" /\ loads[n].st # "none"
        /\ m.st \in {"accounts", "answered"} => m.modes \in OverviewModes
  BY <1>2, <1>3, <1>4
<1>6. n <= latest
  BY <1>5 DEF OverviewInv, OverviewTypes, O!NoLoad
<1>7. /\ loads' \in [1..MaxLoads -> OverviewLoad]
      /\ \A k \in 1..MaxLoads : loads'[k] = IF k = n THEN m ELSE loads[k]
  BY <1>5 DEF OverviewInv, OverviewTypes
<1>8. OverviewTypes'
  BY <1>2, <1>5, <1>6, <1>7 DEF OverviewInv, OverviewTypes
<1>9. OverviewAsks' /\ OverviewAnswers'
  <2>1. loads'[latest'].q = loads[latest].q /\ (loads'[latest'].st = "none" <=> loads[latest].st = "none")
    BY <1>2, <1>5, <1>7 DEF OverviewInv, OverviewTypes
  <2> QED
    BY <1>2, <2>1, Zenon DEF OverviewInv, OverviewAsks, OverviewAnswers, O!Answering
<1> QED
  BY <1>2, <1>8, <1>9, OverviewKept DEF OverviewInv

\* Only the newest load touches the screen.
LEMMA OverviewLanded ==
  ASSUME OverviewConstants, OverviewInv, NEW n \in 1..MaxLoads, O!Land(n) PROVE OverviewInv'
<1>1. loads[n] \in OverviewLoad /\ loads[n].st \in {"repos", "accounts", "answered"}
  BY DEF O!Land, OverviewInv, OverviewTypes
<1>2. /\ UNCHANGED <<accounts, modes, targets, filter, timer, latest, dialog, drawer, requests>>
      /\ loads' = [loads EXCEPT ![n] = O!NoLoad]
  BY DEF O!Land, O!service
<1>3. O!NoLoad \in OverviewLoad /\ O!NoLoad.st = "none"
  BY DEF O!NoLoad, OverviewLoad
<1>4. loads' \in [1..MaxLoads -> OverviewLoad] /\ \A k \in 1..MaxLoads : loads'[k] = IF k = n THEN O!NoLoad ELSE loads[k]
  BY <1>2, <1>3 DEF OverviewInv, OverviewTypes
<1>5. OverviewTypes'
  BY <1>2, <1>3, <1>4 DEF OverviewInv, OverviewTypes
<1>6. CASE n # latest
  <2>1. UNCHANGED <<loading, shownRepos, rows, rowModes, shownFor>>
    BY <1>6 DEF O!Land, O!Newest
  <2>2. loads'[latest'] = loads[latest]
    BY <1>2, <1>4, <1>6 DEF OverviewInv, OverviewTypes
  <2>3. OverviewAsks' /\ OverviewAnswers'
    BY <1>2, <2>1, <2>2, Zenon DEF OverviewInv, OverviewAsks, OverviewAnswers, O!Answering
  <2> QED
    BY <1>2, <1>5, <2>1, <2>3, OverviewKept DEF OverviewInv
<1>7. CASE n = latest
  <2>1. loads'[latest'].st = "none" /\ loading' = FALSE
    BY <1>2, <1>3, <1>4, <1>7 DEF O!Land, O!Newest, OverviewInv, OverviewTypes
  <2>2. OverviewAsks'
    BY <2>1 DEF OverviewAsks
  <2>3. OverviewFlags'
    BY <1>2, <2>1, Zenon DEF OverviewInv, OverviewFlags
  <2>4. CASE loads[n].st = "accounts"
    <3>1. shownFor' = "failed" /\ UNCHANGED <<shownRepos, rows, rowModes>>
      BY <1>7, <2>4 DEF O!Land, O!Newest
    <3>2. OverviewRows' /\ OverviewAnswers'
      BY <3>1 DEF OverviewInv, OverviewRows, OverviewAnswers
    <3> QED
      BY <1>2, <1>5, <2>2, <2>3, <3>2, OverviewKept DEF OverviewInv
  <2>5. CASE loads[n].st # "accounts"
    <3>1. /\ shownRepos' = loads[n].repos /\ shownFor' = O!Answering(loads[n].q)
          /\ rows' = [x \in loads[n].accounts |-> {r \in loads[n].repos : Owner[r] = x}]
          /\ rowModes' = IF loads[n].st = "repos" THEN rowModes ELSE loads[n].modes
      BY <1>7, <2>5 DEF O!Land, O!Newest
    <3>2. rowModes' \in OverviewModes
      BY <1>1, <2>5, <3>1 DEF OverviewInv, OverviewTypes, OverviewRows
    <3>3. loads[n].repos \subseteq Repos /\ loads[n].accounts \subseteq Accounts
      BY <1>1 DEF OverviewLoad
    <3>4. DOMAIN rows' \subseteq Accounts /\ \A x \in DOMAIN rows' : rows'[x] \subseteq Repos
      BY <3>1, <3>3
    <3>5. shownFor' \in {"all", "matches"}
      BY <3>1 DEF O!Answering
    <3>6. OverviewRows'
      BY <3>1, <3>2, <3>3, <3>4, <3>5 DEF OverviewRows
    <3>7. timer' \/ loads[n].q = filter'
      BY <1>1, <1>2, <1>7 DEF OverviewInv, OverviewAsks
    <3>8. OverviewAnswers'
      BY <1>2, <3>1, <3>7, Zenon DEF OverviewAnswers, O!Answering
    <3> QED
      BY <1>2, <1>5, <2>2, <2>3, <3>6, <3>8, OverviewKept DEF OverviewInv
  <2> QED
    BY <2>4, <2>5
<1> QED
  BY <1>6, <1>7

\* The dialogs and the drawer leave the list and its loads alone, until a request has been answered.
LEMMA OverviewAsked ==
  ASSUME OverviewConstants, OverviewInv,
         O!ConfirmDeleteAccount \/ O!ConfirmDeleteRepo \/ O!ConfirmUnlink \/ O!Cancel \/ O!OpenDrawer
           \/ O!ChooseMode \/ O!CloseDrawer
  PROVE  OverviewInv'
<1>1. UNCHANGED <<accounts, modes, targets, filter, timer, loads, latest, loading, shownRepos, rows, rowModes, shownFor, requests>>
  BY DEF O!ConfirmDeleteAccount, O!ConfirmDeleteRepo, O!ConfirmUnlink, O!Cancel, O!OpenDrawer,
     O!ChooseMode, O!CloseDrawer,
         O!Ask, O!service, O!list
<1>2. OverviewDrawer'
  <2>1. CASE O!ConfirmDeleteAccount \/ O!ConfirmDeleteRepo \/ O!ConfirmUnlink \/ O!Cancel
    <3>1. UNCHANGED drawer
      BY <2>1 DEF O!ConfirmDeleteAccount, O!ConfirmDeleteRepo, O!ConfirmUnlink, O!Cancel, O!Ask
    <3> QED
      BY <3>1, OverviewKept
  <2>2. CASE O!OpenDrawer
    <3>1. PICK x \in DOMAIN rows : drawer' = [account |-> x, mode |-> rowModes[x], needsToken |-> FALSE, saving |-> FALSE]
      BY <2>2 DEF O!OpenDrawer
    <3>2. x \in Accounts /\ rowModes[x] \in AccountModes
      BY DEF OverviewInv, OverviewRows, OverviewModes
    <3> QED
      BY <3>1, <3>2 DEF OverviewDrawer, OverviewDrawers
  <2>3. CASE O!ChooseMode
    <3>1. PICK m \in AccountModes : drawer' = [drawer EXCEPT !.mode = m]
      BY <2>3 DEF O!ChooseMode
    <3> QED
      BY <3>1 DEF OverviewInv, OverviewDrawer, OverviewDrawers
  <2>4. CASE O!CloseDrawer
    BY <2>4, OverviewClosed DEF O!CloseDrawer, OverviewDrawer, OverviewDrawers
  <2> QED
    BY <2>1, <2>2, <2>3, <2>4
<1> QED
  BY <1>1, <1>2, OverviewKept DEF OverviewInv

LEMMA OverviewSends ==
  ASSUME OverviewConstants, OverviewInv, NEW q, OverviewRequestOk(q), O!Send(q) PROVE OverviewRequests'
  BY DEF O!Send, OverviewInv, OverviewRequests

\* A request is sent by a confirmation or by Save.
LEMMA OverviewSent ==
  ASSUME OverviewConstants, OverviewInv, O!Confirm \/ \E s \in O!Slots, b \in BOOLEAN : O!Save(s, b) PROVE OverviewInv'
<1>1. UNCHANGED <<accounts, modes, targets, filter, timer, loads, latest, loading, shownRepos, rows, rowModes, shownFor>>
  BY DEF O!Confirm, O!Save, O!service, O!list
<1>2. OverviewRequests' /\ OverviewDrawer'
  <2>1. CASE O!Confirm
    <3> DEFINE q == [O!NoRequest EXCEPT !.kind = dialog.kind, !.of = dialog.of, !.db = dialog.db, !.st = "sent"]
    <3>1. O!Send(q) /\ UNCHANGED drawer
      BY <2>1 DEF O!Confirm
    <3>2. OverviewRequestOk(q)
      BY OverviewClosed DEF O!NoRequest, OverviewRequestOk
    <3> HIDE DEF q
    <3> QED
      BY <3>1, <3>2, OverviewSends, OverviewKept
  <2>2. ASSUME NEW s \in O!Slots, NEW b \in BOOLEAN, O!Save(s, b) PROVE OverviewRequests' /\ OverviewDrawer'
    <3> DEFINE q == [O!NoRequest EXCEPT !.kind = IF b THEN "rename" ELSE "move",
                       !.of = drawer.account, !.mode = drawer.mode, !.st = "sent"]
    <3>1. OverviewRequestOk(q)
      BY DEF O!NoRequest, OverviewRequestOk, OverviewInv, OverviewDrawer, OverviewDrawers
    <3>2. \/ O!Send(q) /\ drawer' = [drawer EXCEPT !.saving = TRUE]
          \/ drawer' = O!Closed /\ UNCHANGED requests
      BY <2>2 DEF O!Save
    <3> HIDE DEF q
    <3>3. CASE O!Send(q) /\ drawer' = [drawer EXCEPT !.saving = TRUE]
      <4>1. drawer'.account = drawer.account /\ drawer'.mode = drawer.mode
        BY <3>3
      <4> QED
        BY <3>1, <3>3, <4>1, OverviewSends DEF OverviewInv, OverviewDrawer, OverviewDrawers
    <3>4. CASE drawer' = O!Closed /\ UNCHANGED requests
      BY <3>4, OverviewClosed, OverviewKept DEF OverviewDrawer, OverviewDrawers
    <3> QED
      BY <3>2, <3>3, <3>4
  <2> QED
    BY <2>1, <2>2
<1> QED
  BY <1>1, <1>2, OverviewKept DEF OverviewInv

\* The service carries a request out.
LEMMA OverviewCarried ==
  ASSUME OverviewConstants, OverviewInv, NEW s \in O!Slots, O!Carry(s) PROVE OverviewInv'
<1>1. UNCHANGED <<filter, timer, loads, latest, loading, shownRepos, rows, rowModes, shownFor, dialog, drawer>>
  BY DEF O!Carry, O!list
<1>2. PICK st \in {"done", "failed", "tokenRequired", "notLinked"} : O!Done(s, st)
  BY DEF O!Carry
<1>3. OverviewRequests'
  <2>1. requests' = [requests EXCEPT ![s] = [requests[s] EXCEPT !.st = st]]
    BY <1>2 DEF O!Done
  <2>2. OverviewRequestOk([requests[s] EXCEPT !.st = st])
    BY DEF OverviewRequestOk, OverviewInv, OverviewRequests
  <2> QED
    BY <2>1, <2>2 DEF OverviewInv, OverviewRequests
<1>4. accounts' \subseteq Accounts /\ modes' \in OverviewModes /\ targets' \in [Repos -> SUBSET Dbs]
  <2>1. requests[s].mode \in AccountModes
    BY DEF OverviewInv, OverviewRequests, OverviewRequestOk
  <2>2. \/ accounts' = accounts \/ accounts' = accounts \ {requests[s].of}
    BY DEF O!Carry, O!service
  <2>3. modes' = modes \/ modes' = [modes EXCEPT ![requests[s].of] = requests[s].mode]
    BY DEF O!Carry, O!service
  <2>4. \/ targets' = targets \/ targets' = [targets EXCEPT ![requests[s].of] = {}]
        \/ targets' = [targets EXCEPT ![requests[s].of] = @ \ {requests[s].db}]
    BY DEF O!Carry, O!service
  <2> QED
    BY <2>1, <2>2, <2>3, <2>4 DEF OverviewInv, OverviewTypes, OverviewModes
<1>5. OverviewTypes'
  BY <1>1, <1>4 DEF OverviewInv, OverviewTypes
<1> QED
  BY <1>1, <1>3, <1>5, OverviewKept DEF OverviewInv

LEMMA OverviewDrops ==
  ASSUME OverviewConstants, OverviewInv, NEW s \in O!Slots, O!Drop(s) PROVE OverviewRequests'
<1>1. OverviewRequestOk([O!NoRequest EXCEPT !.kind = "over"])
  BY OverviewClosed DEF O!NoRequest, OverviewRequestOk
<1> QED
  BY <1>1 DEF O!Drop, OverviewInv, OverviewRequests

\* The answer of a request takes rows off the list, or changes where a row says its token lives.
LEMMA OverviewOver ==
  ASSUME OverviewConstants, OverviewInv, NEW s \in O!Slots, O!LandDialog(s) \/ O!LandSave(s) PROVE OverviewInv'
<1>1. UNCHANGED <<accounts, modes, targets, filter, timer, loads, latest, loading, shownFor>>
  BY DEF O!LandDialog, O!LandSave, O!service
<1>2. CASE O!LandDialog(s)
  <2>1. O!Drop(s) /\ UNCHANGED <<rowModes, drawer>>
    BY <1>2 DEF O!LandDialog
  <2>2. /\ shownRepos' \subseteq shownRepos /\ DOMAIN rows' \subseteq DOMAIN rows
        /\ \A x \in DOMAIN rows' : rows'[x] \subseteq rows[x]
    BY <1>2 DEF O!LandDialog
  <2>3. OverviewRows'
    BY <1>1, <2>1, <2>2 DEF OverviewInv, OverviewRows
  <2> QED
    BY <1>1, <2>1, <2>3, OverviewDrops, OverviewKept DEF OverviewInv
<1>3. CASE O!LandSave(s)
  <2>1. UNCHANGED <<shownRepos, rows, dialog>>
    BY <1>3 DEF O!LandSave
  <2>2. requests[s].mode \in AccountModes /\ drawer.mode \in AccountModes
    BY DEF OverviewInv, OverviewRequests, OverviewRequestOk, OverviewDrawer, OverviewDrawers
  <2>3. rowModes' = rowModes \/ rowModes' = [rowModes EXCEPT ![requests[s].of] = requests[s].mode]
    BY <1>3 DEF O!LandSave
  <2>4. OverviewRows'
    BY <1>1, <2>1, <2>2, <2>3 DEF OverviewInv, OverviewRows, OverviewModes
  <2>5. \/ drawer' \in {drawer, O!Closed, [drawer EXCEPT !.saving = FALSE]}
        \/ drawer' = [drawer EXCEPT !.needsToken = TRUE, !.saving = FALSE]
    BY <1>3 DEF O!LandSave
  <2>6. OverviewDrawer'
    <3>1. /\ [drawer EXCEPT !.saving = FALSE] \in OverviewDrawers
          /\ [drawer EXCEPT !.needsToken = TRUE, !.saving = FALSE] \in OverviewDrawers
      BY DEF OverviewInv, OverviewDrawer, OverviewDrawers
    <3> QED
      BY <2>5, <3>1, OverviewClosed DEF OverviewInv, OverviewDrawer, OverviewDrawers
  <2>7. \/ O!Drop(s)
        \/ requests' = [requests EXCEPT ![s] = [requests[s] EXCEPT !.kind = "move", !.mode = drawer.mode, !.st = "sent"]]
    BY <1>3 DEF O!LandSave
  <2>8. OverviewRequestOk([requests[s] EXCEPT !.kind = "move", !.mode = drawer.mode, !.st = "sent"])
    BY <2>2 DEF OverviewInv, OverviewRequests, OverviewRequestOk
  <2>9. OverviewRequests'
    BY <2>7, <2>8, OverviewDrops DEF OverviewInv, OverviewRequests
  <2> QED
    BY <1>1, <2>4, <2>6, <2>9, OverviewKept DEF OverviewInv
<1> QED
  BY <1>2, <1>3

LEMMA OverviewStep == ASSUME OverviewConstants, OverviewInv, [O!Next]_(O!vars) PROVE OverviewInv'
<1>1. CASE UNCHANGED O!vars
  BY <1>1, OverviewKept DEF O!vars, OverviewInv
<1>2. CASE O!Next
  BY <1>2, OverviewSearch, OverviewAnswered, OverviewLanded, OverviewAsked, OverviewSent,
     OverviewCarried, OverviewOver
     DEF O!Next
<1> QED
  BY <1>1, <1>2

\* Once nothing is loading and no keystroke waits, the list of accounts and repositories answers
\* the search box, in whatever order the loads came back (_fetchAll, _loadSeq).
THEOREM OverviewIsTheSearch == ASSUME OverviewConstants PROVE O!Spec => [](O!TypeOK /\ O!SettledListMatchesFilter)
<1>1. O!Init => OverviewInv
  BY OverviewStarts
<1>2. OverviewInv /\ [O!Next]_(O!vars) => OverviewInv'
  BY OverviewStep
<1>3. OverviewInv => O!TypeOK /\ O!SettledListMatchesFilter
  BY OverviewTypesType
<1> QED
  BY <1>1, <1>2, <1>3, PTL DEF O!Spec

----------------------------------------------------------------------------
(* The users: any users, passwords and changes by others, on the form and on the Source tab.   *)

U == INSTANCE Users

\* The mask of the Source tab is nobody's password.
UserConstants == Passwords # {} /\ Mask \notin Passwords \union {None}

IsUser(u) == u = [rev |-> u.rev, live |-> u.live, roles |-> u.roles, pass |-> u.pass] /\ u.pass # Mask
UserTypes ==
  /\ users = [i \in U!Ids |-> users[i]] /\ \A i \in U!Ids : IsUser(users[i])
  /\ form = [create |-> form.create, original |-> form.original, roles |-> form.roles, pw |-> form.pw,
             pw2 |-> form.pw2, staged |-> form.staged, loading |-> form.loading]
  /\ form.pw # Mask /\ form.staged # Mask
  /\ raw # None => raw = [id |-> raw.id, roles |-> raw.roles, password |-> raw.password, rev |-> raw.rev]

\* The mask stays on the tab.
UserPut == put # None => put.doc.password # Mask

UserInv == UserTypes /\ UserPut

LEMMA UserBlanks ==
  ASSUME UserConstants
  PROVE  /\ IsUser(U!Nobody) /\ IsUser(U!Another)
         /\ \A anew : /\ U!Blank(anew).pw # Mask /\ U!Blank(anew).staged # Mask
                        /\ U!Blank(anew) = [create |-> anew, original |-> None, roles |-> {}, pw |-> None,
                                              pw2 |-> None, staged |-> None, loading |-> ~anew]
<1>1. U!Some \in Passwords
  BY Zenon DEF U!Some, UserConstants
<1> QED
  BY <1>1 DEF U!Nobody, U!Another, U!Blank, IsUser, UserConstants

LEMMA UserStarts == ASSUME UserConstants PROVE U!Init => UserInv
<1> SUFFICES ASSUME U!Init PROVE UserInv
  OBVIOUS
<1>1. PICK S \in SUBSET (1..MaxId - 1) : users = [i \in U!Ids |-> IF i \in S THEN U!Another ELSE U!Nobody]
  BY DEF U!Init
<1>2. users = [i \in U!Ids |-> users[i]] /\ \A i \in U!Ids : IsUser(users[i])
  BY <1>1, UserBlanks
<1>3. form = U!Blank(TRUE) /\ raw = None /\ put = None
  BY DEF U!Init
<1>4. /\ form.pw # Mask /\ form.staged # Mask
      /\ form = [create |-> form.create, original |-> form.original, roles |-> form.roles, pw |-> form.pw,
                 pw2 |-> form.pw2, staged |-> form.staged, loading |-> form.loading]
  BY <1>3 DEF U!Blank, UserConstants
<1>5. UserTypes
  BY <1>2, <1>3, <1>4, Zenon DEF UserTypes
<1> QED
  BY <1>3, <1>5 DEF UserInv, UserPut

\* What is known of one user's document, form and Source tab.
LEMMA UserKept ==
  ASSUME UserInv, UNCHANGED put,
         users' = users \/ \E i, u : IsUser(u) /\ users' = [users EXCEPT ![i] = u],
         UNCHANGED <<form, raw>> \/ (raw' = None /\ \E anew : form' = U!Blank(anew)), UserConstants
  PROVE  UserInv'
<1>1. users' = [i \in U!Ids |-> users'[i]] /\ \A i \in U!Ids : IsUser(users'[i])
  BY DEF UserInv, UserTypes
<1>2. CASE UNCHANGED <<form, raw>>
  BY <1>1, <1>2 DEF UserInv, UserTypes, UserPut, IsUser
<1>3. CASE raw' = None /\ \E anew : form' = U!Blank(anew)
  BY <1>1, <1>3, UserBlanks DEF UserInv, UserTypes, UserPut, IsUser
<1> QED
  BY <1>2, <1>3

LEMMA UserListed ==
  ASSUME UserConstants, UserInv,
         \/ \E i \in U!Ids : U!Elsewhere(i) \/ U!OpenUser(i) \/ U!NewUser(i)
         \/ \E n \in DOMAIN listed : U!AskDelete(listed[n].id)
         \/ U!ReadPage \/ U!LoadFails \/ U!CancelDelete \/ U!ConfirmDelete \/ U!Deleted \/ U!NotDeleted
         \/ U!Cancel
  PROVE  UserInv'
<1>1. ASSUME NEW i \in U!Ids, U!Elsewhere(i) PROVE UserInv'
  <2>1. PICK u : /\ u \in IF users[i].live THEN {[users[i] EXCEPT !.roles = r] : r \in SUBSET Roles} \union {U!Nobody}
                                            ELSE {U!Another}
                 /\ users' = [users EXCEPT ![i] = [u EXCEPT !.rev = users[i].rev + 1]]
    BY <1>1 DEF U!Elsewhere
  <2>2. IsUser(u)
    BY <1>1, <2>1, UserBlanks DEF UserInv, UserTypes, IsUser
  <2>3. IsUser([u EXCEPT !.rev = users[i].rev + 1])
    BY <2>2 DEF IsUser
  <2>4. UNCHANGED <<form, raw, put>>
    BY <1>1 DEF U!Elsewhere, U!detail
  <2> QED
    BY <2>1, <2>3, <2>4, UserKept
<1>2. ASSUME NEW i \in U!Ids, U!OpenUser(i) \/ U!NewUser(i) PROVE UserInv'
  <2>1. UNCHANGED <<users, put>> /\ raw' = None /\ \E anew : form' = U!Blank(anew)
    BY <1>2 DEF U!OpenUser, U!NewUser, U!Visit
  <2> QED
    BY <2>1, UserKept
<1>3. CASE U!Cancel
  <2>1. UNCHANGED <<users, put>> /\ raw' = None /\ \E anew : form' = U!Blank(anew)
    BY <1>3 DEF U!Cancel, U!Leave
  <2> QED
    BY <2>1, UserKept
<1>4. CASE U!Deleted
  <2>1. UNCHANGED <<form, raw, put>> /\ \E r : users' = [users EXCEPT ![deletion.id] = [U!Nobody EXCEPT !.rev = r]]
    BY <1>4 DEF U!Deleted, U!detail
  <2>2. \A r : IsUser([U!Nobody EXCEPT !.rev = r])
    <3>1. ASSUME NEW r PROVE IsUser([U!Nobody EXCEPT !.rev = r])
      <4>1. \A u : IsUser(u) => IsUser([u EXCEPT !.rev = r])
        BY DEF IsUser
      <4> QED
        BY <4>1, UserBlanks
    <3> QED
      BY <3>1
  <2> QED
    BY <2>1, <2>2, UserKept
<1>5. CASE U!ReadPage \/ U!LoadFails \/ U!CancelDelete \/ U!ConfirmDelete \/ U!NotDeleted \/ \E n \in DOMAIN listed : U!AskDelete(listed[n].id)
  <2>1. UNCHANGED <<users, form, raw, put>>
    BY <1>5 DEF U!ReadPage, U!LoadFails, U!CancelDelete, U!ConfirmDelete, U!NotDeleted, U!AskDelete,
       U!detail
  <2> QED
    BY <2>1, UserKept
<1> QED
  BY <1>1, <1>2, <1>3, <1>4, <1>5

\* The form and its Source tab.
LEMMA UserForm ==
  ASSUME UserConstants, UserInv,
         \/ U!Land \/ U!LandFails \/ (\E r \in Roles : U!Toggle(r)) \/ U!TypePassword \/ U!StagePassword
         \/ U!ShowSource \/ U!ShowForm \/ U!EditSource
  PROVE  UserInv'
<1> DEFINE IsForm(f) ==
      /\ f = [create |-> f.create, original |-> f.original, roles |-> f.roles, pw |-> f.pw,
              pw2 |-> f.pw2, staged |-> f.staged, loading |-> f.loading]
      /\ f.pw # Mask /\ f.staged # Mask
<1>1. UNCHANGED <<users, put>>
  BY DEF U!Land, U!LandFails, U!Toggle, U!TypePassword, U!StagePassword, U!OnForm, U!ShowSource,
     U!ShowForm, U!EditSource
<1>2. IsForm(form)
  BY DEF UserInv, UserTypes
<1>3. CASE U!Land \/ U!LandFails \/ (\E r \in Roles : U!Toggle(r)) \/ U!TypePassword \/ U!StagePassword
  <2>1. UNCHANGED raw
    BY <1>3 DEF U!Land, U!LandFails, U!Toggle, U!TypePassword, U!StagePassword, U!OnForm
  <2>2. CASE U!Land
    <3>1. \/ form' = [form EXCEPT !.loading = FALSE]
          \/ form' = [form EXCEPT !.loading = FALSE, !.original = users[screen], !.roles = users[screen].roles]
      BY <2>2 DEF U!Land
    <3> QED
      BY <1>1, <1>2, <2>1, <3>1 DEF UserInv, UserTypes, UserPut, IsUser
  <2>3. CASE U!LandFails
    BY <1>1, <1>2, <2>1, <2>3 DEF U!LandFails, UserInv, UserTypes, UserPut, IsUser
  <2>4. ASSUME NEW r \in Roles, U!Toggle(r) PROVE UserInv'
    <3>1. PICK s : form' = [form EXCEPT !.roles = s]
      BY <2>4 DEF U!Toggle
    <3> QED
      BY <1>1, <1>2, <2>1, <3>1 DEF UserInv, UserTypes, UserPut, IsUser
  <2>5. CASE U!TypePassword
    <3>1. PICK p, q \in Passwords \union {None} : form' = [form EXCEPT !.pw = p, !.pw2 = q]
      BY <2>5 DEF U!TypePassword
    <3>2. p # Mask
      BY DEF UserConstants
    <3> QED
      BY <1>1, <1>2, <2>1, <3>1, <3>2 DEF UserInv, UserTypes, UserPut, IsUser
  <2>6. CASE U!StagePassword
    <3>1. PICK p \in Passwords : form' = [form EXCEPT !.staged = p]
      BY <2>6 DEF U!StagePassword
    <3>2. p # Mask
      BY DEF UserConstants
    <3> QED
      BY <1>1, <1>2, <2>1, <3>1, <3>2 DEF UserInv, UserTypes, UserPut, IsUser
  <2> QED
    BY <1>3, <2>2, <2>3, <2>4, <2>5, <2>6
<1>4. ASSUME UNCHANGED form, raw' = None \/ raw' = [id |-> raw'.id, roles |-> raw'.roles, password |-> raw'.password, rev |-> raw'.rev]
      PROVE  UserInv'
  BY <1>1, <1>4 DEF UserInv, UserTypes, UserPut, IsUser
<1>5. CASE U!ShowSource
  <2>1. UNCHANGED form /\ raw' = U!maskDocForPreview(U!SubmitDoc)
    BY <1>5 DEF U!ShowSource
  <2>2. raw' = [id |-> raw'.id, roles |-> raw'.roles, password |-> raw'.password, rev |-> raw'.rev]
    BY <2>1 DEF U!maskDocForPreview, U!SubmitDoc
  <2> QED
    BY <1>4, <2>1, <2>2
<1>6. CASE U!ShowForm
  BY <1>4, <1>6 DEF U!ShowForm
<1>7. CASE U!EditSource
  <2>1. raw # None /\ UNCHANGED form /\ \E x : raw' = [raw EXCEPT !.password = x] \/ raw' = [raw EXCEPT !.roles = x]
    BY <1>7 DEF U!EditSource
  <2>2. raw' = [id |-> raw'.id, roles |-> raw'.roles, password |-> raw'.password, rev |-> raw'.rev]
    BY <2>1 DEF UserInv, UserTypes
  <2> QED
    BY <1>4, <2>1, <2>2
<1> QED
  BY <1>3, <1>5, <1>6, <1>7

\* What a save stores in the user's document.
LEMMA UserStored ==
  ASSUME UserInv, put # None, users' = [users EXCEPT ![put.id] = U!After(put)]
  PROVE  (put.id \in U!Ids => IsUser(U!After(put))) /\ \A i \in U!Ids : users'[i] # users[i] => i = put.id /\ users'[i] = U!After(put)
<1>1. put.doc.password # Mask /\ \A i \in U!Ids : users[i].pass # Mask
  BY DEF UserInv, UserTypes, UserPut, IsUser
<1>2. put.id \in U!Ids => IsUser(U!After(put))
  BY <1>1 DEF IsUser, U!After
<1>3. users = [i \in U!Ids |-> users[i]]
  BY DEF UserInv, UserTypes
<1>4. \A i \in U!Ids : users'[i] # users[i] => i = put.id /\ users'[i] = U!After(put)
  BY <1>3
<1> QED
  BY <1>2, <1>4

LEMMA UserSaves == ASSUME UserConstants, UserInv, U!Save \/ U!Saved \/ U!SaveFails PROVE UserInv'
<1>1. CASE U!Save
  <2>1. /\ UNCHANGED <<users, form, raw>>
        /\ put' = [id |-> screen, doc |-> IF raw = None THEN U!SubmitDoc ELSE U!Unmask(raw)]
    BY <1>1 DEF U!Save, U!listScreen
  <2>2. U!Staged # Mask /\ U!SubmitDoc.password = U!Staged
    BY DEF UserInv, UserTypes, U!SubmitDoc, U!Staged
  <2>3. raw # None => U!Unmask(raw).password # Mask
    BY <2>2 DEF U!Unmask, UserInv, UserTypes
  <2>4. put'.doc.password # Mask
    BY <2>1, <2>2, <2>3
  <2> QED
    BY <2>1, <2>4 DEF UserInv, UserTypes, UserPut, IsUser
<1>2. CASE U!Saved
  <2>1. /\ put # None /\ put' = None /\ raw' = None /\ form' = U!Blank(TRUE)
        /\ users' = [users EXCEPT ![put.id] = U!After(put)]
    BY <1>2 DEF U!Saved, U!Leave
  <2>2. users' = [i \in U!Ids |-> users'[i]] /\ \A i \in U!Ids : IsUser(users'[i])
    BY <2>1, UserStored DEF UserInv, UserTypes
  <2>3. /\ form'.pw # Mask /\ form'.staged # Mask
        /\ form' = [create |-> form'.create, original |-> form'.original, roles |-> form'.roles, pw |-> form'.pw,
                    pw2 |-> form'.pw2, staged |-> form'.staged, loading |-> form'.loading]
    BY <2>1 DEF U!Blank, UserConstants
  <2>4. UserTypes'
    BY <2>1, <2>2, <2>3 DEF UserTypes, IsUser
  <2> QED
    BY <2>1, <2>4 DEF UserInv, UserPut
<1>3. CASE U!SaveFails
  <2>1. /\ put # None /\ put' = None /\ UNCHANGED <<form, raw>>
        /\ users' = users \/ users' = [users EXCEPT ![put.id] = U!After(put)]
    BY <1>3 DEF U!SaveFails
  <2>2. users' = [i \in U!Ids |-> users'[i]] /\ \A i \in U!Ids : IsUser(users'[i])
    BY <2>1, UserStored DEF UserInv, UserTypes
  <2> QED
    BY <2>1, <2>2 DEF UserInv, UserTypes, UserPut, IsUser
<1> QED
  BY <1>1, <1>2, <1>3

LEMMA UserStep == ASSUME UserConstants, UserInv, [U!Next]_(U!vars) PROVE UserInv'
<1>1. CASE UNCHANGED U!vars
  BY <1>1, UserKept DEF U!vars
<1>2. CASE U!Next
  BY <1>2, UserListed, UserForm, UserSaves DEF U!Next
<1> QED
  BY <1>1, <1>2

\* A save replaces the revision its form was loaded from, keeps the password that is stored unless
\* one was typed, and never stores the mask of the Source tab (users-doc.ts, users-service.ts).
THEOREM PasswordsAreTyped == ASSUME UserConstants PROVE U!Spec => U!SecretsStay
<1>1. U!Init => UserInv
  BY UserStarts
<1>2. UserInv /\ [U!Next]_(U!vars) => UserInv'
  BY UserStep
<1>3. ASSUME UserInv, [U!Next]_(U!vars) PROVE U!SecretsStayStep
  <2>1. SUFFICES ASSUME NEW i \in U!Ids, put # None, put' = None, users'[i] # users[i]
                 PROVE  /\ users[i].live => users[i].rev = put.doc.rev
                        /\ users'[i].pass # Mask
                        /\ put.doc.password = None => users'[i].pass = users[i].pass
    BY DEF U!SecretsStayStep
  <2>2. U!Saved \/ U!SaveFails
    BY <1>3, <2>1 DEF U!vars, U!Next, U!Elsewhere, U!OpenUser, U!NewUser, U!AskDelete, U!ReadPage,
       U!LoadFails,
       U!CancelDelete, U!ConfirmDelete, U!Deleted, U!NotDeleted, U!Land, U!LandFails, U!Toggle, U!TypePassword,
       U!StagePassword, U!OnForm, U!ShowSource, U!ShowForm, U!EditSource, U!Save, U!Cancel, U!detail
  <2>3. users' # users /\ U!Accepts(put) /\ users' = [users EXCEPT ![put.id] = U!After(put)]
    BY <2>1, <2>2 DEF U!Saved, U!SaveFails
  <2>4. i = put.id /\ users'[i] = U!After(put) /\ IsUser(U!After(put))
    BY <1>3, <2>1, <2>3, UserStored
  <2> QED
    BY <2>3, <2>4 DEF U!Accepts, U!After, IsUser
<1>4. UserInv /\ [U!Next]_(U!vars) => [U!SecretsStayStep]_(U!vars)
  BY <1>3
<1> QED
  BY <1>1, <1>2, <1>4, PTL DEF U!Spec, U!SecretsStay

----------------------------------------------------------------------------
(* The server's home page and its tasks: any answers of a server that comes and goes, tiles     *)
(* that share a fetch and fetches that share a record.                                           *)

H == INSTANCE ServerDashboard

ServerAnswers == Answers \union {Down}

\* None is neither an answer nor what a tile shows.
DashConstants ==
  /\ None \notin ServerAnswers /\ None \notin [answer : ServerAnswers \union {None}]
  /\ None \notin [reachable : BOOLEAN, liveError : BOOLEAN, version : ServerAnswers]
  /\ None \notin [error : BOOLEAN, count : ServerAnswers]
  /\ MaxRequests \in Nat \ {0} /\ MaxChanges \in Nat

DashTypes ==
  /\ page \in {"dashboard", "tasks"} /\ server \in ServerAnswers /\ serverId \in {H!Local, H!All}
  /\ requests \in 0..MaxRequests /\ changes \in 0..MaxChanges
  /\ cache # None => cache.answer \in ServerAnswers
  /\ inFlight # None => inFlight.answer \in ServerAnswers \union {None}
DashFlags == _loading \in BOOLEAN /\ _error \in BOOLEAN

IsFetch(f, top) ==
  /\ f = [n |-> f.n, tile |-> f.tile, live |-> f.live, record |-> f.record]
  /\ f.n \in 0..top /\ f.tile \in H!Tiles /\ f.live \in ServerAnswers \union {None}
  /\ f.record \in ServerAnswers \union {None}
DashFetches ==
  /\ \A f \in fetches : IsFetch(f, requests)
  /\ \A f, g \in fetches : f.tile = H!Welcome /\ g.tile = H!Welcome => f = g

\* A fetch that waits for the record has it under way, and a tile that waits has a fetch.
DashRecords == \A f \in fetches : f.record = None => inFlight # None
DashTiles ==
  tile # None =>
    /\ tile = [k \in H!Tiles |-> tile[k]]
    /\ \A k \in H!Tiles : tile[k] = None => \E f \in fetches : f.tile = k

DashLoads ==
  /\ \A l \in loads : l = [n |-> l.n, initial |-> l.initial, route |-> l.route, answer |-> l.answer]
  /\ \A l \in loads : l.initial \in BOOLEAN
DashLoading == _loading => \E l \in loads : l.initial = TRUE

DashInv == DashTypes /\ DashFlags /\ DashFetches /\ DashRecords /\ DashTiles /\ DashLoads /\ DashLoading

LEMMA DashStarts == ASSUME DashConstants PROVE H!Init => DashInv
<1> SUFFICES ASSUME H!Init PROVE DashInv
  OBVIOUS
<1>1. DashTypes /\ DashFetches /\ DashRecords /\ DashTiles
  BY DEF H!Init, DashConstants, DashTypes, DashFetches, DashRecords, DashTiles, ServerAnswers
<1>2. DashFlags
  BY Zenon DEF H!Init, DashFlags
<1> DEFINE first == [n |-> 1, initial |-> TRUE, route |-> H!Local, answer |-> H!Unread]
<1>3. /\ page = "tasks" => loads = {first}
      /\ page # "tasks" => loads = {}
  BY DEF H!Init
<1>4. /\ first.initial = TRUE /\ first.initial \in BOOLEAN
      /\ first = [n |-> first.n, initial |-> first.initial, route |-> first.route, answer |-> first.answer]
  OBVIOUS
<1> HIDE DEF first
<1>5. DashLoads
  BY <1>3, <1>4 DEF DashLoads
<1>6. DashLoading
  <2>1. _loading => page = "tasks"
    BY Zenon DEF H!Init
  <2>2. page = "tasks" => \E l \in loads : l.initial = TRUE
    BY <1>3, <1>4
  <2> QED
    BY <2>1, <2>2, Zenon DEF DashLoading
<1> QED
  BY <1>1, <1>2, <1>5, <1>6 DEF DashInv

LEMMA DashKept ==
  /\ DashTypes /\ UNCHANGED <<page, server, serverId, requests, changes, cache, inFlight>> => DashTypes'
  /\ DashFlags /\ UNCHANGED <<_loading, _error>> => DashFlags'
  /\ DashFetches /\ UNCHANGED <<fetches, requests>> => DashFetches'
  /\ DashRecords /\ UNCHANGED <<fetches, inFlight>> => DashRecords'
  /\ DashTiles /\ UNCHANGED <<tile, fetches>> => DashTiles'
  /\ DashLoads /\ UNCHANGED loads => DashLoads'
  /\ DashLoading /\ UNCHANGED <<_loading, loads>> => DashLoading'
<1>1. DashTypes /\ UNCHANGED <<page, server, serverId, requests, changes, cache, inFlight>> => DashTypes'
  BY DEF DashTypes
<1>2. DashFlags /\ UNCHANGED <<_loading, _error>> => DashFlags'
  BY Zenon DEF DashFlags
<1>3. DashFetches /\ UNCHANGED <<fetches, requests>> => DashFetches'
  BY DEF DashFetches, IsFetch
<1>4. DashRecords /\ UNCHANGED <<fetches, inFlight>> => DashRecords'
  BY DEF DashRecords
<1>5. DashTiles /\ UNCHANGED <<tile, fetches>> => DashTiles'
  BY DEF DashTiles
<1>6. DashLoads /\ UNCHANGED loads => DashLoads'
  BY DEF DashLoads
<1>7. DashLoading /\ UNCHANGED <<_loading, loads>> => DashLoading'
  BY Zenon DEF DashLoading
<1> QED
  BY <1>1, <1>2, <1>3, <1>4, <1>5, <1>6, <1>7

\* Asking puts a fetch where none can be shared.
LEMMA DashAsks ==
  ASSUME DashConstants, DashInv, H!Ask(H!Tiles), UNCHANGED <<page, server, cache, serverId, changes>>
  PROVE  /\ DashTypes' /\ DashFetches' /\ DashRecords' /\ fetches \subseteq fetches'
         /\ \A k \in H!Tiles : \E f \in fetches' : f.tile = k
<1>1. /\ requests' = requests + 1 /\ requests < MaxRequests
      /\ fetches' = fetches \union {H!Fetch(k) : k \in H!Asked(H!Tiles)}
      /\ inFlight' = IF H!Welcome \in H!Asked(H!Tiles) THEN H!Joined ELSE inFlight
  BY DEF H!Ask
<1>2. requests \in 0..MaxRequests /\ requests' \in 0..MaxRequests /\ MaxRequests \in Nat /\ requests <= requests'
  BY <1>1 DEF DashInv, DashTypes, DashConstants
<1>3. ASSUME NEW k \in H!Tiles
      PROVE  /\ H!Fetch(k) = [n |-> H!Fetch(k).n, tile |-> k, live |-> None, record |-> H!Fetch(k).record]
             /\ H!Fetch(k).n \in 0..requests' /\ H!Fetch(k).tile = k /\ H!Fetch(k).live = None
             /\ H!Fetch(k).record \in ServerAnswers \union {None}
             /\ H!Fetch(k).record = None => k = H!Welcome /\ cache = None
  BY <1>2 DEF H!Fetch, H!Unread, H!Cached, DashInv, DashTypes, DashConstants, ServerAnswers
<1>4. \A k \in H!Asked(H!Tiles) : k \in H!Tiles /\ (k = H!Welcome => \A f \in fetches : f.tile # H!Welcome)
  BY DEF H!Asked, H!Shared
<1>5. \A f \in fetches' : IsFetch(f, requests')
  <2>1. \A f \in fetches : IsFetch(f, requests')
    BY <1>2 DEF DashInv, DashFetches, IsFetch
  <2>2. \A k \in H!Asked(H!Tiles) : IsFetch(H!Fetch(k), requests')
    BY <1>3, <1>4 DEF IsFetch
  <2> QED
    BY <1>1, <2>1, <2>2
<1>6. \A f, g \in fetches' : f.tile = H!Welcome /\ g.tile = H!Welcome => f = g
  BY <1>1, <1>3, <1>4 DEF DashInv, DashFetches
<1>7. DashFetches'
  BY <1>5, <1>6 DEF DashFetches, H!Tiles, H!Welcome
<1>8. inFlight' # None => inFlight'.answer \in ServerAnswers \union {None}
  BY <1>1 DEF H!Joined, H!Unread, DashInv, DashTypes
<1>9. DashTypes'
  BY <1>2, <1>8 DEF DashInv, DashTypes, H!Local, H!All
<1>10. inFlight # None => inFlight' # None
  BY <1>1 DEF H!Joined
<1>11. H!Welcome \in H!Asked(H!Tiles) /\ cache = None => inFlight' # None
  <2>1. [answer |-> None] # None
    BY DEF DashConstants
  <2> QED
    BY <1>1, <2>1 DEF H!Joined, H!Unread
<1>12. DashRecords'
  BY <1>1, <1>3, <1>4, <1>10, <1>11 DEF DashInv, DashRecords
<1>13. \A k \in H!Tiles : \E f \in fetches' : f.tile = k
  BY <1>1, <1>3 DEF H!Asked, H!Shared
<1> QED
  BY <1>1, <1>7, <1>9, <1>12, <1>13

LEMMA DashAsked ==
  ASSUME DashConstants, DashInv, H!Mount \/ H!_refresh \/ H!RequestElsewhere PROVE DashInv'
<1>1. /\ H!Ask(H!Tiles) /\ UNCHANGED <<page, server, cache, serverId, changes, loads, _loading, _error>>
      /\ tile' = tile \/ tile' = [k \in H!Tiles |-> None]
  BY DEF H!Mount, H!_refresh, H!RequestElsewhere, H!taskPage
<1>2. DashTiles'
  BY <1>1, DashAsks DEF DashInv, DashTiles, H!Tiles, H!Welcome, H!Counts
<1> QED
  BY <1>1, <1>2, DashAsks, DashKept DEF DashInv

\* The record, the live answers, and what is published.
LEMMA DashReads ==
  ASSUME DashConstants, DashInv, H!ListRead \/ H!_fetchServerList \/ \E f \in fetches : H!LiveRead(f)
  PROVE  DashInv'
<1>1. UNCHANGED <<page, server, serverId, requests, changes, tile, loads, _loading, _error>>
  BY DEF H!ListRead, H!_fetchServerList, H!LiveRead, H!taskPage
<1>2. CASE H!ListRead
  <2>1. inFlight' = [answer |-> server] /\ UNCHANGED <<cache, fetches>>
    BY <1>2 DEF H!ListRead
  <2>2. server \in ServerAnswers
    BY DEF DashInv, DashTypes
  <2>3. inFlight' # None
    BY <2>1, <2>2 DEF DashConstants
  <2>4. DashTypes' /\ DashRecords'
    BY <1>1, <2>1, <2>2, <2>3 DEF DashInv, DashTypes, DashRecords, H!Local, H!All
  <2> QED
    BY <1>1, <2>1, <2>4, DashKept DEF DashInv
<1>3. ASSUME H!_fetchServerList PROVE DashInv'
  <2> DEFINE Given(f) == IF f.record = None THEN [f EXCEPT !.record = inFlight.answer] ELSE f
  <2>1. /\ inFlight # None /\ inFlight.answer # None /\ inFlight' = None /\ cache' = inFlight
        /\ fetches' = {Given(f) : f \in fetches}
    BY <1>3 DEF H!_fetchServerList, H!Unread
  <2>2. inFlight.answer \in ServerAnswers
    BY <2>1 DEF DashInv, DashTypes
  <2>3. DashTypes'
    BY <1>1, <2>1, <2>2 DEF DashInv, DashTypes, H!Local, H!All
  <2>4. ASSUME NEW f \in fetches
        PROVE  /\ Given(f) = [n |-> f.n, tile |-> f.tile, live |-> f.live, record |-> Given(f).record]
               /\ Given(f).record \in ServerAnswers /\ Given(f).n = f.n /\ Given(f).tile = f.tile /\ Given(f).live = f.live
    BY <2>2 DEF DashInv, DashFetches, IsFetch
  <2> HIDE DEF Given
  <2>5. \A g \in fetches' : \E f \in fetches : g = Given(f)
    BY <2>1
  <2>6. DashFetches'
    <3>1. \A g \in fetches' : IsFetch(g, requests')
      <4>1. \A f \in fetches : IsFetch(Given(f), requests')
        BY <1>1, <2>4 DEF DashInv, DashFetches, IsFetch, H!Tiles, H!Welcome, H!Counts
      <4> QED
        BY <2>5, <4>1
    <3>2. \A f, g \in fetches' : f.tile = H!Welcome /\ g.tile = H!Welcome => f = g
      BY <2>4, <2>5 DEF DashInv, DashFetches
    <3> QED
      BY <3>1, <3>2 DEF DashFetches, H!Welcome
  <2>7. DashRecords'
    <3>1. None \notin ServerAnswers
      BY DEF DashConstants
    <3> QED
      BY <2>4, <2>5, <3>1 DEF DashRecords
  <2>8. DashTiles'
    <3>1. \A f \in fetches : Given(f) \in fetches' /\ Given(f).tile = f.tile
      BY <2>1, <2>4
    <3> QED
      BY <1>1, <3>1 DEF DashInv, DashTiles, H!Tiles, H!Welcome, H!Counts
  <2> QED
    BY <1>1, <2>3, <2>6, <2>7, <2>8, DashKept DEF DashInv
<1>4. ASSUME NEW f \in fetches, H!LiveRead(f) PROVE DashInv'
  <2> DEFINE heard == [f EXCEPT !.live = server]
  <2>1. fetches' = (fetches \ {f}) \union {heard} /\ UNCHANGED <<cache, inFlight>>
    BY <1>4 DEF H!LiveRead
  <2>2. server \in ServerAnswers /\ IsFetch(f, requests)
    BY DEF DashInv, DashTypes, DashFetches
  <2>3. heard = [n |-> f.n, tile |-> f.tile, live |-> server, record |-> f.record]
    BY <2>2 DEF IsFetch
  <2>4. heard.n = f.n /\ heard.tile = f.tile /\ heard.live = server /\ heard.record = f.record
    BY <2>3
  <2> HIDE DEF heard
  <2>5. DashFetches'
    <3>1. \A g \in fetches' : IsFetch(g, requests')
      BY <1>1, <2>1, <2>2, <2>3, <2>4 DEF DashInv, DashFetches, IsFetch, H!Tiles, H!Welcome, H!Counts
    <3>2. \A e, g \in fetches' : e.tile = H!Welcome /\ g.tile = H!Welcome => e = g
      BY <2>1, <2>4 DEF DashInv, DashFetches
    <3> QED
      BY <3>1, <3>2 DEF DashFetches, H!Welcome
  <2>6. DashRecords'
    BY <2>1, <2>4 DEF DashInv, DashRecords
  <2>7. DashTiles'
    BY <1>1, <2>1, <2>4 DEF DashInv, DashTiles, H!Tiles, H!Welcome, H!Counts
  <2> QED
    BY <1>1, <2>1, <2>5, <2>6, <2>7, DashKept DEF DashInv
<1> QED
  BY <1>2, <1>3, <1>4

LEMMA DashPublishes ==
  ASSUME DashConstants, DashInv, H!PublishElsewhere \/ \E f \in fetches : H!Publish(f)
  PROVE  DashInv'
<1>1. UNCHANGED <<page, server, serverId, requests, changes, cache, inFlight, loads, _loading, _error>>
  BY DEF H!PublishElsewhere, H!Publish, H!taskPage
<1>2. ASSUME NEW r \in ServerAnswers, NEW a \in ServerAnswers PROVE H!_onWelcome(r, a) # None /\ H!_onCounts(a) # None
  <2>1. /\ H!_onWelcome(r, a) \in [reachable : BOOLEAN, liveError : BOOLEAN, version : ServerAnswers]
        /\ H!_onCounts(a) \in [error : BOOLEAN, count : ServerAnswers]
    BY DEF H!_onWelcome, H!_onCounts
  <2> QED
    BY <2>1 DEF DashConstants
<1>3. CASE H!PublishElsewhere
  <2>1. PICK r \in ServerAnswers, k \in H!Tiles :
          tile' = H!Shown(k, IF k = H!Welcome THEN H!_onWelcome(r, server) ELSE H!_onCounts(server))
    BY <1>3 DEF H!PublishElsewhere, ServerAnswers
  <2> DEFINE told == IF k = H!Welcome THEN H!_onWelcome(r, server) ELSE H!_onCounts(server)
  <2>2. told # None
    BY <1>2 DEF DashInv, DashTypes
  <2> HIDE DEF told
  <2>3. UNCHANGED fetches /\ tile' = IF tile = None THEN tile ELSE [tile EXCEPT ![k] = told]
    BY <1>3, <2>1 DEF H!PublishElsewhere, H!Shown, told
  <2>4. DashTiles'
    BY <2>2, <2>3 DEF DashInv, DashTiles, H!Tiles, H!Welcome, H!Counts
  <2> QED
    BY <1>1, <2>3, <2>4, DashKept DEF DashInv
<1>4. ASSUME NEW f \in fetches, H!Publish(f) PROVE DashInv'
  <2> DEFINE told == H!Data(f)
  <2>1. /\ f.live # None /\ f.record # None /\ fetches' = fetches \ {f}
        /\ tile' = IF tile = None THEN tile ELSE [tile EXCEPT ![f.tile] = told]
    BY <1>4 DEF H!Publish, H!Shown, H!Unread
  <2>2. f.live \in ServerAnswers /\ f.record \in ServerAnswers /\ f.tile \in H!Tiles
    BY <2>1 DEF DashInv, DashFetches, IsFetch
  <2>3. told # None
    BY <1>2, <2>2 DEF H!Data
  <2> HIDE DEF told
  <2>4. DashTiles'
    BY <2>1, <2>2, <2>3 DEF DashInv, DashTiles, H!Tiles, H!Welcome, H!Counts
  <2>5. DashFetches' /\ DashRecords'
    BY <1>1, <2>1 DEF DashInv, DashFetches, DashRecords, IsFetch, H!Tiles, H!Welcome, H!Counts
  <2> QED
    BY <1>1, <2>4, <2>5, DashKept DEF DashInv
<1> QED
  BY <1>3, <1>4

LEMMA DashOthers == ASSUME DashConstants, DashInv, H!Change \/ H!Expire \/ H!Leave PROVE DashInv'
<1>1. UNCHANGED <<page, serverId, requests, inFlight, fetches, loads, _loading, _error>>
  BY DEF H!Change, H!Expire, H!Leave, H!dashboard, H!taskPage
<1>2. /\ server' \in ServerAnswers /\ changes' \in 0..MaxChanges
      /\ cache' = cache \/ cache' = None
      /\ tile' = tile \/ tile' = None
  BY DEF H!Change, H!Expire, H!Leave, H!dashboard, DashInv, DashTypes, ServerAnswers, DashConstants
<1>3. DashTypes' /\ DashTiles'
  BY <1>1, <1>2 DEF DashInv, DashTypes, DashTiles, H!Local, H!All, H!Tiles, H!Welcome, H!Counts
<1> QED
  BY <1>1, <1>3, DashKept DEF DashInv

\* The task page.
LEMMA DashTasks ==
  ASSUME DashConstants, DashInv,
         \/ H!refresh \/ H!ChangeRoute
         \/ \E l \in loads : H!TasksRead(l) \/ H!_fetch(l)
         \/ \E type \in H!_types \union {H!All} : H!ShowTab(type)
  PROVE  DashInv'
<1>1. UNCHANGED <<page, server, changes, cache, inFlight, fetches, tile>>
  BY DEF H!refresh, H!ChangeRoute, H!TasksRead, H!_fetch, H!ShowTab, H!dashboard
<1>2. ASSUME NEW initial \in BOOLEAN, NEW way, H!_load(initial, way), serverId' \in {H!Local, H!All}, initial = TRUE \/ initial = FALSE
      PROVE  DashInv'
  <2> DEFINE new == [n |-> requests', initial |-> initial, route |-> way, answer |-> H!Unread]
  <2>1. requests' = requests + 1 /\ requests < MaxRequests /\ loads' = loads \union {new}
    BY <1>2 DEF H!_load
  <2>2. new = [n |-> new.n, initial |-> new.initial, route |-> new.route, answer |-> new.answer] /\ new.initial = initial
    OBVIOUS
  <2> HIDE DEF new
  <2>3. requests \in 0..MaxRequests /\ MaxRequests \in Nat
    BY DEF DashInv, DashTypes, DashConstants
  <2>4. DashTypes' /\ DashFetches'
    BY <1>1, <1>2, <2>1, <2>3 DEF DashInv, DashTypes, DashFetches, IsFetch, H!Local, H!All, H!Tiles,
       H!Welcome, H!Counts
  <2>5. DashLoads'
    BY <2>1, <2>2 DEF DashInv, DashLoads
  <2>6. DashFlags'
    BY <1>2, Zenon DEF DashInv, DashFlags, H!_load
  <2>7. DashLoading'
    <3>1. CASE initial = TRUE
      BY <2>1, <2>2, <3>1 DEF DashLoading
    <3>2. CASE initial = FALSE
      <4>1. _loading' = _loading /\ loads \subseteq loads'
        BY <1>2, <2>1, <3>2, Zenon DEF H!_load
      <4> QED
        BY <4>1, Zenon DEF DashInv, DashLoading
    <3> QED
      BY <1>2, <3>1, <3>2
  <2> QED
    BY <1>1, <2>4, <2>5, <2>6, <2>7, DashKept DEF DashInv
<1>3. CASE H!refresh \/ H!ChangeRoute
  <2>1. CASE H!refresh
    <3>1. H!_load(FALSE, serverId) /\ serverId' \in {H!Local, H!All}
      BY <2>1 DEF H!refresh, DashInv, DashTypes
    <3> QED
      BY <1>2, <3>1
  <2>2. CASE H!ChangeRoute
    <3>1. H!_load(TRUE, serverId') /\ serverId' \in {H!Local, H!All}
      BY <2>2 DEF H!ChangeRoute
    <3> QED
      BY <1>2, <3>1
  <2> QED
    BY <1>3, <2>1, <2>2
<1>4. ASSUME NEW l \in loads, H!TasksRead(l) PROVE DashInv'
  <2> DEFINE heard == [l EXCEPT !.answer = server]
  <2>1. loads' = (loads \ {l}) \union {heard} /\ UNCHANGED <<serverId, _loading, _error, requests>>
    BY <1>4 DEF H!TasksRead
  <2>2. l = [n |-> l.n, initial |-> l.initial, route |-> l.route, answer |-> l.answer] /\ l.initial \in BOOLEAN
    BY DEF DashInv, DashLoads
  <2>3. heard = [n |-> l.n, initial |-> l.initial, route |-> l.route, answer |-> server]
    BY <2>2
  <2>4. heard = [n |-> heard.n, initial |-> heard.initial, route |-> heard.route, answer |-> heard.answer] /\ heard.initial = l.initial
    BY <2>3
  <2> HIDE DEF heard
  <2>5. DashLoads'
    BY <2>1, <2>2, <2>4 DEF DashInv, DashLoads
  <2>6. (\E m \in loads : m.initial = TRUE) => \E m \in loads' : m.initial = TRUE
    BY <2>1, <2>4
  <2>7. DashLoading'
    BY <2>1, <2>6, Zenon DEF DashInv, DashLoading
  <2> QED
    BY <1>1, <2>1, <2>5, <2>7, DashKept DEF DashInv
<1>5. ASSUME NEW l \in loads, H!_fetch(l) PROVE DashInv'
  <2>1. loads' = loads \ {l} /\ UNCHANGED <<serverId, requests>>
    BY <1>5 DEF H!_fetch
  <2>2. l.initial = TRUE \/ l.initial = FALSE
    BY DEF DashInv, DashLoads
  <2>3. DashLoads'
    BY <2>1 DEF DashInv, DashLoads
  <2>4. DashFlags'
    <3>1. _error' \in BOOLEAN /\ _loading' \in BOOLEAN
      BY <1>5, Zenon DEF H!_fetch
    <3> QED
      BY <3>1, Zenon DEF DashFlags
  <2>5. DashLoading'
    <3>1. CASE l.initial = TRUE
      <4>1. ~_loading'
        BY <1>5, <3>1, Zenon DEF H!_fetch
      <4> QED
        BY <4>1, Zenon DEF DashLoading
    <3>2. CASE l.initial = FALSE
      <4>1. _loading' => _loading
        BY <1>5, Zenon DEF H!_fetch
      <4>2. (\E m \in loads : m.initial = TRUE) => \E m \in loads' : m.initial = TRUE
        BY <2>1, <3>2
      <4> QED
        BY <4>1, <4>2, Zenon DEF DashInv, DashLoading
    <3> QED
      BY <2>2, <3>1, <3>2
  <2> QED
    BY <1>1, <2>1, <2>3, <2>4, <2>5, DashKept DEF DashInv
<1>6. ASSUME NEW type \in H!_types \union {H!All}, H!ShowTab(type) PROVE DashInv'
  <2>1. UNCHANGED <<serverId, loads, _loading, _error, requests>>
    BY <1>6 DEF H!ShowTab
  <2> QED
    BY <1>1, <2>1, DashKept DEF DashInv
<1> QED
  BY <1>3, <1>4, <1>5, <1>6

LEMMA DashStep == ASSUME DashConstants, DashInv, [H!Next]_(H!vars) PROVE DashInv'
<1>1. CASE UNCHANGED H!vars
  BY <1>1, DashKept DEF H!vars, DashInv
<1>2. CASE H!Next
  BY <1>2, DashAsked, DashReads, DashPublishes, DashOthers, DashTasks DEF H!Next
<1> QED
  BY <1>1, <1>2

\* One element at most.
LEMMA DashOne == ASSUME NEW S, \A a, b \in S : a = b PROVE H!Cardinality(S) <= 1
<1>1. H!Cardinality(S) = Cardinality(S)
  BY DEF H!Cardinality, Cardinality
<1>2. CASE S = {}
  BY <1>1, <1>2, FS_EmptySet
<1>3. CASE S # {}
  <2>1. PICK a \in S : S = {a}
    BY <1>3
  <2>2. Cardinality({a}) = 1
    BY FS_Singleton
  <2> QED
    BY <1>1, <2>1, <2>2
<1> QED
  BY <1>2, <1>3

\* No request is lost to the sharing: a tile that waits has a fetch running, which has its record or a
\* read of it; the task page's spinner has a load to wait for (server-dashboard-service.ts, active-tasks.ts).
THEOREM NoTileWaitsForNothing ==
  ASSUME DashConstants PROVE H!Spec => [](H!TypeOK /\ H!WaitingIsAnswered /\ H!TasksAreShown)
<1>1. H!Init => DashInv
  BY DashStarts
<1>2. DashInv /\ [H!Next]_(H!vars) => DashInv'
  BY DashStep
<1>3. ASSUME DashInv PROVE H!TypeOK /\ H!WaitingIsAnswered /\ H!TasksAreShown
  <2>1. H!TypeOK
    <3>1. \A f \in fetches : f.tile \in H!Tiles /\ f.n \in 0..requests
      BY <1>3 DEF DashInv, DashFetches, IsFetch
    <3> QED
      BY <1>3, <3>1, Zenon DEF H!TypeOK, DashInv, DashTypes, DashFlags, ServerAnswers
  <2>2. H!WaitingIsAnswered
    <3>1. \A f, g \in {h \in fetches : h.tile = H!Welcome} : f = g
      BY <1>3 DEF DashInv, DashFetches
    <3>2. H!Cardinality({h \in fetches : h.tile = H!Welcome}) <= 1
      BY <3>1, DashOne
    <3> QED
      BY <1>3, <3>2 DEF H!WaitingIsAnswered, H!Waiting, H!Unread, DashInv, DashTiles, DashRecords
  <2>3. H!TasksAreShown
    <3>1. _loading => \E l \in loads : l.initial
      BY <1>3, Zenon DEF DashInv, DashLoading
    <3>2. (H!_visible = {}) <=> (H!_types = {})
      BY DEF H!_visible, H!_activeType
    <3> QED
      BY <3>1, <3>2, Zenon DEF H!TasksAreShown
  <2> QED
    BY <2>1, <2>2, <2>3
<1>4. DashInv => H!TypeOK /\ H!WaitingIsAnswered /\ H!TasksAreShown
  BY <1>3
<1> QED
  BY <1>1, <1>2, <1>4, PTL DEF H!Spec

----------------------------------------------------------------------------
(* The page: its boot, the swap of login screen and shell, sign-ins that are answered on         *)
(* another screen than they were asked on, the banner and the logout dialog.                       *)

T == INSTANCE Entrance

\* A banner ends at some time or never, and None is no end.
PageConstants ==
  /\ Forever \notin Nat /\ None \notin Nat \union {Forever} /\ TIMER_MAX \in Nat
  /\ \A d \in Deployments :
       DOMAIN d.banners \subseteq Nat /\ \A i \in DOMAIN d.banners : d.banners[i] \in Nat \union {Forever}

\* No banner ends later than a timer can be set.
NearBanners == \A d \in Deployments : \A i \in DOMAIN d.banners : d.banners[i] \in Nat => d.banners[i] <= TIMER_MAX

PageShape ==
  /\ world \in Deployments /\ now \in Nat \ {0}
  /\ boot \in {"start", "native", "config", "session", "done"}
  /\ screen \in {"none", "login", "shell", "away"}
  /\ session \in {"none", "cookie", "jwt", "rp"}
  /\ form = [idps |-> form.idps, jwt |-> form.jwt, loading |-> form.loading, recent |-> form.recent,
             server |-> form.server, adding |-> form.adding, typed |-> form.typed, complaint |-> form.complaint]
  /\ shell = [plugins |-> shell.plugins, route |-> shell.route, draft |-> shell.draft, reading |-> shell.reading,
              banner |-> shell.banner, timer |-> shell.timer, dialog |-> shell.dialog]
  /\ loader = [registered |-> loader.registered, modules |-> loader.modules]
  /\ discovery = [idps |-> discovery.idps, jwt |-> discovery.jwt, asked |-> discovery.asked,
                  missed |-> discovery.missed]
  /\ \A q \in requests : q = [kind |-> q.kind, server |-> q.server, mine |-> q.mine]

\* A login screen waits for one sign-in of its own at most; other screens wait for none.
PageWaits ==
  /\ form.loading \in BOOLEAN /\ \A q \in requests : q.mine \in BOOLEAN
  /\ form.loading = TRUE <=> \E q \in requests : q.mine = TRUE
  /\ \A p, q \in requests : p.mine = TRUE /\ q.mine = TRUE => p = q
  /\ screen # "login" => form.loading = FALSE
  /\ screen = "none" => requests = {}

PageShell ==
  /\ loader.registered \in {0, 1} /\ (screen = "shell" => loader.registered = 1)
  /\ screen # "shell" => shell = T!NoShell

\* The timer is set for the end of the banner, or for now when it cannot count that far.
PageBanner ==
  /\ shell.banner \in Nat \union {Forever, None}
  /\ shell.banner \in Nat => shell.timer \in Nat /\ shell.timer <= shell.banner
  /\ NearBanners /\ shell.banner \in Nat => shell.timer = shell.banner
  /\ shell.banner \notin Nat => shell.timer = None
  /\ shell.plugins # "loaded" \/ shell.reading = TRUE => shell.banner = None
  /\ shell.reading \in BOOLEAN /\ (shell.reading = TRUE => shell.plugins = "loaded")

\* A provider's session comes with a page that has no sign-in under way.
PageSession ==
  /\ session = "rp" => screen = "shell" /\ requests = {} /\ boot \in {"start", "done"}
  /\ shell.dialog # None =>
       /\ shell.dialog = [rp |-> shell.dialog.rp, everywhere |-> shell.dialog.everywhere]
       /\ shell.dialog.rp \in BOOLEAN
       /\ boot \in {"start", "done"} => (shell.dialog.rp = TRUE <=> session = "rp")

\* What a discovery that missed nothing has found so far, and who was told.
Published(idps) ==
  \/ T!Usable("native") # <<>> /\ idps = T!Usable("native")
  \/ T!Usable("native") = <<>> /\ idps = T!Usable("config")
PageOffers ==
  /\ discovery.asked \in BOOLEAN /\ discovery.missed \in BOOLEAN
  /\ boot \in {"start", "native"} => discovery.asked = FALSE
  /\ boot = "config" /\ discovery.missed = FALSE => T!Usable("native") = <<>>
  /\ boot = "session" /\ discovery.missed = FALSE => Published(discovery.idps)
  /\ boot = "done" /\ discovery.asked = TRUE /\ discovery.missed = FALSE =>
       Published(discovery.idps) /\ discovery.jwt = world.jwt
  /\ boot = "done" /\ screen = "login" => form.idps = discovery.idps /\ form.jwt = discovery.jwt

PageInv == PageShape /\ PageWaits /\ PageShell /\ PageBanner /\ PageSession /\ PageOffers

LEMMA PageStarts == ASSUME PageConstants, T!Init PROVE PageInv
<1>1. /\ world \in Deployments /\ boot = "start" /\ discovery = T!Nothing /\ screen = "none" /\ form = T!NoForm
      /\ requests = {} /\ session = "none" /\ shell = T!NoShell /\ now = 1
      /\ loader = [registered |-> 0, modules |-> [p \in Plugins |-> "absent"]]
  BY DEF T!Init
<1>2. PageShape
  BY <1>1 DEF PageShape, T!Nothing, T!NoForm, T!NoShell
<1>3. PageWaits /\ PageShell
  BY <1>1 DEF PageWaits, PageShell, T!NoForm
<1>4. PageBanner /\ PageSession
  BY <1>1 DEF PageBanner, PageSession, T!NoShell, PageConstants
<1>5. PageOffers
  BY <1>1 DEF PageOffers, T!Nothing
<1> QED
  BY <1>2, <1>3, <1>4, <1>5 DEF PageInv

LEMMA PageKept ==
  /\ PageShape /\ UNCHANGED <<world, now, boot, screen, session, form, shell, loader, discovery, requests>> => PageShape'
  /\ PageWaits /\ UNCHANGED <<form, requests, screen>> => PageWaits'
  /\ PageShell /\ UNCHANGED <<loader, screen, shell>> => PageShell'
  /\ PageBanner /\ UNCHANGED shell => PageBanner'
  /\ PageSession /\ UNCHANGED <<session, screen, requests, boot, shell>> => PageSession'
  /\ PageOffers /\ UNCHANGED <<discovery, world, boot, screen, form>> => PageOffers'
<1>1. PageShape /\ UNCHANGED <<world, now, boot, screen, session, form, shell, loader, discovery, requests>> => PageShape'
  BY DEF PageShape
<1>2. PageWaits /\ UNCHANGED <<form, requests, screen>> => PageWaits'
  BY DEF PageWaits
<1>3. PageShell /\ UNCHANGED <<loader, screen, shell>> => PageShell'
  BY DEF PageShell
<1>4. PageBanner /\ UNCHANGED shell => PageBanner'
  BY DEF PageBanner
<1>5. PageSession /\ UNCHANGED <<session, screen, requests, boot, shell>> => PageSession'
  BY DEF PageSession
<1>6. UNCHANGED world => T!Usable("native")' = T!Usable("native") /\ T!Usable("config")' = T!Usable("config")
  BY DEF T!Usable
<1>7. PageOffers /\ UNCHANGED <<discovery, world, boot, screen, form>> => PageOffers'
  BY <1>6 DEF PageOffers, Published
<1> QED
  BY <1>1, <1>2, <1>3, <1>4, <1>5, <1>7

\* The two swaps.  A login screen that is up keeps what was typed; a shell that is up stays.
LEMMA PageLogsIn ==
  ASSUME PageInv, NEW found, T!initLogin(found), UNCHANGED <<requests, loader>>,
         screen # "none" \/ requests = {}
  PROVE  /\ PageWaits' /\ PageShell' /\ PageBanner'
         /\ screen' = "login" /\ shell' = T!NoShell /\ shell'.dialog = None
         /\ shell' = [plugins |-> shell'.plugins, route |-> shell'.route, draft |-> shell'.draft,
                      reading |-> shell'.reading, banner |-> shell'.banner, timer |-> shell'.timer,
                      dialog |-> shell'.dialog]
         /\ form' = [idps |-> found.idps, jwt |-> found.jwt, loading |-> form'.loading, recent |-> form'.recent,
                     server |-> form'.server, adding |-> form'.adding, typed |-> form'.typed,
                     complaint |-> form'.complaint]
<1> DEFINE clean == IF screen = "login" THEN form ELSE T!FreshForm
<1>1. /\ screen' = "login" /\ shell' = T!NoShell
      /\ form' = [clean EXCEPT !.idps = found.idps, !.jwt = found.jwt]
  BY DEF T!initLogin
<1>2. clean = [idps |-> clean.idps, jwt |-> clean.jwt, loading |-> clean.loading, recent |-> clean.recent,
               server |-> clean.server, adding |-> clean.adding, typed |-> clean.typed,
               complaint |-> clean.complaint]
  <2>1. CASE screen = "login"
    BY <2>1 DEF PageInv, PageShape
  <2>2. CASE screen # "login"
    BY <2>2 DEF T!FreshForm, T!NoForm
  <2> QED
    BY <2>1, <2>2
<1>3. clean.loading = form.loading
  BY DEF PageInv, PageWaits, T!FreshForm, T!NoForm
<1> HIDE DEF clean
<1>4. form' = [idps |-> found.idps, jwt |-> found.jwt, loading |-> clean.loading, recent |-> clean.recent,
               server |-> clean.server, adding |-> clean.adding, typed |-> clean.typed,
               complaint |-> clean.complaint]
  BY <1>1, <1>2
<1>5. form'.loading = form.loading
  BY <1>3, <1>4
<1>6. PageWaits'
  BY <1>1, <1>5 DEF PageInv, PageWaits
<1>7. PageShell'
  BY <1>1 DEF PageInv, PageShell, T!NoShell
<1>8. PageBanner'
  BY <1>1 DEF PageInv, PageBanner, T!NoShell
<1> QED
  BY <1>1, <1>4, <1>6, <1>7, <1>8 DEF T!NoShell

LEMMA PageShowsApp ==
  ASSUME PageConstants, PageInv, NEW told \in BOOLEAN, T!initApp(told),
         \A q \in requests' : q.mine = FALSE
  PROVE  /\ PageWaits' /\ PageShell' /\ PageBanner'
         /\ screen' = "shell" /\ (screen # "shell" => shell'.dialog = None)
         /\ screen = "shell" => shell'.dialog = shell.dialog
         /\ shell' = [plugins |-> shell'.plugins, route |-> shell'.route, draft |-> shell'.draft,
                      reading |-> shell'.reading, banner |-> shell'.banner, timer |-> shell'.timer,
                      dialog |-> shell'.dialog]
         /\ form' = T!NoForm
         /\ loader' = [registered |-> loader'.registered, modules |-> loader'.modules]
<1>1. screen' = "shell" /\ form' = T!NoForm
  BY DEF T!initApp
<1>2. PageWaits'
  BY <1>1 DEF PageWaits, T!NoForm
<1>3. CASE screen = "shell"
  <2>1. shell' = [shell EXCEPT !.draft = @ /\ ~told] /\ loader' = loader
    BY <1>3 DEF T!initApp
  <2>2. shell' = [plugins |-> shell.plugins, route |-> shell.route, draft |-> shell'.draft,
                  reading |-> shell.reading, banner |-> shell.banner, timer |-> shell.timer,
                  dialog |-> shell.dialog]
    BY <2>1 DEF PageInv, PageShape
  <2>3. PageBanner'
    BY <2>2 DEF PageInv, PageBanner
  <2>4. PageShell'
    BY <1>1, <1>3, <2>1 DEF PageInv, PageShell
  <2> QED
    BY <1>1, <1>2, <1>3, <2>1, <2>2, <2>3, <2>4 DEF PageInv, PageShape
<1>4. CASE screen # "shell"
  <2>1. shell' = [T!NoShell EXCEPT !.plugins = "loading"]
        /\ loader' = [loader EXCEPT !.registered = IF loader.registered = 0 THEN 1 ELSE loader.registered]
    BY <1>4 DEF T!initApp, T!discoverAndRegister
  <2>2. shell' = [plugins |-> "loading", route |-> None, draft |-> FALSE, reading |-> FALSE,
                  banner |-> None, timer |-> None, dialog |-> None]
    BY <2>1 DEF T!NoShell
  <2>3. PageBanner'
    BY <2>2 DEF PageBanner, PageConstants
  <2>4. loader' = [registered |-> 1, modules |-> loader.modules]
    BY <2>1 DEF PageInv, PageShape, PageShell
  <2>5. PageShell'
    BY <1>1, <2>4 DEF PageShell
  <2> QED
    BY <1>1, <1>2, <1>4, <2>2, <2>3, <2>4, <2>5
<1> QED
  BY <1>3, <1>4

\* bootstrap() restores a session, or finds out what a login screen may offer.
LEMMA PageBoots ==
  ASSUME PageConstants, PageInv, T!Callback \/ T!Restore PROVE PageInv'
<1>1. UNCHANGED <<world, now, discovery>> /\ boot = "start"
  BY DEF T!Callback, T!Restore
<1>2. CASE T!Callback
  <2>1. T!initApp(TRUE) /\ screen = "none" /\ session' \in {"jwt", "rp"} /\ UNCHANGED <<boot, requests>>
    BY <1>2 DEF T!Callback
  <2>2. requests = {}
    BY <2>1 DEF PageInv, PageWaits
  <2>3. /\ PageWaits' /\ PageShell' /\ PageBanner' /\ screen' = "shell" /\ shell'.dialog = None
        /\ form' = T!NoForm
        /\ shell' = [plugins |-> shell'.plugins, route |-> shell'.route, draft |-> shell'.draft,
                     reading |-> shell'.reading, banner |-> shell'.banner, timer |-> shell'.timer,
                     dialog |-> shell'.dialog]
        /\ loader' = [registered |-> loader'.registered, modules |-> loader'.modules]
    BY <2>1, <2>2, PageShowsApp
  <2>4. PageShape'
    BY <1>1, <2>1, <2>2, <2>3 DEF PageInv, PageShape, T!NoForm
  <2>5. PageSession'
    BY <1>1, <2>1, <2>2, <2>3 DEF PageSession
  <2>6. PageOffers'
    BY <1>1, <2>1, <2>3 DEF PageInv, PageOffers
  <2> QED
    BY <2>3, <2>4, <2>5, <2>6 DEF PageInv
<1>3. CASE T!Restore /\ boot' = "native"
  <2>1. session' = "none" /\ UNCHANGED <<screen, form, requests, shell, loader>>
    BY <1>3 DEF T!Restore
  <2>2. PageShape'
    BY <1>1, <1>3, <2>1 DEF PageInv, PageShape
  <2>3. PageSession'
    BY <1>1, <1>3, <2>1 DEF PageInv, PageSession
  <2>4. PageOffers'
    BY <1>1, <1>3 DEF PageInv, PageOffers
  <2> QED
    BY <2>1, <2>2, <2>3, <2>4, PageKept DEF PageInv
<1>4. CASE T!Restore /\ boot' # "native"
  <2>1. T!initApp(FALSE) /\ boot' = "done" /\ session' \in T!Alive /\ requests' = T!Orphaned
    BY <1>4 DEF T!Restore
  <2>2. /\ \A q \in requests' : q.mine = FALSE /\ q = [kind |-> q.kind, server |-> q.server, mine |-> q.mine]
        /\ requests = {} => requests' = {}
    <3>1. ASSUME NEW r \in requests, NEW q, q = [r EXCEPT !.mine = FALSE]
          PROVE  q.mine = FALSE /\ q = [kind |-> q.kind, server |-> q.server, mine |-> q.mine]
      <4>1. r = [kind |-> r.kind, server |-> r.server, mine |-> r.mine]
        BY DEF PageInv, PageShape
      <4>2. q = [kind |-> r.kind, server |-> r.server, mine |-> FALSE]
        BY <3>1, <4>1
      <4> QED
        BY <4>2
    <3> QED
      BY <2>1, <3>1 DEF T!Orphaned
  <2>3. /\ PageWaits' /\ PageShell' /\ PageBanner' /\ screen' = "shell"
        /\ (screen # "shell" => shell'.dialog = None) /\ (screen = "shell" => shell'.dialog = shell.dialog)
        /\ form' = T!NoForm
        /\ shell' = [plugins |-> shell'.plugins, route |-> shell'.route, draft |-> shell'.draft,
                     reading |-> shell'.reading, banner |-> shell'.banner, timer |-> shell'.timer,
                     dialog |-> shell'.dialog]
        /\ loader' = [registered |-> loader'.registered, modules |-> loader'.modules]
    BY <2>1, <2>2, PageShowsApp
  <2>4. session # "none" => session' = session
    BY <2>1 DEF T!Alive
  <2>5. session = "none" => session' \in {"cookie", "jwt"} \/ (session' = "rp" /\ screen = "none")
    BY <2>1 DEF T!Alive
  <2>6. PageShape'
    BY <1>1, <2>1, <2>2, <2>3, <2>4, <2>5 DEF PageInv, PageShape, T!NoForm
  <2>7. PageSession'
    <3>1. screen = "none" => requests = {}
      BY DEF PageInv, PageWaits
    <3>2. session' = "rp" => requests' = {}
      BY <2>2, <2>4, <2>5, <3>1 DEF PageInv, PageSession
    <3>3. shell'.dialog # None => screen = "shell" /\ shell'.dialog = shell.dialog
      BY <2>3
    <3>4. screen = "shell" => (session' = "rp" <=> session = "rp")
      BY <2>4, <2>5
    <3> QED
      BY <1>1, <2>1, <2>3, <3>2, <3>3, <3>4 DEF PageInv, PageSession
  <2>8. PageOffers'
    BY <1>1, <2>1, <2>3 DEF PageInv, PageOffers
  <2> QED
    BY <2>3, <2>6, <2>7, <2>8 DEF PageInv
<1> QED
  BY <1>2, <1>3, <1>4

LEMMA PageDiscovers == ASSUME PageConstants, PageInv, T!Discover PROVE PageInv'
<1>1. UNCHANGED <<world, now, screen, form, requests, session, shell, loader>> /\ boot \in {"native", "config"}
  BY DEF T!Discover
<1>2. PICK idps, missed :
        /\ T!Found(idps, missed)
        /\ \/ idps = T!Usable(boot) /\ missed = FALSE
           \/ idps = <<>> /\ missed = (world[boot] # None)
  <2>1. CASE world[boot] # None /\ T!Found(T!normalize(world[boot]), FALSE)
    BY <2>1 DEF T!Usable
  <2>2. CASE T!Found(<<>>, world[boot] # None)
    BY <2>2
  <2> QED
    BY <2>1, <2>2, Zenon DEF T!Discover
<1>3. missed \in BOOLEAN
  BY <1>2
<1>4. missed = FALSE => idps = T!Usable(boot)
  BY <1>2 DEF T!Usable
<1>5. boot' = IF idps # <<>> \/ boot = "config" THEN "session" ELSE "config"
  BY <1>2 DEF T!Found
<1>6. /\ discovery' = [idps |-> idps, jwt |-> discovery.jwt, asked |-> TRUE, missed |-> discovery'.missed]
      /\ discovery'.missed = TRUE <=> (discovery.missed = TRUE \/ missed = TRUE)
      /\ discovery'.missed \in BOOLEAN
  <2>1. discovery' = [discovery EXCEPT !.idps = idps, !.asked = TRUE, !.missed = @ \/ missed]
    BY <1>2 DEF T!Found
  <2>2. discovery = [idps |-> discovery.idps, jwt |-> discovery.jwt, asked |-> discovery.asked,
                     missed |-> discovery.missed] /\ discovery.missed \in BOOLEAN
    BY DEF PageInv, PageShape, PageOffers
  <2>3. discovery'.missed = (discovery.missed \/ missed)
    BY <2>1, <2>2
  <2>4. discovery' = [idps |-> idps, jwt |-> discovery.jwt, asked |-> TRUE, missed |-> discovery'.missed]
    BY <2>1, <2>2
  <2> QED
    BY <1>3, <2>2, <2>3, <2>4
<1>7. PageShape'
  BY <1>1, <1>5, <1>6 DEF PageInv, PageShape
<1>8. PageSession'
  BY <1>1, <1>5 DEF PageInv, PageSession
<1>9. PageOffers'
  <2>1. T!Usable("native")' = T!Usable("native") /\ T!Usable("config")' = T!Usable("config")
    BY <1>1 DEF T!Usable
  <2>4. /\ discovery'.idps = idps /\ discovery'.asked = TRUE /\ discovery'.missed \in BOOLEAN
        /\ discovery'.missed = FALSE => discovery.missed = FALSE /\ missed = FALSE
        /\ boot = "config" /\ discovery.missed = FALSE => T!Usable("native") = <<>>
    BY <1>3, <1>6 DEF PageInv, PageOffers
  <2>2. CASE boot = "native"
    BY <1>3, <1>4, <1>5, <1>6, <2>1, <2>2, <2>4 DEF PageOffers, Published
  <2>3. CASE boot = "config"
    BY <1>3, <1>4, <1>5, <1>6, <2>1, <2>3, <2>4 DEF PageOffers, Published
  <2> QED
    BY <1>1, <2>2, <2>3
<1> QED
  BY <1>1, <1>7, <1>8, <1>9, PageKept DEF PageInv

LEMMA PageDiscovered == ASSUME PageConstants, PageInv, T!Discovered PROVE PageInv'
<1>1. /\ UNCHANGED <<world, now, requests, session, loader>> /\ boot = "session" /\ boot' = "done"
      /\ T!initLogin(discovery')
  BY DEF T!Discovered
<1>2. /\ discovery' = [idps |-> discovery.idps, jwt |-> discovery'.jwt, asked |-> discovery.asked,
                       missed |-> discovery'.missed]
      /\ discovery'.missed \in BOOLEAN
      /\ discovery'.missed = FALSE => discovery.missed = FALSE /\ discovery'.jwt = world.jwt
  <2>1. discovery = [idps |-> discovery.idps, jwt |-> discovery.jwt, asked |-> discovery.asked,
                     missed |-> discovery.missed] /\ discovery.missed \in BOOLEAN
    BY DEF PageInv, PageShape, PageOffers
  <2>2. discovery' = [discovery EXCEPT !.jwt = world.jwt] \/ discovery' = [discovery EXCEPT !.missed = TRUE]
    BY DEF T!Discovered
  <2> QED
    BY <2>1, <2>2
<1>3. screen # "none" \/ requests = {}
  BY DEF PageInv, PageWaits
<1>4. /\ PageWaits' /\ PageShell' /\ PageBanner' /\ screen' = "login" /\ shell'.dialog = None
      /\ shell' = [plugins |-> shell'.plugins, route |-> shell'.route, draft |-> shell'.draft,
                   reading |-> shell'.reading, banner |-> shell'.banner, timer |-> shell'.timer,
                   dialog |-> shell'.dialog]
      /\ form' = [idps |-> discovery'.idps, jwt |-> discovery'.jwt, loading |-> form'.loading, recent |-> form'.recent,
                  server |-> form'.server, adding |-> form'.adding, typed |-> form'.typed,
                  complaint |-> form'.complaint]
  BY <1>1, <1>3, PageLogsIn
<1>5. PageShape'
  BY <1>1, <1>2, <1>4 DEF PageInv, PageShape
<1>6. PageSession'
  BY <1>1, <1>4 DEF PageInv, PageSession
<1>7. PageOffers'
  <2>1. T!Usable("native")' = T!Usable("native") /\ T!Usable("config")' = T!Usable("config")
    BY <1>1 DEF T!Usable
  <2>2. discovery.asked \in BOOLEAN
    BY DEF PageInv, PageOffers
  <2>3. discovery'.missed = FALSE => Published(discovery.idps)
    BY <1>1, <1>2 DEF PageInv, PageOffers
  <2>4. discovery'.missed = FALSE => Published(discovery.idps)'
    BY <1>2, <2>1, <2>3 DEF Published
  <2>5. /\ discovery'.asked = discovery.asked /\ discovery'.missed \in BOOLEAN
        /\ form'.idps = discovery'.idps /\ form'.jwt = discovery'.jwt
        /\ (discovery'.missed = FALSE => discovery'.jwt = world'.jwt)
    BY <1>1, <1>2, <1>4
  <2> QED
    BY <1>1, <2>2, <2>4, <2>5 DEF PageOffers
<1> QED
  BY <1>4, <1>5, <1>6, <1>7 DEF PageInv

\* The login screen: what is typed, and what is asked.
LEMMA PageTypes ==
  ASSUME PageInv,
         \/ T!handleCompanionInput \/ T!handleCompanionSelectChange \/ T!handleAddServerInput
         \/ T!cancelAddServer \/ T!confirmAddServer \/ T!clearCurrentServer
  PROVE  PageInv'
<1>1. /\ UNCHANGED <<world, boot, discovery, screen, session, shell, loader, now, requests>>
      /\ \/ \E a : form' = [form EXCEPT !.server = a]
         \/ \E a : form' = [form EXCEPT !.typed = a, !.complaint = FALSE]
         \/ \E a, b : form' = [form EXCEPT !.adding = a, !.typed = None, !.complaint = b]
         \/ form' = [form EXCEPT !.complaint = TRUE]
         \/ \E a, b : form' = T!Closed([form EXCEPT !.recent = a, !.server = b])
         \/ \E a : form' = [form EXCEPT !.recent = a, !.server = None]
  <2>1. CASE T!handleCompanionInput
    BY <2>1 DEF T!handleCompanionInput, T!Typing, T!Login
  <2>2. CASE T!handleCompanionSelectChange
    BY <2>2 DEF T!handleCompanionSelectChange, T!Typing, T!Login
  <2>3. CASE T!handleAddServerInput
    BY <2>3 DEF T!handleAddServerInput, T!Typing, T!Login
  <2>4. CASE T!cancelAddServer
    BY <2>4 DEF T!cancelAddServer, T!Typing, T!Login, T!Closed
  <2>5. CASE T!confirmAddServer
    BY <2>5 DEF T!confirmAddServer, T!Typing, T!Login
  <2>6. CASE T!clearCurrentServer
    BY <2>6 DEF T!clearCurrentServer, T!Login
  <2> QED
    BY <2>1, <2>2, <2>3, <2>4, <2>5, <2>6
<1>2. form = [idps |-> form.idps, jwt |-> form.jwt, loading |-> form.loading, recent |-> form.recent,
              server |-> form.server, adding |-> form.adding, typed |-> form.typed, complaint |-> form.complaint]
  BY DEF PageInv, PageShape
<1>3. form' = [idps |-> form.idps, jwt |-> form.jwt, loading |-> form.loading, recent |-> form'.recent,
               server |-> form'.server, adding |-> form'.adding, typed |-> form'.typed, complaint |-> form'.complaint]
  BY <1>1, <1>2 DEF T!Closed
<1>4. form'.idps = form.idps /\ form'.jwt = form.jwt /\ form'.loading = form.loading
  BY <1>3
<1>5. PageShape'
  BY <1>1, <1>3 DEF PageInv, PageShape
<1>6. PageWaits'
  BY <1>1, <1>4 DEF PageInv, PageWaits
<1>7. T!Usable("native")' = T!Usable("native") /\ T!Usable("config")' = T!Usable("config")
  BY <1>1 DEF T!Usable
<1>8. PageOffers'
  BY <1>1, <1>4, <1>7 DEF PageInv, PageOffers, Published
<1> QED
  BY <1>1, <1>5, <1>6, <1>8, PageKept DEF PageInv

LEMMA PageAsks ==
  ASSUME PageInv, T!handleSubmit \/ T!handlePastedToken \/ T!startIdpLogin PROVE PageInv'
<1>1. PICK kind, target : T!Ask(kind, target)
  BY DEF T!handleSubmit, T!handlePastedToken, T!startIdpLogin
<1> DEFINE new == [kind |-> kind, server |-> target, mine |-> TRUE]
<1>2. /\ UNCHANGED <<world, boot, discovery, screen, session, shell, loader, now>> /\ screen = "login"
      /\ ~form.loading /\ requests' = requests \union {new} /\ form' = [form EXCEPT !.loading = TRUE]
  BY <1>1 DEF T!Ask, T!Login
<1>3. new = [kind |-> new.kind, server |-> new.server, mine |-> new.mine] /\ new.mine = TRUE
  OBVIOUS
<1> HIDE DEF new
<1>4. form = [idps |-> form.idps, jwt |-> form.jwt, loading |-> form.loading, recent |-> form.recent,
              server |-> form.server, adding |-> form.adding, typed |-> form.typed, complaint |-> form.complaint]
  BY DEF PageInv, PageShape
<1>5. form' = [idps |-> form.idps, jwt |-> form.jwt, loading |-> TRUE, recent |-> form.recent,
               server |-> form.server, adding |-> form.adding, typed |-> form.typed, complaint |-> form.complaint]
  BY <1>2, <1>4
<1>6. \A q \in requests : q.mine = FALSE
  BY <1>2 DEF PageInv, PageWaits
<1>7. form'.idps = form.idps /\ form'.jwt = form.jwt /\ form'.loading = TRUE
  BY <1>5
<1>8. PageShape'
  BY <1>2, <1>3, <1>5, <1>7 DEF PageInv, PageShape
<1>9. PageWaits'
  BY <1>2, <1>3, <1>6, <1>7 DEF PageWaits
<1>10. PageSession'
  BY <1>2 DEF PageInv, PageSession
<1>11. T!Usable("native")' = T!Usable("native") /\ T!Usable("config")' = T!Usable("config")
  BY <1>2 DEF T!Usable
<1>12. PageOffers'
  BY <1>2, <1>7, <1>11 DEF PageInv, PageOffers, Published
<1> QED
  BY <1>2, <1>8, <1>9, <1>10, <1>12, PageKept DEF PageInv

\* A sign-in is answered on whatever screen is up by then.
LEMMA PageAnswers ==
  ASSUME PageConstants, PageInv, NEW r \in requests, T!SignedIn(r) \/ T!Refused(r) \/ T!Redirected(r)
  PROVE  PageInv'
<1>1. UNCHANGED <<world, boot, discovery, now>> /\ session # "rp"
  BY DEF T!SignedIn, T!Refused, T!Redirected, PageInv, PageSession
<1>2. CASE T!SignedIn(r)
  <2>1. /\ session' \in {"jwt", "cookie"} /\ T!initApp(TRUE)
        /\ requests' = {[q EXCEPT !.mine = FALSE] : q \in requests \ {r}}
    BY <1>2 DEF T!SignedIn, T!Answered
  <2>2. \A q \in requests' : q.mine = FALSE /\ q = [kind |-> q.kind, server |-> q.server, mine |-> q.mine]
    <3>1. ASSUME NEW p \in requests, NEW q, q = [p EXCEPT !.mine = FALSE]
          PROVE  q.mine = FALSE /\ q = [kind |-> q.kind, server |-> q.server, mine |-> q.mine]
      <4>1. p = [kind |-> p.kind, server |-> p.server, mine |-> p.mine]
        BY DEF PageInv, PageShape
      <4>2. q = [kind |-> p.kind, server |-> p.server, mine |-> FALSE]
        BY <3>1, <4>1
      <4> QED
        BY <4>2
    <3> SUFFICES ASSUME NEW q \in requests'
                 PROVE  q.mine = FALSE /\ q = [kind |-> q.kind, server |-> q.server, mine |-> q.mine]
      OBVIOUS
    <3>2. PICK p \in requests : q = [p EXCEPT !.mine = FALSE]
      BY <2>1
    <3> QED
      BY <3>1, <3>2
  <2>3. /\ PageWaits' /\ PageShell' /\ PageBanner' /\ screen' = "shell"
        /\ (screen # "shell" => shell'.dialog = None) /\ (screen = "shell" => shell'.dialog = shell.dialog)
        /\ form' = T!NoForm
        /\ shell' = [plugins |-> shell'.plugins, route |-> shell'.route, draft |-> shell'.draft,
                     reading |-> shell'.reading, banner |-> shell'.banner, timer |-> shell'.timer,
                     dialog |-> shell'.dialog]
        /\ loader' = [registered |-> loader'.registered, modules |-> loader'.modules]
    BY <2>1, <2>2, PageShowsApp
  <2>4. PageShape'
    BY <1>1, <2>1, <2>2, <2>3 DEF PageInv, PageShape, T!NoForm
  <2>5. shell'.dialog # None => screen = "shell" /\ shell'.dialog = shell.dialog
    BY <2>3
  <2>6. PageSession'
    BY <1>1, <2>1, <2>5 DEF PageInv, PageSession
  <2>7. T!Usable("native")' = T!Usable("native") /\ T!Usable("config")' = T!Usable("config")
    BY <1>1 DEF T!Usable
  <2>8. PageOffers'
    BY <1>1, <2>3, <2>7 DEF PageInv, PageOffers, Published
  <2> QED
    BY <2>3, <2>4, <2>6, <2>8 DEF PageInv
<1>3. CASE T!Refused(r)
  <2>1. /\ form' = [form EXCEPT !.loading = @ /\ ~r.mine] /\ session' \in {"none", session}
        /\ requests' = requests \ {r} /\ UNCHANGED <<screen, shell, loader>>
    BY <1>3 DEF T!Refused, T!Answered
  <2>2. form = [idps |-> form.idps, jwt |-> form.jwt, loading |-> form.loading, recent |-> form.recent,
                server |-> form.server, adding |-> form.adding, typed |-> form.typed, complaint |-> form.complaint]
    BY DEF PageInv, PageShape
  <2>3. form.loading \in BOOLEAN /\ r.mine \in BOOLEAN
    BY DEF PageInv, PageWaits
  <2>4. form'.loading = (form.loading /\ ~r.mine)
    BY <2>1, <2>2
  <2>5. form' = [idps |-> form.idps, jwt |-> form.jwt, loading |-> form'.loading, recent |-> form.recent,
                 server |-> form.server, adding |-> form.adding, typed |-> form.typed, complaint |-> form.complaint]
    BY <2>1, <2>2
  <2>6. form'.idps = form.idps /\ form'.jwt = form.jwt
    BY <2>5
  <2>7. PageShape'
    BY <1>1, <2>1, <2>5 DEF PageInv, PageShape
  <2>8. PageWaits'
    <3>1. CASE r.mine = TRUE
      <4>1. form'.loading = FALSE /\ \A q \in requests' : q.mine = FALSE
        BY <2>1, <2>3, <2>4, <3>1 DEF PageInv, PageWaits
      <4> QED
        BY <2>1, <4>1 DEF PageInv, PageWaits
    <3>2. CASE r.mine = FALSE
      <4>1. form'.loading = form.loading
        BY <2>3, <2>4, <3>2
      <4> QED
        BY <2>1, <3>2, <4>1 DEF PageInv, PageWaits
    <3> QED
      BY <2>3, <3>1, <3>2
  <2>9. PageSession'
    BY <1>1, <2>1 DEF PageInv, PageSession
  <2>10. T!Usable("native")' = T!Usable("native") /\ T!Usable("config")' = T!Usable("config")
    BY <1>1 DEF T!Usable
  <2>11. PageOffers'
    BY <1>1, <2>1, <2>6, <2>10 DEF PageInv, PageOffers, Published
  <2> QED
    BY <2>1, <2>7, <2>8, <2>9, <2>11, PageKept DEF PageInv
<1>4. CASE T!Redirected(r)
  <2>1. /\ screen' = "away" /\ form' = T!NoForm /\ shell' = T!NoShell /\ requests' = {}
        /\ UNCHANGED <<session, loader>>
    BY <1>4 DEF T!Redirected
  <2>2. PageShape'
    BY <1>1, <2>1 DEF PageInv, PageShape, T!NoForm, T!NoShell
  <2>3. PageWaits' /\ PageShell' /\ PageBanner'
    BY <2>1 DEF PageInv, PageWaits, PageShell, PageBanner, T!NoForm, T!NoShell, PageConstants
  <2>4. PageSession'
    BY <1>1, <2>1 DEF PageSession, T!NoShell
  <2>5. T!Usable("native")' = T!Usable("native") /\ T!Usable("config")' = T!Usable("config")
    BY <1>1 DEF T!Usable
  <2>6. PageOffers'
    BY <1>1, <2>1, <2>5 DEF PageInv, PageOffers, Published
  <2> QED
    BY <2>2, <2>3, <2>4, <2>6 DEF PageInv
<1> QED
  BY <1>2, <1>3, <1>4

\* The banner that is shown is the first that is not over.
LEMMA PageActive ==
  ASSUME PageConstants, PageInv
  PROVE  /\ T!getActiveBanner \in Nat \union {Forever, None} /\ (T!getActiveBanner \in Nat => T!getActiveBanner > now)
         /\ NearBanners /\ T!getActiveBanner \in Nat => T!getActiveBanner <= TIMER_MAX
<1> DEFINE active == {i \in DOMAIN world.banners : T!Active(world.banners[i])}
<1>5. NearBanners => \A i \in active : world.banners[i] \in Nat => world.banners[i] <= TIMER_MAX
  BY DEF NearBanners, PageInv, PageShape
<1>1. active \subseteq Nat /\ \A i \in active : world.banners[i] \in Nat \union {Forever} /\ T!Active(world.banners[i])
  BY DEF PageInv, PageShape, PageConstants
<1>2. T!getActiveBanner = IF active = {} THEN None ELSE world.banners[CHOOSE i \in active : \A j \in active : i <= j]
  BY DEF T!getActiveBanner
<1> HIDE DEF active
<1>3. CASE active = {}
  BY <1>2, <1>3 DEF PageConstants
<1>4. CASE active # {}
  <2>1. \E x \in active : \A y \in active : ~(<<y, x>> \in OpToRel(<, Nat))
    BY <1>1, <1>4, NatLessThanWellFounded, WFMin, Zenon
  <2>6. \A x, y \in Nat : <<y, x>> \in OpToRel(<, Nat) <=> y < x
    BY DEF OpToRel
  <2>7. \E x \in active : \A y \in active : ~(y < x)
    BY <1>1, <2>1, <2>6, Zenon
  <2>2. \E x \in active : \A y \in active : x <= y
    <3>1. PICK x \in active : \A y \in active : ~(y < x)
      BY <2>7
    <3>2. \A y \in active : x <= y
      BY <1>1, <3>1
    <3> QED
      BY <3>2
  <2> DEFINE first == CHOOSE i \in active : \A j \in active : i <= j
  <2>3. first \in active
    BY <2>2
  <2>4. T!getActiveBanner = world.banners[first]
    BY <1>2, <1>4
  <2> HIDE DEF first
  <2>5. T!getActiveBanner \in Nat \union {Forever} /\ T!Active(T!getActiveBanner)
    BY <1>1, <2>3, <2>4
  <2>8. NearBanners /\ T!getActiveBanner \in Nat => T!getActiveBanner <= TIMER_MAX
    BY <1>5, <2>3, <2>4
  <2> QED
    BY <2>5, <2>8 DEF T!Active, PageConstants
<1> QED
  BY <1>3, <1>4

\* What a shell does while it stays: one lemma for its steps, and what they do to it.
LEMMA PageStays ==
  ASSUME PageInv, screen = "shell", UNCHANGED <<world, boot, discovery, screen, form, requests, session>>,
         now' \in Nat \ {0}, PageBanner', loader'.registered = loader.registered,
         loader' = [registered |-> loader'.registered, modules |-> loader'.modules],
         shell' = [plugins |-> shell'.plugins, route |-> shell'.route, draft |-> shell'.draft,
                   reading |-> shell'.reading, banner |-> shell'.banner, timer |-> shell'.timer,
                   dialog |-> shell'.dialog],
         \/ shell'.dialog = None
         \/ /\ shell'.dialog = [rp |-> shell'.dialog.rp, everywhere |-> shell'.dialog.everywhere]
            /\ shell'.dialog.rp \in BOOLEAN
            /\ boot \in {"start", "done"} => (shell'.dialog.rp = TRUE <=> session = "rp")
  PROVE  PageInv'
<1>1. PageShape'
  BY DEF PageInv, PageShape
<1>2. PageShell'
  BY DEF PageInv, PageShell
<1>3. PageSession'
  BY DEF PageInv, PageSession
<1> QED
  BY <1>1, <1>2, <1>3, PageKept DEF PageInv

LEMMA PageWorks ==
  ASSUME PageConstants, PageInv,
         \/ T!loadPlugins \/ (\E p \in Plugins : T!navigate(p)) \/ T!Work \/ T!Redraw
         \/ T!BannerRead \/ T!BannerOver
  PROVE  PageInv'
<1>1. screen = "shell" /\ UNCHANGED <<world, boot, discovery, screen, form, requests, session, now>>
  BY DEF T!loadPlugins, T!navigate, T!Work, T!Redraw, T!BannerRead, T!BannerOver, T!Routed, T!Shell
<1>2. \/ UNCHANGED loader
      \/ \E m : loader' = [loader EXCEPT !.modules = m]
  BY DEF T!loadPlugins, T!navigate, T!Work, T!Redraw, T!BannerRead, T!BannerOver, T!Routed
<1>3. /\ loader' = [registered |-> loader'.registered, modules |-> loader'.modules]
      /\ loader'.registered = loader.registered
  BY <1>2 DEF PageInv, PageShape
<1>4. shell = [plugins |-> shell.plugins, route |-> shell.route, draft |-> shell.draft, reading |-> shell.reading,
               banner |-> shell.banner, timer |-> shell.timer, dialog |-> shell.dialog]
  BY DEF PageInv, PageShape
<1>5. now \in Nat \ {0} /\ shell.reading \in BOOLEAN
  BY DEF PageInv, PageShape, PageBanner
<1>12. ASSUME shell' = [plugins |-> shell'.plugins, route |-> shell'.route, draft |-> shell'.draft,
                        reading |-> shell'.reading, banner |-> shell'.banner, timer |-> shell'.timer,
                        dialog |-> shell'.dialog],
              shell'.dialog = shell.dialog, PageBanner'
       PROVE  PageInv'
  <2>1. \/ shell'.dialog = None
        \/ /\ shell'.dialog = [rp |-> shell'.dialog.rp, everywhere |-> shell'.dialog.everywhere]
           /\ shell'.dialog.rp \in BOOLEAN
           /\ boot \in {"start", "done"} => (shell'.dialog.rp = TRUE <=> session = "rp")
    BY <1>12 DEF PageInv, PageSession
  <2>2. now' \in Nat \ {0}
    BY <1>1, <1>5
  <2> QED
    BY <1>1, <1>3, <1>12, <2>1, <2>2, PageStays
<1>6. ASSUME NEW goes, NEW drafted,
             shell' = [plugins |-> shell.plugins, route |-> goes, draft |-> drafted, reading |-> shell.reading,
                       banner |-> shell.banner, timer |-> shell.timer, dialog |-> shell.dialog]
      PROVE  PageInv'
  <2>1. PageBanner'
    BY <1>6 DEF PageInv, PageBanner
  <2> QED
    BY <1>6, <1>12, <2>1
<1>7. CASE T!loadPlugins
  <2>1. PICK p : shell' = T!Drawn([[shell EXCEPT !.plugins = "loaded", !.reading = TRUE] EXCEPT !.route = p])
    BY <1>7 DEF T!loadPlugins, T!Routed, T!Shell
  <2>2. shell' = [plugins |-> "loaded", route |-> p, draft |-> FALSE, reading |-> TRUE,
                  banner |-> shell.banner, timer |-> shell.timer, dialog |-> shell.dialog]
    BY <1>4, <2>1 DEF T!Drawn
  <2>3. shell.banner = None
    BY <1>7 DEF T!loadPlugins, PageInv, PageBanner
  <2>4. PageBanner'
    BY <2>2, <2>3 DEF PageInv, PageBanner
  <2> QED
    BY <1>12, <2>2, <2>4
<1>8. CASE \E p \in Plugins : T!navigate(p)
  <2>1. PICK p : shell' = T!Drawn([shell EXCEPT !.route = p])
    BY <1>8 DEF T!navigate, T!Routed, T!Shell
  <2>2. shell' = [plugins |-> shell.plugins, route |-> p, draft |-> FALSE, reading |-> shell.reading,
                  banner |-> shell.banner, timer |-> shell.timer, dialog |-> shell.dialog]
    BY <1>4, <2>1 DEF T!Drawn
  <2> QED
    BY <1>6, <2>2
<1>9. CASE T!Work \/ T!Redraw
  <2>1. shell' = [shell EXCEPT !.draft = TRUE] \/ shell' = [shell EXCEPT !.draft = FALSE]
    BY <1>9 DEF T!Work, T!Redraw, T!Shell, T!Drawn
  <2>2. CASE shell' = [shell EXCEPT !.draft = TRUE]
    <3>1. shell' = [plugins |-> shell.plugins, route |-> shell.route, draft |-> TRUE, reading |-> shell.reading,
                    banner |-> shell.banner, timer |-> shell.timer, dialog |-> shell.dialog]
      BY <1>4, <2>2
    <3> QED
      BY <1>6, <3>1
  <2>3. CASE shell' = [shell EXCEPT !.draft = FALSE]
    <3>1. shell' = [plugins |-> shell.plugins, route |-> shell.route, draft |-> FALSE, reading |-> shell.reading,
                    banner |-> shell.banner, timer |-> shell.timer, dialog |-> shell.dialog]
      BY <1>4, <2>3
    <3> QED
      BY <1>6, <3>1
  <2> QED
    BY <2>1, <2>2, <2>3
<1>10. CASE T!BannerRead
  <2>1. PICK b \in {T!getActiveBanner, None} : shell' = T!applyBanner(b)
    BY <1>10 DEF T!BannerRead, T!Shell
  <2>2. b \in Nat \union {Forever, None} /\ (b \in Nat => b > now)
        /\ (NearBanners /\ b \in Nat => b <= TIMER_MAX)
    BY PageActive DEF PageConstants
  <2> DEFINE at == IF b \in {None, Forever} THEN None ELSE now + T!Delay(b)
  <2>3. shell' = T!Drawn([shell EXCEPT !.reading = FALSE, !.banner = b, !.timer = at])
    BY <2>1 DEF T!applyBanner
  <2>4. /\ b \in Nat => at \in Nat /\ at <= b /\ (NearBanners => at = b)
        /\ b \notin Nat => at = None
    BY <1>5, <2>2 DEF T!Delay, PageConstants
  <2> HIDE DEF at
  <2>5. shell' = [plugins |-> shell.plugins, route |-> shell.route, draft |-> FALSE, reading |-> FALSE,
                  banner |-> b, timer |-> at, dialog |-> shell.dialog]
    BY <1>4, <2>3 DEF T!Drawn
  <2>6. shell.plugins = "loaded"
    BY <1>10, <1>5 DEF T!BannerRead, PageInv, PageBanner
  <2>7. PageBanner'
    BY <2>2, <2>4, <2>5, <2>6 DEF PageBanner
  <2> QED
    BY <1>12, <2>5, <2>7
<1>11. CASE T!BannerOver
  <2>1. shell' = T!Drawn([shell EXCEPT !.banner = None, !.timer = None])
    BY <1>11 DEF T!BannerOver, T!Shell
  <2>2. shell' = [plugins |-> shell.plugins, route |-> shell.route, draft |-> FALSE, reading |-> shell.reading,
                  banner |-> None, timer |-> None, dialog |-> shell.dialog]
    BY <1>4, <2>1 DEF T!Drawn
  <2>3. PageBanner'
    BY <2>2 DEF PageInv, PageBanner, PageConstants
  <2> QED
    BY <1>12, <2>2, <2>3
<1> QED
  BY <1>7, <1>8, <1>9, <1>10, <1>11

\* The logout dialog.
LEMMA PageDialogs ==
  ASSUME PageConstants, PageInv, T!handleLogout \/ T!toggleEverywhere \/ T!closeDialog PROVE PageInv'
<1>1. screen = "shell" /\ UNCHANGED <<world, boot, discovery, screen, form, requests, session, now, loader>>
  BY DEF T!handleLogout, T!toggleEverywhere, T!closeDialog, T!Shell
<1>2. shell = [plugins |-> shell.plugins, route |-> shell.route, draft |-> shell.draft, reading |-> shell.reading,
               banner |-> shell.banner, timer |-> shell.timer, dialog |-> shell.dialog]
  BY DEF PageInv, PageShape
<1>3. loader' = [registered |-> loader'.registered, modules |-> loader'.modules] /\ now' \in Nat \ {0}
  BY <1>1 DEF PageInv, PageShape
<1>4. ASSUME NEW asks,
             shell' = [plugins |-> shell.plugins, route |-> shell.route, draft |-> shell.draft,
                       reading |-> shell.reading, banner |-> shell.banner, timer |-> shell.timer, dialog |-> asks],
             \/ asks = None
             \/ /\ asks = [rp |-> asks.rp, everywhere |-> asks.everywhere]
                /\ asks.rp \in BOOLEAN
                /\ boot \in {"start", "done"} => (asks.rp = TRUE <=> session = "rp")
      PROVE  PageInv'
  <2>1. PageBanner'
    BY <1>4 DEF PageInv, PageBanner
  <2>2. shell'.dialog = asks
    BY <1>4
  <2> QED
    BY <1>1, <1>3, <1>4, <2>1, <2>2, PageStays
<1>5. CASE T!handleLogout
  <2> DEFINE asks == [rp |-> session = "rp", everywhere |-> everywhere]
  <2>1. shell' = [shell EXCEPT !.dialog = asks]
    BY <1>5 DEF T!handleLogout, T!Shell
  <2>2. /\ asks = [rp |-> asks.rp, everywhere |-> asks.everywhere] /\ asks.rp \in BOOLEAN
        /\ asks.rp = TRUE <=> session = "rp"
    OBVIOUS
  <2> HIDE DEF asks
  <2>3. shell' = [plugins |-> shell.plugins, route |-> shell.route, draft |-> shell.draft,
                  reading |-> shell.reading, banner |-> shell.banner, timer |-> shell.timer, dialog |-> asks]
    BY <1>2, <2>1
  <2> QED
    BY <1>4, <2>2, <2>3
<1>6. CASE T!toggleEverywhere
  <2>1. shell.dialog # None /\ shell' = [shell EXCEPT !.dialog.everywhere = ~@]
    BY <1>6 DEF T!toggleEverywhere, T!Shell
  <2> DEFINE asks == [shell.dialog EXCEPT !.everywhere = ~@]
  <2>2. shell.dialog = [rp |-> shell.dialog.rp, everywhere |-> shell.dialog.everywhere]
        /\ shell.dialog.rp \in BOOLEAN
        /\ (boot \in {"start", "done"} => (shell.dialog.rp = TRUE <=> session = "rp"))
    BY <2>1 DEF PageInv, PageSession
  <2>3. asks = [rp |-> shell.dialog.rp, everywhere |-> asks.everywhere]
    BY <2>2
  <2>4. shell' = [shell EXCEPT !.dialog = asks]
    BY <2>1
  <2>5. asks.rp = shell.dialog.rp /\ asks = [rp |-> asks.rp, everywhere |-> asks.everywhere]
    BY <2>3
  <2> HIDE DEF asks
  <2>6. shell' = [plugins |-> shell.plugins, route |-> shell.route, draft |-> shell.draft,
                  reading |-> shell.reading, banner |-> shell.banner, timer |-> shell.timer, dialog |-> asks]
    BY <1>2, <2>4
  <2> QED
    BY <1>4, <2>2, <2>5, <2>6
<1>7. CASE T!closeDialog
  <2>1. shell' = [shell EXCEPT !.dialog = None]
    BY <1>7 DEF T!closeDialog, T!Shell
  <2>2. shell' = [plugins |-> shell.plugins, route |-> shell.route, draft |-> shell.draft,
                  reading |-> shell.reading, banner |-> shell.banner, timer |-> shell.timer, dialog |-> None]
    BY <1>2, <2>1
  <2> QED
    BY <1>4, <2>2
<1> QED
  BY <1>5, <1>6, <1>7

\* Signing out, and what no screen sees.
LEMMA PageEnds ==
  ASSUME PageConstants, PageInv, T!handleLogoutConfirmed \/ T!Expire PROVE PageInv'
<1>1. /\ UNCHANGED <<world, boot, discovery, requests, loader, now>> /\ session' = "none"
      /\ screen = "shell"
  BY DEF T!handleLogoutConfirmed, T!Expire, PageInv, PageShell, T!NoShell
<1>2. T!Usable("native")' = T!Usable("native") /\ T!Usable("config")' = T!Usable("config")
  BY <1>1 DEF T!Usable
<1>3. T!initLogin(discovery) \/ (screen' = "away" /\ shell' = T!NoShell /\ UNCHANGED form)
  BY Zenon DEF T!handleLogoutConfirmed, T!Expire
<1>4. CASE T!initLogin(discovery)
  <2>1. /\ PageWaits' /\ PageShell' /\ PageBanner' /\ screen' = "login" /\ shell'.dialog = None
        /\ shell' = [plugins |-> shell'.plugins, route |-> shell'.route, draft |-> shell'.draft,
                     reading |-> shell'.reading, banner |-> shell'.banner, timer |-> shell'.timer,
                     dialog |-> shell'.dialog]
        /\ form' = [idps |-> discovery.idps, jwt |-> discovery.jwt, loading |-> form'.loading, recent |-> form'.recent,
                    server |-> form'.server, adding |-> form'.adding, typed |-> form'.typed,
                    complaint |-> form'.complaint]
    BY <1>1, <1>4, PageLogsIn
  <2>2. PageShape'
    BY <1>1, <2>1 DEF PageInv, PageShape
  <2>3. PageSession'
    BY <1>1, <2>1 DEF PageSession
  <2>4. form'.idps = discovery'.idps /\ form'.jwt = discovery'.jwt
    BY <1>1, <2>1
  <2>5. PageOffers'
    BY <1>1, <1>2, <2>4 DEF PageInv, PageOffers, Published
  <2> QED
    BY <2>1, <2>2, <2>3, <2>5 DEF PageInv
<1>5. CASE screen' = "away" /\ shell' = T!NoShell /\ UNCHANGED form
  <2>1. PageShape'
    BY <1>1, <1>5 DEF PageInv, PageShape, T!NoShell
  <2>2. PageWaits' /\ PageShell' /\ PageBanner'
    BY <1>1, <1>5 DEF PageInv, PageWaits, PageShell, PageBanner, T!NoShell, PageConstants
  <2>3. PageSession'
    BY <1>1, <1>5 DEF PageSession, T!NoShell
  <2>4. PageOffers'
    BY <1>1, <1>2, <1>5 DEF PageInv, PageOffers, Published
  <2> QED
    BY <2>1, <2>2, <2>3, <2>4 DEF PageInv
<1> QED
  BY <1>3, <1>4, <1>5

LEMMA PageOthers ==
  ASSUME PageConstants, PageInv, T!Elsewhere \/ (\E p \in Plugins : T!Imported(p)) \/ T!Tick PROVE PageInv'
<1>1. UNCHANGED <<world, boot, discovery, screen, form, requests, session, shell>>
  BY DEF T!Elsewhere, T!Imported, T!Tick
<1>2. now' = now \/ now' = now + 1
  BY DEF T!Elsewhere, T!Imported, T!Tick
<1>3. loader' = loader \/ \E p, m : loader' = [loader EXCEPT !.modules[p] = m]
  BY DEF T!Elsewhere, T!Imported, T!Tick
<1>4. loader' = [registered |-> loader'.registered, modules |-> loader'.modules]
      /\ loader'.registered = loader.registered
  BY <1>3 DEF PageInv, PageShape
<1>5. PageShape'
  BY <1>1, <1>2, <1>4 DEF PageInv, PageShape
<1>6. PageShell'
  BY <1>1, <1>4 DEF PageInv, PageShell
<1> QED
  BY <1>1, <1>5, <1>6, PageKept DEF PageInv

LEMMA PageStep == ASSUME PageConstants, PageInv, [T!Next]_(T!vars) PROVE PageInv'
<1>1. CASE UNCHANGED T!vars
  BY <1>1, PageKept DEF T!vars, PageInv
<1>2. CASE T!Next
  <2>1. CASE T!LoginStep
    BY <2>1, PageTypes, PageAsks, PageAnswers, PageOthers DEF T!LoginStep
  <2>2. CASE T!ShellStep
    BY <2>2, PageWorks, PageDialogs, PageEnds, PageOthers DEF T!ShellStep
  <2> QED
    BY <1>2, <2>1, <2>2, PageBoots, PageDiscovers, PageDiscovered DEF T!Next
<1> QED
  BY <1>1, <1>2

\* Only a dialog that asked remembers an answer; a banner that a timer can reach goes at its end.
LEMMA PageRemembers ==
  ASSUME PageInv, [T!Next]_(T!vars) PROVE T!AnswerIsTheUsersStep
<1> SUFFICES ASSUME everywhere' # everywhere PROVE shell.dialog # None /\ shell.dialog.rp
  BY Zenon DEF T!AnswerIsTheUsersStep
<1>1. T!Next
  BY DEF T!vars
<1>2. ~T!LoginStep
  BY DEF T!LoginStep, T!handleCompanionInput, T!handleCompanionSelectChange, T!handleAddServerInput,
     T!cancelAddServer,
         T!confirmAddServer, T!clearCurrentServer, T!Elsewhere, T!handleSubmit, T!handlePastedToken,
         T!startIdpLogin, T!SignedIn, T!Refused, T!Redirected, T!Typing, T!Ask, T!Login
<1>3. ~T!Callback /\ ~T!Restore /\ ~T!Discover /\ ~T!Discovered
  BY Zenon DEF T!Callback, T!Restore, T!Discover, T!Discovered
<1>4. T!handleLogoutConfirmed
  BY <1>1, <1>2, <1>3 DEF T!Next, T!ShellStep, T!loadPlugins, T!navigate, T!Routed, T!Imported, T!Work,
     T!Redraw,
     T!BannerRead, T!BannerOver, T!Tick, T!handleLogout, T!toggleEverywhere, T!closeDialog, T!Expire
<1>5. shell.dialog # None /\ everywhere' = T!Remembered(shell.dialog)
  BY <1>4, Zenon DEF T!handleLogoutConfirmed
<1>6. shell.dialog.rp
  BY <1>5, Zenon DEF T!Remembered
<1> QED
  BY <1>5, <1>6

LEMMA PageKeepsBanner ==
  ASSUME PageConstants, PageInv, NearBanners, [T!Next]_(T!vars) PROVE T!BannerStaysStep
<1> SUFFICES ASSUME screen = "shell", screen' = "shell", shell.banner # None, shell'.banner = None
             PROVE  shell.banner # Forever /\ shell.banner <= now
  BY Zenon DEF T!BannerStaysStep
<1>1. shell = [plugins |-> shell.plugins, route |-> shell.route, draft |-> shell.draft, reading |-> shell.reading,
               banner |-> shell.banner, timer |-> shell.timer, dialog |-> shell.dialog]
  BY DEF PageInv, PageShape
<1>2. CASE T!BannerOver
  <2>1. shell.timer # None /\ shell.timer <= now
    BY <1>2 DEF T!BannerOver, T!Due
  <2>2. shell.banner \in Nat
    BY <2>1 DEF PageInv, PageBanner
  <2> QED
    BY <2>1, <2>2 DEF PageInv, PageBanner, PageConstants
<1>3. ASSUME shell'.banner = shell.banner PROVE FALSE
  BY <1>3
<1>4. CASE UNCHANGED T!vars
  BY <1>3, <1>4 DEF T!vars
<1>5. CASE T!Callback \/ T!Restore \/ \E r \in requests : T!SignedIn(r)
  <2>1. UNCHANGED shell \/ \E n : T!initApp(n)
    BY <1>5, Zenon DEF T!Callback, T!Restore, T!SignedIn
  <2>2. ASSUME NEW n, T!initApp(n) PROVE FALSE
    <3>1. shell' = [shell EXCEPT !.draft = @ /\ ~n]
      BY <2>2 DEF T!initApp
    <3>2. shell'.banner = shell.banner
      BY <1>1, <3>1
    <3> QED
      BY <1>3, <3>2
  <2> QED
    BY <1>3, <2>1, <2>2
<1>6. CASE T!Discovered \/ T!handleLogoutConfirmed \/ T!Expire \/ \E r \in requests : T!Redirected(r)
  <2>1. (\E found : T!initLogin(found)) \/ screen' = "away"
    BY <1>6, Zenon DEF T!Discovered, T!handleLogoutConfirmed, T!Expire, T!Redirected
  <2> QED
    BY <2>1 DEF T!initLogin
<1>7. CASE T!Discover \/ T!Elsewhere \/ T!Tick \/ (\E p \in Plugins : T!Imported(p)) \/ \E r \in requests : T!Refused(r)
  <2>1. UNCHANGED shell
    BY <1>7, Zenon DEF T!Discover, T!Elsewhere, T!Tick, T!Imported, T!Refused
  <2> QED
    BY <1>3, <2>1
<1>8. CASE \/ T!handleCompanionInput \/ T!handleCompanionSelectChange \/ T!handleAddServerInput
           \/ T!cancelAddServer \/ T!confirmAddServer \/ T!clearCurrentServer
           \/ T!handleSubmit \/ T!handlePastedToken \/ T!startIdpLogin
  <2>1. screen = "login"
    BY <1>8 DEF T!handleCompanionInput, T!handleCompanionSelectChange, T!handleAddServerInput,
       T!cancelAddServer,
       T!confirmAddServer, T!clearCurrentServer, T!handleSubmit, T!handlePastedToken, T!startIdpLogin,
       T!Typing, T!Ask, T!Login
  <2> QED
    BY <2>1
<1>9. CASE T!loadPlugins \/ \E p \in Plugins : T!navigate(p)
  <2>1. \E p : \/ shell' = T!Drawn([[shell EXCEPT !.plugins = "loaded", !.reading = TRUE] EXCEPT !.route = p])
               \/ shell' = T!Drawn([shell EXCEPT !.route = p])
    BY <1>9 DEF T!loadPlugins, T!navigate, T!Routed, T!Shell
  <2>2. shell'.banner = shell.banner
    BY <1>1, <2>1 DEF T!Drawn
  <2> QED
    BY <1>3, <2>2
<1>10. CASE T!Work \/ T!Redraw
  <2>1. shell' = [shell EXCEPT !.draft = TRUE] \/ shell' = [shell EXCEPT !.draft = FALSE]
    BY <1>10 DEF T!Work, T!Redraw, T!Shell, T!Drawn
  <2>2. shell'.banner = shell.banner
    BY <1>1, <2>1
  <2> QED
    BY <1>3, <2>2
<1>11. CASE T!BannerRead
  BY <1>11 DEF T!BannerRead, PageInv, PageBanner
<1>12. CASE T!handleLogout \/ T!toggleEverywhere \/ T!closeDialog
  <2>1. \/ \E d : shell' = [shell EXCEPT !.dialog = d]
        \/ shell' = [shell EXCEPT !.dialog.everywhere = ~@]
    BY <1>12 DEF T!handleLogout, T!toggleEverywhere, T!closeDialog, T!Shell
  <2>2. shell'.banner = shell.banner
    BY <1>1, <2>1
  <2> QED
    BY <1>3, <2>2
<1>13. CASE T!LoginStep
  BY <1>5, <1>6, <1>7, <1>8, <1>13 DEF T!LoginStep
<1>14. CASE T!ShellStep
  BY <1>2, <1>6, <1>7, <1>9, <1>10, <1>11, <1>12, <1>14 DEF T!ShellStep
<1> QED
  BY <1>4, <1>5, <1>6, <1>7, <1>13, <1>14 DEF T!Next

\* However the screens are swapped: the login screen waits for a sign-in of its own and offers what was
\* published, the plugins are registered once, a banner goes in time, and the logout dialog offers to leave
\* the provider exactly when there is a session to leave (app.ts, cca-login.ts, cca-shell.ts).
THEOREM PageIsWhatItSays ==
  ASSUME PageConstants
  PROVE  T!Spec => [](/\ T!LoadingIsWaiting /\ T!OffersWhatIsPublished /\ T!PluginsOnce /\ T!BannerInTime
                      /\ T!DialogOffersWhatCanEnd)
<1>1. T!Init => PageInv
  BY PageStarts
<1>2. PageInv /\ [T!Next]_(T!vars) => PageInv'
  BY PageStep
<1>3. ASSUME PageInv
      PROVE  /\ T!LoadingIsWaiting /\ T!OffersWhatIsPublished /\ T!PluginsOnce /\ T!BannerInTime
             /\ T!DialogOffersWhatCanEnd
  <2>1. T!LoadingIsWaiting
    <3>1. (\E q \in requests : q.mine) <=> \E q \in requests : q.mine = TRUE
      BY <1>3 DEF PageInv, PageWaits
    <3>2. form.loading \in BOOLEAN /\ (form.loading = TRUE <=> \E q \in requests : q.mine = TRUE)
      BY <1>3 DEF PageInv, PageWaits
    <3> QED
      BY <3>1, <3>2, Zenon DEF T!LoadingIsWaiting
  <2>2. T!OffersWhatIsPublished
    <3> SUFFICES ASSUME screen = "login", boot = "done", discovery.asked, ~discovery.missed
                 PROVE  form.jwt = world.jwt /\ Published(form.idps)
      BY Zenon DEF T!OffersWhatIsPublished, Published
    <3> QED
      BY <1>3 DEF PageInv, PageOffers
  <2>3. T!PluginsOnce
    BY <1>3 DEF PageInv, PageShell, T!PluginsOnce
  <2>4. T!BannerInTime
    <3>1. shell.banner \in Nat => screen = "shell"
      BY <1>3 DEF PageInv, PageShell, T!NoShell, PageConstants
    <3> QED
      BY <1>3, <3>1 DEF PageInv, PageShape, PageBanner, T!BannerInTime, T!Due, PageConstants
  <2>5. T!DialogOffersWhatCanEnd
    <3> SUFFICES ASSUME boot = "done", shell.dialog # None PROVE shell.dialog.rp = (session = "rp")
      BY Zenon DEF T!DialogOffersWhatCanEnd
    <3> QED
      BY <1>3 DEF PageInv, PageSession
  <2> QED
    BY <2>1, <2>2, <2>3, <2>4, <2>5
<1>4. PageInv => /\ T!LoadingIsWaiting /\ T!OffersWhatIsPublished /\ T!PluginsOnce /\ T!BannerInTime
                 /\ T!DialogOffersWhatCanEnd
  BY <1>3
<1> QED
  BY <1>1, <1>2, <1>4, PTL DEF T!Spec

\* How to log out is remembered from those who were asked (cca-logout-dialog.ts).
THEOREM AnswersAreAsked == ASSUME PageConstants PROVE T!Spec => T!AnswerIsTheUsers
<1>1. T!Init => PageInv
  BY PageStarts
<1>2. PageInv /\ [T!Next]_(T!vars) => PageInv'
  BY PageStep
<1>3. PageInv /\ [T!Next]_(T!vars) => T!AnswerIsTheUsersStep
  BY PageRemembers
<1> QED
  BY <1>1, <1>2, <1>3, PTL DEF T!Spec, T!AnswerIsTheUsers

\* Where no end is beyond what a timer can count, a banner is taken away only at its end (cca-shell.ts).
THEOREM BannersStay == ASSUME PageConstants, NearBanners PROVE T!Spec => T!BannerStays
<1>1. T!Init => PageInv
  BY PageStarts
<1>2. PageInv /\ [T!Next]_(T!vars) => PageInv'
  BY PageStep
<1>3. PageInv /\ [T!Next]_(T!vars) => T!BannerStaysStep
  BY PageKeepsBanner
<1> QED
  BY <1>1, <1>2, <1>3, PTL DEF T!Spec, T!BannerStays

=============================================================================
