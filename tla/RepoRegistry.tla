---------------------------- MODULE RepoRegistry ----------------------------
(***************************************************************************)
(* Which repository tracks which database: DesignMgmtService.registerRepo, *)
(* unlinkRepo, deleteRepo and detachTarget over the git_repo documents of  *)
(* CouchCompanionStore, and the sync: and conflict: records that name      *)
(* their repository.                                                       *)
(*                                                                         *)
(* Every write is a get for the revision, then a PUT or a DELETE carrying  *)
(* it; the body was put together earlier, from a listing.  A step is one   *)
(* request.  registerRepo strips its target from the other repositories    *)
(* with Promise.all: when one of these strips fails the call has failed,   *)
(* but the others go on.                                                   *)
(***************************************************************************)
EXTENDS Naturals, FiniteSets, FiniteSetsExt, TLC

CONSTANTS
  Dbs,       \* databases whose design documents may be tracked
  Urls,      \* repositories, as repoIdentity tells them apart
  Ids,       \* git_repo document ids, in _all_docs order
  Calls,     \* invocations, of one tab or of several; each is made once
  Nowhere,   \* the url of a document that was never written
  MaxRev,    \* bound on the revisions of one document
  Failures,  \* TRUE: requests may fail and tabs may close
  Aftermath  \* TRUE: start with whatever earlier races and failures may have left

ASSUME IdsAssumption == Ids \subseteq Nat /\ IsFiniteSet(Ids) /\ Ids # {}
ASSUME NowhereAssumption == Nowhere \notin Urls
ASSUME RevAssumption == MaxRev \in Nat /\ Failures \in BOOLEAN /\ Aftermath \in BOOLEAN

VARIABLES
  repo,    \* [Ids -> [rev, live, url, targets]]: the git_repo documents and their tombstones
  mark,    \* [Dbs -> [rev, live, owner]]: the records of a database, with their git_repo_id
  pc,      \* where each call is
  job,     \* what it was asked: [kind, db, id, url]
  seen,    \* the repositories as it listed them
  got,     \* the revision its own store.put has fetched; 0 for none
  strip,   \* [Ids -> [at, rows, rev]]: its detachTarget of each repository
  alone    \* no other call has been under way since it started

vars == <<repo, mark, pc, job, seen, got, strip, alone>>

----------------------------------------------------------------------------
(* Documents. *)

Unwritten == [rev |-> 0, live |-> FALSE, url |-> Nowhere, targets |-> {}]
NoMark == [rev |-> 0, live |-> FALSE, owner |-> Min(Ids)]

Tracking(id, db) == repo[id].live /\ db \in repo[id].targets
Claims(db) == {id \in Ids : Tracking(id, db)}

\* The revision a write has to name; none for a document that is not there.
RevOf(doc) == IF doc.live THEN doc.rev ELSE 0

Carried_Null(doc, own) == IF doc.live THEN doc.rev ELSE Nowhere

\* store.put: the revision it has just read or, without a document, the body's own: that
\* of the listing the body came from, none for a new body.
Carried(doc, own) == IF doc.live THEN doc.rev ELSE own

\* CouchDB takes a write that carries the current revision, or none for a new document.
Refuses(doc, rev) == RevOf(doc) # rev
Accepts(doc, rev) == ~Refuses(doc, rev) /\ doc.rev < MaxRev

RepoDoc(id, url, targets) == [rev |-> repo[id].rev + 1, live |-> TRUE, url |-> url, targets |-> targets]
Tombstone(blank, doc) == [blank EXCEPT !.rev = doc.rev + 1]

----------------------------------------------------------------------------
(* Calls. *)

NoStrip == [at |-> "done", rows |-> {}, rev |-> 0]
NoJob == [kind |-> "none", db |-> Nowhere, id |-> Min(Ids), url |-> Nowhere]
Stripping(c) == {id \in Ids : strip[c][id].at # "done"}
Active(c) == pc[c] \notin {"idle", "over"} \/ Stripping(c) # {}

Registered == [rev : {1}, live : {TRUE}, url : Urls, targets : (SUBSET Dbs) \ {{}}]
Marked == [rev : {1}, live : {TRUE}, owner : Ids]

Init ==
  /\ repo \in [Ids -> {Unwritten} \cup IF Aftermath THEN Registered ELSE {}]
  /\ mark \in [Dbs -> {NoMark} \cup IF Aftermath THEN Marked ELSE {}]
  /\ pc = [c \in Calls |-> "idle"]
  /\ job = [c \in Calls |-> NoJob]
  /\ seen = [c \in Calls |-> [id \in Ids |-> Unwritten]]
  /\ got = [c \in Calls |-> 0]
  /\ strip = [c \in Calls |-> [id \in Ids |-> NoStrip]]
  /\ alone = [c \in Calls |-> FALSE]

\* The call is over; strips that are still running keep what they need.
Over(c) ==
  /\ pc' = [pc EXCEPT ![c] = "over"]
  /\ got' = [got EXCEPT ![c] = 0]

Forgotten(c) ==
  /\ alone' = [alone EXCEPT ![c] = FALSE]
  /\ job' = [job EXCEPT ![c] = NoJob]
  /\ seen' = [seen EXCEPT ![c] = [id \in Ids |-> Unwritten]]

StartCall(c, kind, db, id, url) ==
  /\ pc[c] = "idle"
  /\ job' = [job EXCEPT ![c] = [kind |-> kind, db |-> db, id |-> id, url |-> url]]
  /\ alone' = [o \in Calls |-> o = c /\ \A other \in Calls : ~Active(other)]
  /\ UNCHANGED <<repo, mark, got>>

Listing(db, id) == [at |-> "list", rows |-> {}, rev |-> 0]

\* registerRepo: the repositories are listed, and the first one with this url is the one.
StartRegister(c, db, url) ==
  /\ seen' = [seen EXCEPT ![c] = repo]
  /\ LET existing == {id \in Ids : repo[id].live /\ repo[id].url = url}
         fresh == {id \in Ids : repo[id].rev = 0 /\ \A o \in Calls : job[o].kind = "register" => job[o].id # id}
     IN \E id \in IF existing # {} THEN {Min(existing)} ELSE fresh :
          StartCall(c, "register", db, id, url)
  /\ pc' = [pc EXCEPT ![c] = "get"]
  /\ UNCHANGED strip

\* The document the call itself writes, and the revision its body came with.
Target(c) == IF job[c].kind = "sync" THEN mark[job[c].db] ELSE repo[job[c].id]
OwnRev(c) == IF job[c].kind = "sync" THEN 0 ELSE seen[c][job[c].id].rev

GetRev(c) ==
  /\ pc[c] = "get"
  /\ got' = [got EXCEPT ![c] = Carried(Target(c), OwnRev(c))]
  /\ pc' = [pc EXCEPT ![c] = "put"]
  /\ UNCHANGED <<repo, mark, job, seen, strip, alone>>

\* The repositories to reclaim the target from, as they were listed.
Others_None(c) == {}
Others_Self(c) == {id \in Ids : seen[c][id].live /\ job[c].db \in seen[c][id].targets}
Others(c) == {id \in Ids \ {job[c].id} : seen[c][id].live /\ job[c].db \in seen[c][id].targets}

\* The merged or new document; once it is durable, every other claim is stripped.
PutRepo(c) ==
  LET id == job[c].id
      db == job[c].db
  IN /\ pc[c] = "put" /\ job[c].kind = "register"
     /\ Accepts(repo[id], got[c])
     /\ repo' = [repo EXCEPT ![id] = RepoDoc(id, job[c].url, seen[c][id].targets \cup {db})]
     /\ strip' = [strip EXCEPT ![c] =
          [other \in Ids |-> IF other \in Others(c) THEN Listing(db, other) ELSE NoStrip]]
     /\ pc' = [pc EXCEPT ![c] = "strip"]
     /\ got' = [got EXCEPT ![c] = 0]
     /\ UNCHANGED <<mark, job, seen, alone>>

\* unlinkRepo: the repository is read; a target it does not have is nobody's business.
StartUnlink(c, id, db) ==
  /\ Tracking(id, db)
  /\ seen' = [seen EXCEPT ![c][id] = repo[id]]
  /\ strip' = [strip EXCEPT ![c][id] = Listing(db, id)]
  /\ StartCall(c, "unlink", db, id, repo[id].url)
  /\ pc' = [pc EXCEPT ![c] = "strip"]

\* deleteRepo takes the id alone, and sweeps whatever names it.
StartDelete(c, id, db) ==
  /\ repo[id].live
  /\ strip' = [strip EXCEPT ![c][id] = Listing(db, id)]
  /\ StartCall(c, "delete", db, id, repo[id].url)
  /\ pc' = [pc EXCEPT ![c] = "strip"]
  /\ UNCHANGED seen

\* resolveSyncTarget at the start of a sync, then saveSyncState or writeConflict.
StartSync(c, id, db) ==
  /\ Tracking(id, db)
  /\ StartCall(c, "sync", db, id, repo[id].url)
  /\ pc' = [pc EXCEPT ![c] = "get"]
  /\ UNCHANGED <<seen, strip>>

PutMark(c) ==
  LET db == job[c].db IN
  /\ pc[c] = "put" /\ job[c].kind = "sync"
  /\ Accepts(mark[db], got[c])
  /\ mark' = [mark EXCEPT ![db] = [rev |-> mark[db].rev + 1, live |-> TRUE, owner |-> job[c].id]]
  /\ Over(c) /\ Forgotten(c)
  /\ UNCHANGED <<repo, strip>>

----------------------------------------------------------------------------
(* detachTarget and deleteRepo, for one repository: records first, then the document. *)

Records_OneDb(c, id) == {db \in {job[c].db} : mark[db].live /\ mark[db].owner = id}
Records(c, id) ==
  {db \in Dbs : mark[db].live /\ mark[db].owner = id /\ (job[c].kind # "delete" => db = job[c].db)}

ListRecords(c, id) ==
  /\ strip[c][id].at = "list"
  /\ strip' = [strip EXCEPT ![c][id] =
       [at |-> IF Records(c, id) = {} THEN "get" ELSE "sweep",
        rows |-> {<<db, mark[db].rev>> : db \in Records(c, id)}, rev |-> 0]]
  /\ UNCHANGED <<repo, mark, pc, job, seen, got, alone>>

\* A strip that fails takes its call down; the strips beside it go on.
Failed(c, id) ==
  /\ strip' = [strip EXCEPT ![c][id] = NoStrip]
  /\ Over(c)
  /\ IF Stripping(c) = {id} THEN Forgotten(c) ELSE UNCHANGED <<job, seen, alone>>

Current(row) == mark[row[1]].live /\ mark[row[1]].rev = row[2]

\* removeAll: one _bulk_docs; a row that has moved on is refused, and that throws.
Sweep(c, id) ==
  LET rows == strip[c][id].rows
      gone == {row \in rows : Current(row)}
  IN /\ strip[c][id].at = "sweep"
     /\ \A row \in gone : mark[row[1]].rev < MaxRev
     /\ mark' = [db \in Dbs |-> IF \E row \in gone : row[1] = db THEN Tombstone(NoMark, mark[db]) ELSE mark[db]]
     /\ IF gone = rows
        THEN /\ strip' = [strip EXCEPT ![c][id] = [at |-> "get", rows |-> {}, rev |-> 0]]
             /\ UNCHANGED <<pc, job, seen, got, alone>>
        ELSE Failed(c, id)
     /\ UNCHANGED repo


\* What the strip leaves of the repository's targets, as they were listed.
Remaining(c, id) == IF job[c].kind = "delete" THEN {} ELSE seen[c][id].targets \ {job[c].db}

Stripped(c, id) ==
  /\ strip' = [strip EXCEPT ![c][id] = NoStrip]
  /\ IF pc[c] = "over" /\ Stripping(c) = {id} THEN Forgotten(c) ELSE UNCHANGED <<job, seen, alone>>
  /\ UNCHANGED <<pc, got>>

\* remove of a document that is gone already has nothing to do.
GetVictim(c, id) ==
  /\ strip[c][id].at = "get"
  /\ IF Remaining(c, id) = {} /\ ~repo[id].live
     THEN Stripped(c, id)
     ELSE /\ strip' = [strip EXCEPT ![c][id] = [at |-> "write", rows |-> {}, rev |-> Carried(repo[id], seen[c][id].rev)]]
          /\ UNCHANGED <<pc, job, seen, got, alone>>
  /\ UNCHANGED <<repo, mark>>

WriteVictim(c, id) ==
  /\ strip[c][id].at = "write"
  /\ Accepts(repo[id], strip[c][id].rev)
  /\ repo' = [repo EXCEPT ![id] =
       IF Remaining(c, id) = {} THEN Tombstone(Unwritten, @)
       ELSE RepoDoc(id, seen[c][id].url, Remaining(c, id))]
  /\ Stripped(c, id)
  /\ UNCHANGED mark

\* A request that fails or is refused.
StripFails(c, id) ==
  /\ strip[c][id].at # "done"
  /\ \/ Failures
     \/ strip[c][id].at = "write" /\ Refuses(repo[id], strip[c][id].rev)
  /\ Failed(c, id)
  /\ UNCHANGED <<repo, mark>>

Finish(c) ==
  /\ pc[c] = "strip" /\ Stripping(c) = {}
  /\ Over(c) /\ Forgotten(c)
  /\ UNCHANGED <<repo, mark, strip>>

\* The call's own request fails, or is refused.
CallFails(c) ==
  /\ pc[c] \in {"get", "put"}
  /\ \/ Failures
     \/ pc[c] = "put" /\ Refuses(Target(c), got[c])
  /\ Over(c) /\ Forgotten(c)
  /\ UNCHANGED <<repo, mark, strip>>

\* The tab closes: nothing of the call is left.
Close(c) ==
  /\ Failures /\ Active(c)
  /\ strip' = [strip EXCEPT ![c] = [id \in Ids |-> NoStrip]]
  /\ Over(c) /\ Forgotten(c)
  /\ UNCHANGED <<repo, mark>>

StripStep(c, id) ==
  ListRecords(c, id) \/ Sweep(c, id) \/ GetVictim(c, id) \/ WriteVictim(c, id) \/ StripFails(c, id)

Step(c) ==
  \/ GetRev(c) \/ PutRepo(c) \/ PutMark(c) \/ Finish(c) \/ CallFails(c) \/ Close(c)
  \/ \E id \in Ids : StripStep(c, id)

Start(c) == \E db \in Dbs :
  \/ \E url \in Urls : StartRegister(c, db, url)
  \/ \E id \in Ids : StartUnlink(c, id, db) \/ StartDelete(c, id, db) \/ StartSync(c, id, db)

Next == \E c \in Calls : Start(c) \/ Step(c)

Spec == Init /\ [][Next]_vars

----------------------------------------------------------------------------
(* Properties. *)

RepoType == [rev : Nat, live : BOOLEAN, url : Urls \cup {Nowhere}, targets : SUBSET Dbs]

\* Every variable keeps its shape.
TypeOK ==
  /\ repo \in [Ids -> RepoType]
  /\ mark \in [Dbs -> [rev : Nat, live : BOOLEAN, owner : Ids]]
  /\ pc \in [Calls -> {"idle", "get", "put", "strip", "over"}]
  /\ job \in [Calls -> [kind : {"none", "register", "unlink", "delete", "sync"}, db : Dbs \cup {Nowhere}, id : Ids,
                       url : Urls \cup {Nowhere}]]
  /\ seen \in [Calls -> [Ids -> RepoType]]
  /\ got \in [Calls -> Nat]
  /\ strip \in [Calls -> [Ids -> [at : {"list", "sweep", "get", "write", "done"},
                                rows : SUBSET (Dbs \X Nat), rev : Nat]]]
  /\ alone \in [Calls -> BOOLEAN]

\* A registration that succeeds with no other call beside it leaves its database to that
\* repository alone, whatever claims earlier failures and races had left ("the next
\* successful registerRepo for either one self-heals").
RegisterSelfHeals ==
  [][\A c \in Calls : alone[c] /\ Finish(c) /\ job[c].kind = "register" => Claims(job[c].db) = {job[c].id}]_vars

\* A registration that fails half-way leaves a tracked database tracked (the strip runs
\* only once the new registration is durable).
RegisterNeverUntracks ==
  [][\A c \in Calls : alone[c] /\ job[c].kind = "register" /\ Step(c) =>
       \A db \in Dbs : db = job[c].db /\ Claims(db) # {} => Claims(db)' # {}]_vars

\* Re-pointing or unlinking one database leaves every other database where it was.
OtherDatabasesKept ==
  [][\A c \in Calls : alone[c] /\ job[c].kind # "delete" /\ Step(c) =>
       \A db \in Dbs \ {job[c].db} : Claims(db)' = Claims(db)]_vars

\* Both: a registration or an unlinking disturbs nobody else, and never loses its own.
NobodyUntracked == RegisterNeverUntracks /\ OtherDatabasesKept

Stranded(db) == mark[db].live /\ ~Tracking(mark[db].owner, db)

\* No record is left naming a repository that does not track its database, even by a call
\* that fails half-way: the sweep comes first (deleteRepo, detachTarget).
NothingStranded ==
  [][\A c \in Calls : alone[c] /\ Step(c) => \A db \in Dbs : Stranded(db)' => Stranded(db)]_vars

\* For TLC: calls, repositories and databases are interchangeable (document ids are not: the
\* first one with a url wins).
Symmetry == Permutations(Calls) \cup Permutations(Urls) \cup Permutations(Dbs)
=============================================================================
