----------------------------- MODULE DesignSync -----------------------------
(***************************************************************************)
(* The exchange of design documents between a CouchDB database and a git   *)
(* repository: DesignMgmtService.syncToRepo, syncToCouch, deleteRepoDocs,  *)
(* forgetSyncState and resolveConflict over GitHubProvider and             *)
(* CouchCompanionStore, request by request.                                *)
(*                                                                         *)
(* A call (one invocation of one of those methods, from any tab) runs as a *)
(* chain of HTTP requests; between two of them anybody may edit the        *)
(* database or push to the branch, and another call may be anywhere in its *)
(* own chain.  The atomic step is therefore one request, taken at the      *)
(* moment its server acts on it.  Any request may fail, its answer may be  *)
(* lost, and the tab may close: Abort.                                     *)
(***************************************************************************)
EXTENDS Naturals, Sequences, FiniteSets, TLC

CONSTANTS
  Docs,        \* design documents of the one database being synchronised
  Calls,       \* concurrent invocations, of one tab or of several
  Bodies,      \* contents up to sameContent: key order, _id and _rev dropped
  Blobs,       \* file contents; git addresses them by content, so a blob is its own sha
  BodyOf,      \* [Blobs -> Bodies \cup {NoBody, Bad}]: what parseRepoFile makes of one
  Canon,       \* [Bodies -> Blobs]: serializeDdoc
  NoBody,      \* no content: a deleted document, a zero-byte file (getFile's null)
  Bad,         \* a file that getFile or parseRepoFile throws on
  NoFile,      \* no such path on the branch
  NoConflict,  \* no conflict document
  Unread,      \* a read that has not been answered yet
  MaxRev,      \* bound on the revisions of one document
  MaxCommits,  \* bound on the commits of the branch
  Kinds,       \* what the calls of an instance may be
  Synced,      \* TRUE: start with every document present and in sync
  Exclusive    \* TRUE: one call at a time, and no foreign push or acknowledgement during it

ASSUME DocsAssumption == IsFiniteSet(Docs)
ASSUME ContentAssumption ==
  /\ BodyOf \in [Blobs -> Bodies \cup {NoBody, Bad}]
  /\ Canon \in [Bodies -> Blobs]
  /\ \A body \in Bodies : BodyOf[Canon[body]] = body
ASSUME MarkerAssumption ==
  /\ NoBody \notin Bodies /\ Bad \notin Bodies /\ NoBody # Bad
  /\ NoFile \notin Blobs
ASSUME ReadAssumption ==
  /\ Unread \notin Nat /\ Unread \notin Blobs /\ Unread # NoFile
  /\ Unread \notin [rev : Nat, sha : Blobs \cup {NoFile}]
ASSUME ConflictAssumption ==
  NoConflict \notin [rev : Nat, sha : Blobs \cup {NoFile}, resolved : BOOLEAN]
ASSUME BoundAssumption == MaxRev \in Nat /\ MaxCommits \in Nat /\ Exclusive \in BOOLEAN /\ Synced \in BOOLEAN

VARIABLES
  couch,        \* [Docs -> Seq]: each document's revisions [body, by]; rev n is the n-th
  tree,         \* [Docs -> Blobs \cup {NoFile}]: the files at the branch tip
  tip,          \* the tip commit: [no, by]
  pushed,       \* [Docs -> SUBSET Blobs]: what the branch ever held (history)
  syncDoc,      \* the sync: records [rev, sha]; NoRecord when there is none
  conflictDoc,  \* the conflict: records [rev, sha, resolved]; NoConflict when none
  pc,           \* where each call is
  dir,          \* what it does: "toRepo", "toCouch", "delete", "forget", "ack"
  todo,         \* ddocIds still to be classified, in request order
  shaByPath,    \* the tree listTree returned to it
  reads,        \* readAndClassify's three concurrent reads of the first of todo
  queue,        \* toCommit / toApply: entries still to be written or recorded
  heal,         \* toHeal: entries whose record alone is to be refreshed
  conflicted,   \* the documents it found in conflict
  keep,         \* writeConflict's samePair ? existing.resolved : false
  base          \* commitFiles' headSha

data == <<couch, tree, tip, pushed>>
records == <<syncDoc, conflictDoc>>
plan == <<queue, heal, conflicted>>
vars == <<couch, tree, tip, pushed, syncDoc, conflictDoc, pc, dir, todo, shaByPath,
          reads, queue, heal, conflicted, keep, base>>

----------------------------------------------------------------------------
(* The database, the branch and the records. *)

NoRecord == [rev |-> 0, sha |-> NoFile]
Record == [rev : Nat, sha : Blobs \cup {NoFile}]
Entry == [doc : Docs, rev : Nat, sha : Blobs \cup {NoFile}, blob : Blobs \cup {NoFile}]
EntryOf(d, rev, sha, blob) == [doc |-> d, rev |-> rev, sha |-> sha, blob |-> blob]

\* The body of revision rev; revision 0 stands for "no document".
BodyAt(d, rev) == IF rev = 0 THEN NoBody ELSE couch[d][rev].body

\* readDesignDocOrNull: the live revision, 0 when CouchDB answers 404.
CouchRev(d) == IF BodyAt(d, Len(couch[d])) = NoBody THEN 0 ELSE Len(couch[d])

\* getFile and parseRepoFile: a missing path and an empty file are both null.
GitBody(blob) == IF blob = NoFile THEN NoBody ELSE BodyOf[blob]

Held(d) == {BodyOf[b] : b \in pushed[d]}
Revisions(d) == {couch[d][i].body : i \in 1..Len(couch[d])}

Append1(d, body, by) == [couch EXCEPT ![d] = Append(@, [body |-> body, by |-> by])]

----------------------------------------------------------------------------
(* design-sync.ts: the verdict on one document. *)

contentEqual(a, b) == a # NoBody /\ a = b

classify(couchRev, gitSha, synced, equal) ==
  LET couchMoved == couchRev # synced.rev
      gitMoved == gitSha # synced.sha
  IN CASE couchRev # 0 /\ gitSha = NoFile -> "newer_in_couch"
       [] couchRev = 0 /\ gitSha # NoFile -> "newer_in_git"
       [] OTHER ->
            IF synced = NoRecord THEN "unknown"
            ELSE IF couchMoved /\ gitMoved THEN IF equal THEN "synced" ELSE "conflict"
            ELSE IF couchMoved THEN "newer_in_couch"
            ELSE IF gitMoved THEN "newer_in_git"
            ELSE "synced"

resolveUnknown_Refuse(status, equal) == IF status # "unknown" THEN status ELSE "conflict"

resolveUnknown(status, equal) ==
  IF status # "unknown" THEN status ELSE IF equal THEN "synced" ELSE "conflict"

Verdict_NoShortCircuit(couchRev, gitSha, synced, equal) ==
  resolveUnknown(classify(couchRev, gitSha, synced, equal), equal)

\* readAndClassify: a document that is nowhere is never handed to classify.
Verdict(couchRev, gitSha, synced, equal) ==
  IF couchRev = 0 /\ gitSha = NoFile THEN "synced"
  ELSE resolveUnknown(classify(couchRev, gitSha, synced, equal), equal)

canApply_AnyDirection(status, direction) == status # "conflict"

canApply(status, direction) ==
  \/ status = "synced"
  \/ status = "newer_in_couch" /\ direction = "toRepo"
  \/ status = "newer_in_git" /\ direction = "toCouch"

----------------------------------------------------------------------------
(* Calls. *)

NoTree == [d \in Docs |-> NoFile]
NoReads == [couch |-> Unread, file |-> Unread, rec |-> Unread]
Resting(c) == pc[c] = "idle"
Sequenced(S) == {s \in [1..Cardinality(S) -> S] : \A i, j \in DOMAIN s : i # j => s[i] # s[j]}
MayStart(c) == Resting(c) /\ (Exclusive => \A other \in Calls : Resting(other))

\* A call that has returned or thrown holds nothing.
Return(c) ==
  /\ pc' = [pc EXCEPT ![c] = "idle"]
  /\ dir' = [dir EXCEPT ![c] = "toRepo"]
  /\ todo' = [todo EXCEPT ![c] = <<>>]
  /\ shaByPath' = [shaByPath EXCEPT ![c] = NoTree]
  /\ reads' = [reads EXCEPT ![c] = NoReads]
  /\ queue' = [queue EXCEPT ![c] = <<>>]
  /\ heal' = [heal EXCEPT ![c] = {}]
  /\ conflicted' = [conflicted EXCEPT ![c] = {}]
  /\ keep' = [keep EXCEPT ![c] = FALSE]
  /\ base' = [base EXCEPT ![c] = 0]

GoTo(c, where) == pc' = [pc EXCEPT ![c] = where]

Init ==
  /\ couch \in [Docs -> {<<>>} \cup {<<[body |-> body, by |-> "user"]>> : body \in Bodies}]
  /\ tree \in [Docs -> Blobs \cup {NoFile}]
  /\ Synced => \A d \in Docs : couch[d] # <<>> /\ tree[d] = Canon[couch[d][1].body]
  /\ tip = [no |-> 0, by |-> "other"]
  /\ pushed = [d \in Docs |-> {tree[d]} \ {NoFile}]
  /\ syncDoc = [d \in Docs |-> IF Synced THEN [rev |-> 1, sha |-> tree[d]] ELSE NoRecord]
  /\ conflictDoc = [d \in Docs |-> NoConflict]
  /\ pc = [c \in Calls |-> "idle"]
  /\ dir = [c \in Calls |-> "toRepo"]
  /\ todo = [c \in Calls |-> <<>>]
  /\ shaByPath = [c \in Calls |-> NoTree]
  /\ reads = [c \in Calls |-> NoReads]
  /\ queue = [c \in Calls |-> <<>>]
  /\ heal = [c \in Calls |-> {}]
  /\ conflicted = [c \in Calls |-> {}]
  /\ keep = [c \in Calls |-> FALSE]
  /\ base = [c \in Calls |-> 0]

\* syncToRepo and syncToCouch up to listTree, one consistent snapshot of the tip.
StartSync(c) ==
  /\ MayStart(c)
  /\ \E way \in {"toRepo", "toCouch"} \cap Kinds, S \in (SUBSET Docs) \ {{}} : \E order \in Sequenced(S) :
       /\ dir' = [dir EXCEPT ![c] = way]
       /\ todo' = [todo EXCEPT ![c] = order]
  /\ shaByPath' = [shaByPath EXCEPT ![c] = tree]
  /\ GoTo(c, "scan")
  /\ UNCHANGED <<data, records, reads, plan, keep, base>>

\* readAndClassify's Promise.all: three requests, answered in any order.
Read(c, side, answer) ==
  /\ pc[c] = "scan" /\ todo[c] # <<>>
  /\ reads[c][side] = Unread
  /\ reads' = [reads EXCEPT ![c][side] = answer]
  /\ UNCHANGED <<data, records, pc, dir, todo, shaByPath, plan, keep, base>>

ReadCouch_NoDefault(c) ==
  Read(c, "couch", IF CouchRev(Head(todo[c])) = 0 THEN NoConflict ELSE CouchRev(Head(todo[c])))
ReadCouch(c) == Read(c, "couch", CouchRev(Head(todo[c])))
ReadFile(c) == Read(c, "file", tree[Head(todo[c])])
ReadRecord(c) == Read(c, "rec", syncDoc[Head(todo[c])])

AllRead(c) ==
  /\ pc[c] = "scan" /\ todo[c] # <<>>
  /\ \A side \in DOMAIN NoReads : reads[c][side] # Unread

\* What readAndClassify returns: the sha is listTree's, the content is the later getFile's.
Equal(c) == contentEqual(BodyAt(Head(todo[c]), reads[c].couch), GitBody(reads[c].file))
Status(c) == Verdict(reads[c].couch, shaByPath[c][Head(todo[c])], reads[c].rec, Equal(c))

NextDoc_SameDoc(c) == reads' = [reads EXCEPT ![c] = NoReads] /\ UNCHANGED todo
NextDoc(c) ==
  /\ todo' = [todo EXCEPT ![c] = Tail(@)]
  /\ reads' = [reads EXCEPT ![c] = NoReads]

\* A file that cannot be fetched or parsed fails the whole call.
Unreadable(c) ==
  /\ AllRead(c) /\ GitBody(reads[c].file) = Bad
  /\ Return(c)
  /\ UNCHANGED <<data, records>>

\* What a push commits and records, and what a pull writes and records.
PushEntry_ListedSha(c) ==
  LET d == Head(todo[c]) IN EntryOf(d, reads[c].couch, shaByPath[c][d], Canon[BodyAt(d, reads[c].couch)])
PushEntry(c) ==
  LET d == Head(todo[c])
      blob == Canon[BodyAt(d, reads[c].couch)]
  IN EntryOf(d, reads[c].couch, blob, blob)
PullEntry(c) ==
  LET d == Head(todo[c]) IN EntryOf(d, reads[c].couch, shaByPath[c][d], reads[c].file)
HealEntry(c) ==
  LET d == Head(todo[c]) IN EntryOf(d, reads[c].couch, shaByPath[c][d], NoFile)

Present_Any(c) == dir[c] = "toRepo" => reads[c].couch # 0

\* Is there anything to write in this call's direction?
Present(c) ==
  IF dir[c] = "toRepo" THEN reads[c].couch # 0 ELSE GitBody(reads[c].file) # NoBody

\* The loop body of both flows, for a document that is not in conflict: refused, absent,
\* already equal (its record alone is refreshed), or to be written.
Sort(c) ==
  /\ AllRead(c) /\ GitBody(reads[c].file) # Bad /\ Status(c) # "conflict"
  /\ IF ~canApply(Status(c), dir[c]) \/ ~Present(c)
     THEN UNCHANGED <<heal, queue>>
     ELSE IF Equal(c)
     THEN heal' = [heal EXCEPT ![c] = @ \cup {HealEntry(c)}] /\ UNCHANGED queue
     ELSE /\ queue' = [queue EXCEPT ![c] =
               Append(@, IF dir[c] = "toRepo" THEN PushEntry(c) ELSE PullEntry(c))]
          /\ UNCHANGED heal
  /\ NextDoc(c)
  /\ UNCHANGED <<data, records, pc, dir, shaByPath, conflicted, keep, base>>

\* A conflict is counted, then recorded: writeConflict's get, then its put.
FindConflict(c) ==
  /\ AllRead(c) /\ GitBody(reads[c].file) # Bad /\ Status(c) = "conflict"
  /\ conflicted' = [conflicted EXCEPT ![c] = @ \cup {Head(todo[c])}]
  /\ reads' = [reads EXCEPT ![c] = [NoReads EXCEPT !.couch = reads[c].couch]]
  /\ GoTo(c, "getConflict")
  /\ UNCHANGED <<data, records, dir, todo, shaByPath, queue, heal, keep, base>>

SamePair(d, rev, sha) == conflictDoc[d] # NoConflict /\ conflictDoc[d].rev = rev /\ conflictDoc[d].sha = sha

GetConflict_Fresh(c) ==
  /\ pc[c] = "getConflict"
  /\ GoTo(c, "putConflict")
  /\ UNCHANGED <<data, records, dir, todo, shaByPath, reads, plan, keep, base>>

GetConflict(c) ==
  LET d == Head(todo[c]) IN
  /\ pc[c] = "getConflict"
  /\ keep' = [keep EXCEPT ![c] = SamePair(d, reads[c].couch, shaByPath[c][d]) /\ conflictDoc[d].resolved]
  /\ GoTo(c, "putConflict")
  /\ UNCHANGED <<data, records, dir, todo, shaByPath, reads, plan, base>>

\* The put overwrites whatever is there by now; its failure is swallowed.
PutConflict(c) ==
  LET d == Head(todo[c]) IN
  /\ pc[c] = "putConflict"
  /\ \/ conflictDoc' = [conflictDoc EXCEPT ![d] =
          [rev |-> reads[c].couch, sha |-> shaByPath[c][d], resolved |-> keep[c]]]
     \/ UNCHANGED conflictDoc
  /\ NextDoc(c)
  /\ keep' = [keep EXCEPT ![c] = FALSE]
  /\ GoTo(c, "scan")
  /\ UNCHANGED <<data, syncDoc, dir, shaByPath, plan, base>>

EndScan_NoRefusal(c) ==
  /\ pc[c] = "scan" /\ todo[c] = <<>>
  /\ GoTo(c, IF queue[c] = <<>> THEN "heal" ELSE IF dir[c] = "toRepo" THEN "commit" ELSE "apply")
  /\ shaByPath' = [shaByPath EXCEPT ![c] = NoTree]
  /\ UNCHANGED <<data, records, dir, todo, reads, plan, keep, base>>

\* Every document is classified.  A pull with a conflict in it is refused whole.
EndScan(c) ==
  /\ pc[c] = "scan" /\ todo[c] = <<>>
  /\ IF dir[c] = "toCouch" /\ conflicted[c] # {}
     THEN Return(c)
     ELSE /\ GoTo(c, IF queue[c] = <<>> THEN "heal"
                     ELSE IF dir[c] = "toRepo" THEN "commit" ELSE "apply")
          /\ shaByPath' = [shaByPath EXCEPT ![c] = NoTree]
          /\ UNCHANGED <<dir, todo, reads, plan, keep, base>>
  /\ UNCHANGED <<data, records>>

Queued(c) == {queue[c][i].doc : i \in 1..Len(queue[c])}
Slot_First(c, d) == 1
Slot(c, d) == CHOOSE i \in 1..Len(queue[c]) : queue[c][i].doc = d

\* commitFiles asks for the tip again: this, not listTree's, is the commit's parent.
ReadHead(c) ==
  /\ pc[c] = "commit"
  /\ base' = [base EXCEPT ![c] = tip.no]
  /\ GoTo(c, "updateRef")
  /\ UNCHANGED <<data, records, dir, todo, shaByPath, reads, plan, keep>>

\* The tree the commit is made of: the parent's, with the queued paths replaced.
Overlay(c) == [d \in Docs |-> IF d \in Queued(c) THEN queue[c][Slot(c, d)].blob ELSE tree[d]]

Publish(by, newTree) ==
  /\ tip.no < MaxCommits
  /\ tree' = newTree
  /\ tip' = [no |-> tip.no + 1, by |-> by]
  /\ pushed' = [d \in Docs |-> pushed[d] \cup ({newTree[d]} \ {NoFile})]
  /\ UNCHANGED couch

\* force: false: GitHub moves the branch only if the parent is still its tip, and
\* refuses to delete a path the parent does not have.
UpdateRef(c) ==
  /\ pc[c] = "updateRef"
  /\ tip.no = base[c]
  /\ dir[c] = "delete" => \A d \in Queued(c) : tree[d] # NoFile
  /\ Publish("app", Overlay(c))
  /\ base' = [base EXCEPT ![c] = 0]
  /\ GoTo(c, IF dir[c] = "delete" THEN "forget" ELSE "save")
  /\ UNCHANGED <<records, dir, todo, shaByPath, reads, plan, keep>>

\* saveSyncState for the entry just written; the whole document is replaced.
SaveSyncState(c) ==
  LET e == Head(queue[c]) IN
  /\ pc[c] = "save"
  /\ syncDoc' = [syncDoc EXCEPT ![e.doc] = [rev |-> e.rev, sha |-> e.sha]]
  /\ queue' = [queue EXCEPT ![c] = Tail(@)]
  /\ GoTo(c, IF Tail(queue[c]) = <<>> THEN "heal"
             ELSE IF dir[c] = "toRepo" THEN "save" ELSE "apply")
  /\ UNCHANGED <<data, conflictDoc, dir, todo, shaByPath, reads, heal, conflicted, keep, base>>

\* PUT with the rev that was read, or none for a create: CouchDB answers 409 unless
\* that is still the live revision.
ApplyPut(c) ==
  LET e == Head(queue[c]) IN
  /\ pc[c] = "apply"
  /\ CouchRev(e.doc) = e.rev
  /\ Len(couch[e.doc]) < MaxRev
  /\ couch' = Append1(e.doc, GitBody(e.blob), "sync")
  /\ queue' = [queue EXCEPT ![c] = <<[e EXCEPT !.rev = Len(couch[e.doc]) + 1]>> \o Tail(@)]
  /\ GoTo(c, "save")
  /\ UNCHANGED <<tree, tip, pushed, records, dir, todo, shaByPath, reads, heal, conflicted,
                 keep, base>>

Heal_LiveRev(c, e) ==
  /\ pc[c] = "heal" /\ e \in heal[c]
  /\ heal' = [heal EXCEPT ![c] = @ \ {e}]
  /\ syncDoc' = [syncDoc EXCEPT ![e.doc] = [rev |-> CouchRev(e.doc), sha |-> e.sha]]
  /\ UNCHANGED <<data, conflictDoc, pc, dir, todo, shaByPath, reads, queue, conflicted, keep, base>>

\* toHeal: the saves run concurrently; one that fails does not stop the others.
Heal(c, e) ==
  /\ pc[c] = "heal" /\ e \in heal[c]
  /\ heal' = [heal EXCEPT ![c] = @ \ {e}]
  /\ \/ syncDoc' = [syncDoc EXCEPT ![e.doc] = [rev |-> e.rev, sha |-> e.sha]]
     \/ UNCHANGED syncDoc
  /\ UNCHANGED <<data, conflictDoc, pc, dir, todo, shaByPath, reads, queue, conflicted, keep, base>>

Finish(c) ==
  /\ pc[c] = "heal" /\ heal[c] = {}
  /\ Return(c)
  /\ UNCHANGED <<data, records>>

\* A failed request, a lost answer, a refused write, a closed tab.
Abort(c) ==
  /\ ~Resting(c)
  /\ Return(c)
  /\ UNCHANGED <<data, records>>

\* Work that has no scan: the entries are what the caller named.
StartWork(c, what, where, entries) ==
  /\ MayStart(c) /\ what \in Kinds
  /\ dir' = [dir EXCEPT ![c] = what]
  /\ queue' = [queue EXCEPT ![c] = entries]
  /\ GoTo(c, where)
  /\ UNCHANGED <<tree, tip, pushed, records, todo, shaByPath, reads, heal, conflicted, keep,
                 base>>

Named(order) == [i \in DOMAIN order |-> EntryOf(order[i], 0, NoFile, NoFile)]

\* deleteRepoDocs: one commit without the files, then forgetSyncState.
StartDelete(c) ==
  /\ \E S \in (SUBSET Docs) \ {{}} : \E order \in Sequenced(S) : StartWork(c, "delete", "commit", Named(order))
  /\ UNCHANGED couch

\* "Delete from CouchDB" in the design list, which then forgets the records.
StartCouchDelete(c, d) ==
  /\ CouchRev(d) # 0 /\ Len(couch[d]) < MaxRev
  /\ couch' = Append1(d, NoBody, "user")
  /\ StartWork(c, "forget", "forget", Named(<<d>>))

\* unlinkRepo, deleteRepo and a re-pointed repository sweep every record.
StartSweep(c) ==
  /\ \E order \in Sequenced(Docs) : StartWork(c, "forget", "forget", Named(order))
  /\ UNCHANGED couch

\* removeAll: one bulk delete that CouchDB may carry out for some rows only.
Forget(c) ==
  /\ pc[c] = "forget"
  /\ \E gone, settled \in SUBSET Queued(c) :
       /\ syncDoc' = [d \in Docs |-> IF d \in gone THEN NoRecord ELSE syncDoc[d]]
       /\ conflictDoc' = [d \in Docs |-> IF d \in settled THEN NoConflict ELSE conflictDoc[d]]
  /\ Return(c)
  /\ UNCHANGED data

\* resolveConflict: the record that was read is written back with resolved set.
StartAck(c, d) ==
  /\ conflictDoc[d] # NoConflict
  /\ StartWork(c, "ack", "ack", <<EntryOf(d, conflictDoc[d].rev, conflictDoc[d].sha, NoFile)>>)
  /\ UNCHANGED couch

\* The copy carries its old _rev: over a record that is gone the write is a 409.
PutAck(c) ==
  LET e == Head(queue[c]) IN
  /\ pc[c] = "ack"
  /\ conflictDoc[e.doc] # NoConflict
  /\ conflictDoc' = [conflictDoc EXCEPT ![e.doc] = [rev |-> e.rev, sha |-> e.sha, resolved |-> TRUE]]
  /\ Return(c)
  /\ UNCHANGED <<data, syncDoc>>

----------------------------------------------------------------------------
(* Everybody else. *)

local == <<pc, dir, todo, shaByPath, reads, queue, heal, conflicted, keep, base>>

\* A save or a delete of the document, in the editor or with any other client.
EditCouch(d) ==
  /\ Len(couch[d]) < MaxRev
  /\ \E body \in Bodies \cup {NoBody} :
       /\ body = NoBody => CouchRev(d) # 0
       /\ couch' = Append1(d, body, "user")
  /\ UNCHANGED <<tree, tip, pushed, records, local>>

\* A commit by somebody else, of one path; branches are not rewritten.
ForeignPush(d) ==
  /\ Exclusive => \A c \in Calls : Resting(c)
  /\ \E blob \in (Blobs \cup {NoFile}) \ {tree[d]} : Publish("other", [tree EXCEPT ![d] = blob])
  /\ UNCHANGED <<records, local>>

Step(c) ==
  \/ ReadCouch(c) \/ ReadFile(c) \/ ReadRecord(c)
  \/ Unreadable(c) \/ Sort(c) \/ FindConflict(c) \/ GetConflict(c) \/ PutConflict(c)
  \/ EndScan(c) \/ ReadHead(c) \/ UpdateRef(c) \/ SaveSyncState(c) \/ ApplyPut(c)
  \/ \E e \in heal[c] : Heal(c, e)
  \/ Finish(c) \/ Forget(c) \/ PutAck(c) \/ Abort(c)

Start(c) ==
  \/ StartSync(c) \/ StartDelete(c) \/ StartSweep(c)
  \/ \E d \in Docs : StartCouchDelete(c, d) \/ StartAck(c, d)

Others == \E d \in Docs : EditCouch(d) \/ ForeignPush(d)

Next == (\E c \in Calls : Start(c) \/ Step(c)) \/ Others

Spec == Init /\ [][Next]_vars

\* A request is eventually answered or fails: the chain of a call never stalls.
Fairness == \A c \in Calls : WF_vars(Step(c))
FairSpec == Spec /\ Fairness

----------------------------------------------------------------------------
(* Properties. *)

PCs == {"idle", "scan", "getConflict", "putConflict", "commit", "updateRef", "apply",
        "save", "heal", "forget", "ack"}

ReadsType == [couch : Nat \cup {Unread}, file : Blobs \cup {NoFile, Unread}, rec : Record \cup {Unread}]

Revision == [body : Bodies \cup {NoBody}, by : {"user", "sync"}]

DataTypeOK ==
  /\ couch \in [Docs -> Seq(Revision)]
  /\ tree \in [Docs -> Blobs \cup {NoFile}]
  /\ tip \in [no : Nat, by : {"app", "other"}]
  /\ pushed \in [Docs -> SUBSET Blobs]

RecordTypeOK ==
  /\ syncDoc \in [Docs -> Record]
  /\ conflictDoc \in [Docs -> [rev : Nat, sha : Blobs \cup {NoFile}, resolved : BOOLEAN] \cup {NoConflict}]

CallTypeOK ==
  /\ pc \in [Calls -> PCs]
  /\ dir \in [Calls -> {"toRepo", "toCouch", "delete", "forget", "ack"}]
  /\ todo \in [Calls -> Seq(Docs)]
  /\ shaByPath \in [Calls -> [Docs -> Blobs \cup {NoFile}]]
  /\ reads \in [Calls -> ReadsType]
  /\ queue \in [Calls -> Seq(Entry)]
  /\ heal \in [Calls -> SUBSET Entry]
  /\ conflicted \in [Calls -> SUBSET Docs]
  /\ keep \in [Calls -> BOOLEAN]
  /\ base \in [Calls -> Nat]

\* Every variable keeps its shape, through every interleaving of calls and edits.
TypeOK == DataTypeOK /\ RecordTypeOK /\ CallTypeOK

\* The revision a sync: record names (saveSyncState) has a body the branch has held.
\* "Only git moved" is judged against that revision, so this is what makes the pull
\* that follows from it harmless.
RecordedRevInGitHistory ==
  \A d \in Docs : syncDoc[d].rev # 0 => /\ syncDoc[d].rev <= Len(couch[d])
                                        /\ BodyAt(d, syncDoc[d].rev) \in Held(d)

\* A revision written by syncToCouch never buries a body that is in CouchDB only: what
\* it replaces was deleted, or is in the history of the branch.
PullNeverDestroys ==
  [][\A d \in Docs :
       /\ Len(couch'[d]) > Len(couch[d])
       /\ couch'[d][Len(couch[d]) + 1].by = "sync"
       => BodyAt(d, Len(couch[d])) \in Held(d) \cup {NoBody}]_vars

\* A conflict record names a version of either side: a document that has vanished from
\* both, or that one side never had, is not reported as a conflict (readAndClassify).
NoPhantomConflict ==
  \A d \in Docs : conflictDoc[d] # NoConflict => conflictDoc[d].rev # 0 /\ conflictDoc[d].sha # NoFile

\* The app's requests, seen as writes to the database and to the branch alone, are
\* those of the exchange it promises.
Exchange == INSTANCE SafeExchange WITH
  couch <- couch, tree <- tree, tip <- tip, pushed <- pushed
ImplementsExchange == Exchange!Spec

\* A file that a sync's commit replaces had a content CouchDB has held: nobody's commit
\* disappears from the branch ("Sync refuses to overwrite in the direction that would
\* lose data", README.md; commitFiles' force: false).
PushNeverDestroys ==
  [][\A c \in Calls : dir[c] = "toRepo" /\ UpdateRef(c) =>
       \A d \in Docs : tree'[d] # tree[d] => GitBody(tree[d]) \in Revisions(d) \cup {NoBody}]_vars

\* A sync: record says both sides had the same content (saveSyncState: "after it's
\* confirmed to match on both sides").
RecordTruthful ==
  \A d \in Docs : syncDoc[d].rev # 0 => BodyAt(d, syncDoc[d].rev) = GitBody(syncDoc[d].sha)

\* The two versions a conflict record names differ: there is something to compare.
ConflictIsReal ==
  \A d \in Docs : conflictDoc[d] # NoConflict =>
    ~contentEqual(BodyAt(d, conflictDoc[d].rev), GitBody(conflictDoc[d].sha))

\* An acknowledged conflict stays acknowledged for as long as the pair it names is the
\* one on record (resolveConflict, and writeConflict's samePair).
AcknowledgedConflictStays ==
  [][\A d \in Docs :
       /\ conflictDoc[d] # NoConflict /\ conflictDoc[d].resolved
       /\ conflictDoc'[d] # NoConflict
       /\ conflictDoc'[d].rev = conflictDoc[d].rev /\ conflictDoc'[d].sha = conflictDoc[d].sha
       => conflictDoc'[d].resolved]_vars

\* A sync: record is written only when it is true of both sides as they are: the next
\* sync of a document nobody has edited since finds nothing to do for it.
SavedRecordIsCurrent ==
  [][\A d \in Docs :
       /\ syncDoc'[d] \notin {syncDoc[d], NoRecord}
       /\ CouchRev(d) = syncDoc'[d].rev
       => /\ tree[d] = syncDoc'[d].sha
          /\ contentEqual(BodyAt(d, CouchRev(d)), GitBody(tree[d]))]_vars

\* A pull that met a conflict writes no document at all (syncToCouch's pre-flight pass).
PullIsAllOrNothing ==
  [][\A c \in Calls : pc[c] = "apply" /\ pc'[c] = "save" => conflicted[c] = {}]_vars

\* Every call ends, whatever fails on its way.
CallSettles == \A c \in Calls : ~Resting(c) ~> Resting(c)

(***************************************************************************)
(* For TLC: two bodies.  "a" and "b" are the renderings a commit writes;   *)
(* "a2" is the same content as "a" under another sha (a hand-formatted     *)
(* file), "junk" a file nobody can parse, "empty" a zero-byte file.        *)
(***************************************************************************)
MCBodies == {"A", "B"}
MCCanon == [A |-> "a", B |-> "b"]

BusyBlobs == {"a", "b"}
BusyBodyOf == [a |-> "A", b |-> "B"]

QuietBlobs == {"a", "a2", "b", "junk", "empty"}
QuietBodyOf == [a |-> "A", a2 |-> "A", b |-> "B", junk |-> Bad, empty |-> NoBody]

\* Contents as model values, each its own rendering: they are interchangeable.
SelfRendered == [body \in Bodies |-> body]

PairSymmetry == Permutations(Calls) \cup Permutations(Bodies)
DocSymmetry == Permutations(Docs)
=============================================================================
