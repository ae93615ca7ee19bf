-------------------------- MODULE DesignSyncProofs --------------------------
(***************************************************************************)
(* Safety of the design-document exchange, for any documents, any number   *)
(* of calls and any contents: the types, what a sync: record stands for,   *)
(* that a pull destroys nothing, that a conflict record has two sides, and *)
(* (one call at a time) that records, conflicts and commits are true.      *)
(*                                                                         *)
(* RecordedRevInGitHistory is not inductive: a record is written from a    *)
(* queue entry, an entry from three reads, and the reads from a database   *)
(* and a branch that have moved on since.  What makes them add up is that  *)
(* the facts used are stable: a revision keeps its body and the branch     *)
(* keeps its history (Grows).  Inv states, for every stage of a call, the  *)
(* stable fact it relies on.  TwoSided adds what is on its way to a        *)
(* conflict record.  Quiet needs more than stability: that the branch is   *)
(* still the one listTree returned, which holds while one call runs alone  *)
(* (Exclusive), with edits of the database going on all the time.          *)
(***************************************************************************)
EXTENDS DesignSync, SequenceTheorems, FiniteSetTheorems, TLAPS

\* The next four say something of a document's revisions (revs) and of the blobs its
\* path has held.  A revision that can be recorded as synchronised: none, or one whose
\* body the branch has held.
RecOk(revs, blobs, rev) ==
  rev # 0 => rev \in 1..Len(revs) /\ \E b \in blobs : revs[rev].body = BodyOf[b]
LiveRev(revs, rev) == rev \in 1..Len(revs) /\ revs[rev].body \in Bodies
PullEntryOk(revs, blobs, e) == RecOk(revs, blobs, e.rev) /\ e.blob \in blobs /\ BodyOf[e.blob] \in Bodies
PushEntryOk(revs, e) == LiveRev(revs, e.rev) /\ e.blob = Canon[revs[e.rev].body]

\* The first document a call still has to classify, and what it has read of it.
ReadsOk(c) ==
  todo[c] # <<>> =>
    LET d == Head(todo[c]) IN
    /\ reads[c].couch \notin {Unread, 0} => LiveRev(couch[d], reads[c].couch)
    /\ reads[c].file \in Blobs => reads[c].file \in pushed[d]
    /\ reads[c].rec # Unread => RecOk(couch[d], pushed[d], reads[c].rec.rev)

QueueOk(c) == \A i \in 1..Len(queue[c]) :
  LET e == queue[c][i] IN
  /\ dir[c] = "toCouch" => PullEntryOk(couch[e.doc], pushed[e.doc], e)
  /\ dir[c] = "toRepo" => PushEntryOk(couch[e.doc], e)
  /\ dir[c] = "delete" => e.blob = NoFile
  /\ pc[c] = "save" => RecOk(couch[e.doc], pushed[e.doc], e.rev)

HealOk(c) == \A e \in heal[c] : RecOk(couch[e.doc], pushed[e.doc], e.rev)

\* No document is asked for, or queued, twice.
OnceEach(c) ==
  /\ \A i, j \in 1..Len(todo[c]) : i # j => todo[c][i] # todo[c][j]
  /\ \A i \in 1..Len(queue[c]), j \in 1..Len(todo[c]) : queue[c][i].doc # todo[c][j]
  /\ \A i, j \in 1..Len(queue[c]) : i # j => queue[c][i].doc # queue[c][j].doc

StageOk(c) ==
  /\ pc[c] = "idle" => todo[c] = <<>> /\ queue[c] = <<>> /\ heal[c] = {} /\ reads[c] = NoReads
  /\ pc[c] \in {"scan", "getConflict", "putConflict", "save"} => dir[c] \in {"toRepo", "toCouch"}
  /\ pc[c] \in {"getConflict", "putConflict"} => todo[c] # <<>> /\ reads[c].couch \in Nat
  /\ pc[c] \in {"apply", "save", "ack"} => queue[c] # <<>>
  /\ pc[c] \in {"commit", "updateRef"} => queue[c] # <<>> /\ dir[c] \in {"toRepo", "delete"}
  /\ pc[c] = "apply" => dir[c] = "toCouch"
  /\ pc[c] \notin {"scan", "getConflict", "putConflict"} => todo[c] = <<>>

CallOk(c) == ReadsOk(c) /\ QueueOk(c) /\ HealOk(c) /\ OnceEach(c) /\ StageOk(c)

TreeHeld == \A d \in Docs : tree[d] # NoFile => tree[d] \in pushed[d]
RecordsOk == \A d \in Docs : RecOk(couch[d], pushed[d], syncDoc[d].rev)

Inv == TypeOK /\ TreeHeld /\ RecordsOk /\ \A c \in Calls : CallOk(c)

----------------------------------------------------------------------------
(* Stability. *)

Revs == Seq(Revision)

\* A list of revisions only gets longer.
Extends(revs, more) ==
  /\ Len(revs) <= Len(more)
  /\ \A i \in 1..Len(revs) : more[i] = revs[i]

\* What every step does to the two sides at most: it adds.
Grows == \A d \in Docs : Extends(couch[d], couch'[d]) /\ pushed[d] \subseteq pushed'[d]

SameLocal(c) ==
  /\ pc'[c] = pc[c] /\ dir'[c] = dir[c] /\ todo'[c] = todo[c]
  /\ reads'[c] = reads[c] /\ queue'[c] = queue[c] /\ heal'[c] = heal[c]

\* A fact about a revision survives whatever is added to either side.
LEMMA RecOkStable ==
  ASSUME NEW revs \in Revs, NEW more \in Revs, NEW blobs, NEW blobs2, NEW rev,
         Extends(revs, more), blobs \subseteq blobs2, RecOk(revs, blobs, rev)
  PROVE  RecOk(more, blobs2, rev)
BY DEF RecOk, Extends, Revs

LEMMA LiveRevStable ==
  ASSUME NEW revs \in Revs, NEW more \in Revs, NEW rev, Extends(revs, more), LiveRev(revs, rev)
  PROVE  LiveRev(more, rev) /\ more[rev] = revs[rev]
BY DEF LiveRev, Extends, Revs

\* A call that a step leaves alone keeps what it relies on.
LEMMA CallStable ==
  ASSUME TypeOK, TypeOK', Grows, NEW c \in Calls, CallOk(c), SameLocal(c)
  PROVE  CallOk(c)'
<1>t. \A d \in Docs : couch[d] \in Revs /\ couch'[d] \in Revs
  BY DEF TypeOK, DataTypeOK, Revs
<1>1. ReadsOk(c)'
  <2>1. SUFFICES ASSUME todo[c] # <<>>
                 PROVE  ReadsOk(c)'
    BY DEF ReadsOk, SameLocal
  <2>2. PICK d \in Docs : d = Head(todo[c])
    BY <2>1 DEF TypeOK, CallTypeOK
  <2>3. reads[c].couch \notin {Unread, 0} => LiveRev(couch'[d], reads[c].couch)
    BY <1>t, <2>1, <2>2, LiveRevStable DEF CallOk, ReadsOk, Grows
  <2>4. reads[c].file \in Blobs => reads[c].file \in pushed'[d]
    BY <2>1, <2>2 DEF CallOk, ReadsOk, Grows
  <2>5. reads[c].rec # Unread => RecOk(couch'[d], pushed'[d], reads[c].rec.rev)
    BY <1>t, <2>1, <2>2, RecOkStable DEF CallOk, ReadsOk, Grows
  <2>6. QED
    BY <2>2, <2>3, <2>4, <2>5 DEF ReadsOk, SameLocal
<1>2. QueueOk(c)'
  <2>1. ASSUME NEW e \in Entry
        PROVE  /\ PullEntryOk(couch[e.doc], pushed[e.doc], e) => PullEntryOk(couch'[e.doc], pushed'[e.doc], e)
               /\ PushEntryOk(couch[e.doc], e) => PushEntryOk(couch'[e.doc], e)
               /\ RecOk(couch[e.doc], pushed[e.doc], e.rev) => RecOk(couch'[e.doc], pushed'[e.doc], e.rev)
    <3>1. e.doc \in Docs
      BY DEF Entry
    <3>2. RecOk(couch[e.doc], pushed[e.doc], e.rev) => RecOk(couch'[e.doc], pushed'[e.doc], e.rev)
      BY <1>t, <3>1, RecOkStable DEF Grows
    <3>3. PullEntryOk(couch[e.doc], pushed[e.doc], e) => PullEntryOk(couch'[e.doc], pushed'[e.doc], e)
      BY <3>1, <3>2 DEF PullEntryOk, Grows
    <3>4. PushEntryOk(couch[e.doc], e) => PushEntryOk(couch'[e.doc], e)
      BY <1>t, <3>1, LiveRevStable DEF PushEntryOk, Grows
    <3>5. QED
      BY <3>2, <3>3, <3>4
  <2>2. \A i \in 1..Len(queue[c]) : queue[c][i] \in Entry
    BY DEF TypeOK, CallTypeOK
  <2>3. QED
    BY <2>1, <2>2 DEF CallOk, QueueOk, SameLocal
<1>3. HealOk(c)'
  <2>1. \A e \in heal[c] : e.doc \in Docs
    BY DEF TypeOK, CallTypeOK, Entry
  <2>2. \A e \in heal[c] : RecOk(couch'[e.doc], pushed'[e.doc], e.rev)
    BY <1>t, <2>1, RecOkStable DEF CallOk, HealOk, Grows
  <2>3. QED
    BY <2>2 DEF HealOk, SameLocal
<1>4. OnceEach(c)' /\ StageOk(c)'
  BY DEF CallOk, OnceEach, StageOk, SameLocal
<1>5. QED
  BY <1>1, <1>2, <1>3, <1>4 DEF CallOk

LEMMA UnchangedGrows ==
  ASSUME TypeOK, couch' = couch, pushed' = pushed
  PROVE  Grows
BY DEF Grows, Extends, TypeOK, DataTypeOK

LEMMA AppendGrows ==
  ASSUME TypeOK, NEW d \in Docs, NEW body \in Bodies \cup {NoBody}, NEW by \in {"user", "sync"},
         couch' = Append1(d, body, by), pushed' = pushed
  PROVE  /\ Grows
         /\ couch' \in [Docs -> Revs]
         /\ Len(couch'[d]) = Len(couch[d]) + 1
         /\ couch'[d][Len(couch[d]) + 1] = [body |-> body, by |-> by]
<1>1. couch \in [Docs -> Revs] /\ [body |-> body, by |-> by] \in Revision
  BY DEF TypeOK, DataTypeOK, Revs, Revision
<1>2. couch'[d] = Append(couch[d], [body |-> body, by |-> by]) /\ couch'[d] \in Revs
  <2> DEFINE rev == [body |-> body, by |-> by]
  <2>1. couch' = [couch EXCEPT ![d] = Append(couch[d], rev)]
    BY DEF Append1
  <2>2. rev \in Revision
    BY <1>1
  <2> HIDE DEF rev
  <2>3. couch'[d] = Append(couch[d], rev)
    BY <1>1, <2>1
  <2>4. Append(couch[d], rev) \in Revs
    BY <1>1, <2>2 DEF Revs
  <2>5. QED
    BY <2>3, <2>4 DEF rev
<1>3. \A other \in Docs : other # d => couch'[other] = couch[other]
  BY <1>1 DEF Append1
<1>4. /\ Len(couch'[d]) = Len(couch[d]) + 1
      /\ couch'[d][Len(couch[d]) + 1] = [body |-> body, by |-> by]
      /\ Extends(couch[d], couch'[d])
  BY <1>1, <1>2 DEF Extends, Revs
<1>5. \A other \in Docs : Extends(couch[other], couch'[other])
  BY <1>1, <1>3, <1>4 DEF Extends, Revs
<1>6. couch' \in [Docs -> Revs]
  BY <1>1, <1>2, <1>3 DEF Append1
<1>7. QED
  BY <1>4, <1>5, <1>6 DEF Grows

LEMMA PublishGrows ==
  ASSUME TypeOK, TreeHeld, NEW by \in {"app", "other"}, NEW newTree \in [Docs -> Blobs \cup {NoFile}],
         Publish(by, newTree)
  PROVE  Grows /\ TreeHeld' /\ DataTypeOK'
<1>1. \A d \in Docs : pushed'[d] = pushed[d] \cup ({newTree[d]} \ {NoFile})
  BY DEF Publish
<1>2. Grows
  BY <1>1 DEF Grows, Extends, Publish, TypeOK, DataTypeOK
<1>3. TreeHeld'
  BY <1>1 DEF TreeHeld, Publish
<1>4. DataTypeOK'
  <2>1. \A d \in Docs : pushed[d] \cup ({newTree[d]} \ {NoFile}) \subseteq Blobs
    BY DEF TypeOK, DataTypeOK
  <2>2. pushed' \in [Docs -> SUBSET Blobs]
    BY <2>1 DEF Publish
  <2>3. tip' \in [no : Nat, by : {"app", "other"}]
    BY DEF TypeOK, DataTypeOK, Publish
  <2>4. QED
    BY <2>2, <2>3 DEF TypeOK, DataTypeOK, Publish
<1>5. QED
  BY <1>2, <1>3, <1>4

LEMMA RecordsStable ==
  ASSUME TypeOK, TypeOK', Grows, RecordsOk, syncDoc' = syncDoc
  PROVE  RecordsOk'
<1>1. \A d \in Docs : couch[d] \in Revs /\ couch'[d] \in Revs
  BY DEF TypeOK, DataTypeOK, Revs
<1>2. QED
  BY <1>1, RecOkStable DEF RecordsOk, Grows

\* One call acts, the others keep what they rely on.
LEMMA OneCallActs ==
  ASSUME Inv, TypeOK', Grows, TreeHeld', RecordsOk', NEW c \in Calls, CallOk(c)',
         \A o \in Calls \ {c} : SameLocal(o)
  PROVE  Inv'
<1>1. \A o \in Calls \ {c} : CallOk(o)'
  BY CallStable DEF Inv
<1>2. QED
  BY <1>1 DEF Inv

LEMMA NobodyActs ==
  ASSUME Inv, TypeOK', Grows, TreeHeld', RecordsOk', \A o \in Calls : SameLocal(o)
  PROVE  Inv'
<1>1. \A o \in Calls : CallOk(o)'
  BY CallStable DEF Inv
<1>2. QED
  BY <1>1 DEF Inv

LEMMA ReturnOk ==
  ASSUME TypeOK, NEW c \in Calls, Return(c)
  PROVE  CallTypeOK' /\ CallOk(c)' /\ \A o \in Calls \ {c} : SameLocal(o)
<1>1. CallTypeOK'
  BY DEF Return, TypeOK, CallTypeOK, PCs, NoReads, ReadsType, NoTree
<1>2. pc'[c] = "idle" /\ todo'[c] = <<>> /\ queue'[c] = <<>> /\ heal'[c] = {} /\ reads'[c] = NoReads
  BY DEF Return, TypeOK, CallTypeOK
<1>3. CallOk(c)'
  BY <1>2 DEF CallOk, ReadsOk, QueueOk, HealOk, OnceEach, StageOk
<1>4. \A o \in Calls \ {c} : SameLocal(o)
  BY DEF Return, SameLocal, TypeOK, CallTypeOK
<1>5. QED
  BY <1>1, <1>3, <1>4

----------------------------------------------------------------------------
(* Initially. *)

LEMMA InitInv == Init => Inv
<1> SUFFICES ASSUME Init PROVE Inv
  OBVIOUS
<1>1. ASSUME NEW d \in Docs
      PROVE  couch[d] = <<>> \/ \E body \in Bodies : couch[d] = <<[body |-> body, by |-> "user"]>>
  BY DEF Init
<1>2. \A body \in Bodies : [body |-> body, by |-> "user"] \in Revision
  BY DEF Revision
<1>3. \A d \in Docs : couch[d] \in Revs
  <2>1. <<>> \in Revs /\ \A rev \in Revision : <<rev>> \in Revs
    BY DEF Revs
  <2>2. QED
    BY <1>1, <1>2, <2>1
<1>4. DataTypeOK
  <2>1. couch \in [Docs -> Seq(Revision)]
    BY <1>3 DEF Init, Revs
  <2>2. \A d \in Docs : {tree[d]} \ {NoFile} \subseteq Blobs
    BY DEF Init
  <2>3. pushed \in [Docs -> SUBSET Blobs]
    BY <2>2 DEF Init
  <2>4. QED
    BY <2>1, <2>3 DEF Init, DataTypeOK
<1>5. RecordTypeOK
  BY DEF Init, RecordTypeOK, Record, NoRecord
<1>6. CallTypeOK
  BY DEF Init, CallTypeOK, PCs, ReadsType, NoReads, NoTree
<1>7. TreeHeld
  BY DEF Init, TreeHeld
<1>8. RecordsOk
  <2>1. SUFFICES ASSUME NEW d \in Docs, syncDoc[d].rev # 0
                 PROVE  RecOk(couch[d], pushed[d], syncDoc[d].rev)
    BY DEF RecordsOk, RecOk
  <2>2. Synced /\ syncDoc[d].rev = 1
    BY <2>1 DEF Init, NoRecord
  <2>3. PICK body \in Bodies : couch[d] = <<[body |-> body, by |-> "user"]>>
    BY <1>1, <2>2 DEF Init
  <2>4. tree[d] = Canon[body] /\ tree[d] \in pushed[d]
    BY <2>2, <2>3, ContentAssumption, MarkerAssumption DEF Init
  <2>5. couch[d][1].body = BodyOf[tree[d]]
    BY <2>3, <2>4, ContentAssumption
  <2>6. QED
    BY <2>2, <2>3, <2>4, <2>5 DEF RecOk
<1>9. \A c \in Calls : CallOk(c)
  BY DEF Init, CallOk, ReadsOk, QueueOk, HealOk, OnceEach, StageOk
<1>10. QED
  BY <1>4, <1>5, <1>6, <1>7, <1>8, <1>9 DEF Inv, TypeOK

----------------------------------------------------------------------------
(* Starting a call. *)

LEMMA SequencedOk ==
  ASSUME NEW S \in SUBSET Docs, NEW order \in Sequenced(S)
  PROVE  /\ order \in Seq(Docs)
         /\ \A i, j \in 1..Len(order) : i # j => order[i] # order[j]
         /\ S # {} => order # <<>>
<1>1. IsFiniteSet(S) /\ Cardinality(S) \in Nat
  BY DocsAssumption, FS_Subset, FS_CardinalityType
<1>2. order \in [1..Cardinality(S) -> S]
  BY DEF Sequenced
<1>3. order \in Seq(Docs) /\ Len(order) = Cardinality(S)
  BY <1>1, <1>2
<1>4. S # {} => Cardinality(S) # 0
  BY <1>1, FS_EmptySet
<1>5. QED
  BY <1>1, <1>2, <1>3, <1>4 DEF Sequenced

LEMMA StartSyncInv ==
  ASSUME Inv, NEW c \in Calls, StartSync(c)
  PROVE  Inv'
<1>0. PICK way \in {"toRepo", "toCouch"}, S \in SUBSET Docs : \E order \in Sequenced(S) :
        dir' = [dir EXCEPT ![c] = way] /\ todo' = [todo EXCEPT ![c] = order]
  BY DEF StartSync
<1>1. PICK order \in Sequenced(S) :
        dir' = [dir EXCEPT ![c] = way] /\ todo' = [todo EXCEPT ![c] = order]
  BY <1>0
<1>2. order \in Seq(Docs) /\ \A i, j \in 1..Len(order) : i # j => order[i] # order[j]
  BY SequencedOk
<1>3. UNCHANGED <<data, records, reads, plan, keep, base>> /\ pc' = [pc EXCEPT ![c] = "scan"]
  BY DEF StartSync, GoTo
<1>4. TypeOK'
  BY <1>1, <1>2, <1>3 DEF StartSync, Inv, TypeOK, DataTypeOK, RecordTypeOK, CallTypeOK, PCs, data, records, plan
<1>5. Grows /\ TreeHeld' /\ RecordsOk'
  BY <1>3, <1>4, UnchangedGrows, RecordsStable DEF Inv, TreeHeld, data, records
<1>6. /\ queue'[c] = <<>> /\ heal'[c] = {} /\ reads'[c] = NoReads
      /\ pc'[c] = "scan" /\ dir'[c] = way /\ todo'[c] = order
  BY <1>1, <1>3 DEF StartSync, MayStart, Resting, Inv, CallOk, StageOk, TypeOK, CallTypeOK, plan
<1>7. CallOk(c)'
  BY <1>2, <1>6, ReadAssumption DEF CallOk, ReadsOk, QueueOk, HealOk, OnceEach, StageOk, NoReads
<1>8. \A o \in Calls \ {c} : SameLocal(o)
  BY <1>1, <1>3 DEF SameLocal, Inv, TypeOK, CallTypeOK, plan
<1>9. QED
  BY <1>4, <1>5, <1>7, <1>8, OneCallActs

\* A call without a scan: its entries name documents and nothing else.
LEMMA StartWorkOk ==
  ASSUME Inv, NEW c \in Calls, NEW what \in {"delete", "forget", "ack"},
         NEW where \in {"commit", "forget", "ack"}, NEW entries \in Seq(Entry),
         StartWork(c, what, where, entries), where \in {"commit", "ack"} => entries # <<>>, where = "commit" => what = "delete",
         what = "delete" => \A i \in 1..Len(entries) : entries[i].blob = NoFile,
         \A i, j \in 1..Len(entries) : i # j => entries[i].doc # entries[j].doc
  PROVE  /\ CallTypeOK' /\ RecordTypeOK' /\ TreeHeld' /\ syncDoc' = syncDoc /\ UNCHANGED <<tree, tip, pushed>>
         /\ CallOk(c)' /\ \A o \in Calls \ {c} : SameLocal(o)
<1>1. /\ pc' = [pc EXCEPT ![c] = where]
      /\ dir' = [dir EXCEPT ![c] = what]
      /\ queue' = [queue EXCEPT ![c] = entries]
      /\ UNCHANGED <<tree, tip, pushed, syncDoc, conflictDoc, todo, shaByPath, reads, heal, conflicted, keep, base>>
  BY DEF StartWork, GoTo, records
<1>2. CallTypeOK' /\ RecordTypeOK' /\ TreeHeld'
  BY <1>1 DEF Inv, TypeOK, CallTypeOK, RecordTypeOK, PCs, TreeHeld
<1>3. /\ todo'[c] = <<>> /\ heal'[c] = {} /\ pc'[c] = where /\ dir'[c] = what /\ queue'[c] = entries
  BY <1>1 DEF StartWork, MayStart, Resting, Inv, CallOk, StageOk, TypeOK, CallTypeOK
<1>4. CallOk(c)'
  BY <1>3 DEF CallOk, ReadsOk, QueueOk, HealOk, OnceEach, StageOk
<1>5. \A o \in Calls \ {c} : SameLocal(o)
  BY <1>1 DEF SameLocal, Inv, TypeOK, CallTypeOK
<1>6. QED
  BY <1>1, <1>2, <1>4, <1>5

LEMMA NamedOk ==
  ASSUME NEW order \in Seq(Docs), \A i, j \in 1..Len(order) : i # j => order[i] # order[j]
  PROVE  /\ Named(order) \in Seq(Entry) /\ Len(Named(order)) = Len(order)
         /\ \A i \in 1..Len(Named(order)) : Named(order)[i].blob = NoFile
         /\ \A i, j \in 1..Len(Named(order)) : i # j => Named(order)[i].doc # Named(order)[j].doc
<1>1. DOMAIN order = 1..Len(order) /\ Len(order) \in Nat
  OBVIOUS
<1>2. \A d \in Docs : EntryOf(d, 0, NoFile, NoFile) \in Entry /\ EntryOf(d, 0, NoFile, NoFile).doc = d
               /\ EntryOf(d, 0, NoFile, NoFile).blob = NoFile
  BY DEF EntryOf, Entry
<1>3. Named(order) \in [1..Len(order) -> Entry]
  BY <1>1, <1>2 DEF Named
<1>4. Named(order) \in Seq(Entry) /\ Len(Named(order)) = Len(order)
  BY <1>1, <1>3
<1>5. \A i \in 1..Len(order) : Named(order)[i].doc = order[i] /\ Named(order)[i].blob = NoFile
  BY <1>1, <1>2 DEF Named
<1>6. QED
  BY <1>4, <1>5

LEMMA StartDeleteInv ==
  ASSUME Inv, NEW c \in Calls, StartDelete(c)
  PROVE  Inv'
<1>0. PICK S \in (SUBSET Docs) \ {{}} : \E order \in Sequenced(S) : StartWork(c, "delete", "commit", Named(order))
  BY DEF StartDelete
<1>1. PICK order \in Sequenced(S) : StartWork(c, "delete", "commit", Named(order))
  BY <1>0
<1>2. /\ Named(order) \in Seq(Entry) /\ Named(order) # <<>>
      /\ \A i \in 1..Len(Named(order)) : Named(order)[i].blob = NoFile
      /\ \A i, j \in 1..Len(Named(order)) : i # j => Named(order)[i].doc # Named(order)[j].doc
  <2>0. S \in SUBSET Docs /\ S # {}
    OBVIOUS
  <2>1. order \in Seq(Docs) /\ order # <<>> /\ \A i, j \in 1..Len(order) : i # j => order[i] # order[j]
    BY <2>0, SequencedOk
  <2>2. /\ Named(order) \in Seq(Entry) /\ Len(Named(order)) = Len(order)
        /\ \A i \in 1..Len(Named(order)) : Named(order)[i].blob = NoFile
        /\ \A i, j \in 1..Len(Named(order)) : i # j => Named(order)[i].doc # Named(order)[j].doc
    BY <2>1, NamedOk
  <2>3. Len(order) # 0
    BY <2>1
  <2>4. QED
    BY <2>2, <2>3
<1>3. /\ CallTypeOK' /\ RecordTypeOK' /\ TreeHeld' /\ syncDoc' = syncDoc /\ UNCHANGED <<tree, tip, pushed>>
      /\ CallOk(c)' /\ \A o \in Calls \ {c} : SameLocal(o)
  BY <1>1, <1>2, StartWorkOk
<1>4. couch' = couch
  BY DEF StartDelete
<1>5. TypeOK'
  BY <1>3, <1>4 DEF Inv, TypeOK, DataTypeOK
<1>6. Grows /\ RecordsOk'
  BY <1>3, <1>4, <1>5, UnchangedGrows, RecordsStable DEF Inv
<1>7. QED
  BY <1>3, <1>5, <1>6, OneCallActs

LEMMA StartSweepInv ==
  ASSUME Inv, NEW c \in Calls, StartSweep(c)
  PROVE  Inv'
<1>1. PICK order \in Sequenced(Docs) : StartWork(c, "forget", "forget", Named(order))
  BY DEF StartSweep
<1>2. /\ Named(order) \in Seq(Entry)
      /\ \A i, j \in 1..Len(Named(order)) : i # j => Named(order)[i].doc # Named(order)[j].doc
  BY SequencedOk, NamedOk
<1>3. /\ CallTypeOK' /\ RecordTypeOK' /\ TreeHeld' /\ syncDoc' = syncDoc /\ UNCHANGED <<tree, tip, pushed>>
      /\ CallOk(c)' /\ \A o \in Calls \ {c} : SameLocal(o)
  BY <1>1, <1>2, StartWorkOk
<1>4. couch' = couch
  BY DEF StartSweep
<1>5. TypeOK'
  BY <1>3, <1>4 DEF Inv, TypeOK, DataTypeOK
<1>6. Grows /\ RecordsOk'
  BY <1>3, <1>4, <1>5, UnchangedGrows, RecordsStable DEF Inv
<1>7. QED
  BY <1>3, <1>5, <1>6, OneCallActs

LEMMA StartCouchDeleteInv ==
  ASSUME Inv, NEW c \in Calls, NEW d \in Docs, StartCouchDelete(c, d)
  PROVE  Inv'
<1>1. StartWork(c, "forget", "forget", Named(<<d>>)) /\ couch' = Append1(d, NoBody, "user")
  BY DEF StartCouchDelete
<1>2. /\ Named(<<d>>) \in Seq(Entry)
      /\ \A i, j \in 1..Len(Named(<<d>>)) : i # j => Named(<<d>>)[i].doc # Named(<<d>>)[j].doc
  <2>1. <<d>> \in Seq(Docs) /\ \A i, j \in 1..Len(<<d>>) : i # j => <<d>>[i] # <<d>>[j]
    OBVIOUS
  <2>2. QED
    BY <2>1, NamedOk
<1>3. /\ CallTypeOK' /\ RecordTypeOK' /\ TreeHeld' /\ syncDoc' = syncDoc /\ UNCHANGED <<tree, tip, pushed>>
      /\ CallOk(c)' /\ \A o \in Calls \ {c} : SameLocal(o)
  BY <1>1, <1>2, StartWorkOk
<1>4. Grows /\ couch' \in [Docs -> Revs]
  BY <1>1, <1>3, AppendGrows DEF Inv
<1>5. TypeOK'
  BY <1>3, <1>4 DEF Inv, TypeOK, DataTypeOK, Revs
<1>6. RecordsOk'
  BY <1>3, <1>4, <1>5, RecordsStable DEF Inv
<1>7. QED
  BY <1>3, <1>4, <1>5, <1>6, OneCallActs

LEMMA StartAckInv ==
  ASSUME Inv, NEW c \in Calls, NEW d \in Docs, StartAck(c, d)
  PROVE  Inv'
<1> DEFINE e == EntryOf(d, conflictDoc[d].rev, conflictDoc[d].sha, NoFile)
<1>1. StartWork(c, "ack", "ack", <<e>>) /\ couch' = couch
  BY DEF StartAck
<1>2. e \in Entry
  <2>1. conflictDoc[d] \in [rev : Nat, sha : Blobs \cup {NoFile}, resolved : BOOLEAN]
    BY DEF StartAck, Inv, TypeOK, RecordTypeOK
  <2>2. QED
    BY <2>1 DEF Entry, EntryOf
<1> HIDE DEF e
<1>3. <<e>> \in Seq(Entry) /\ <<e>> # <<>> /\ \A i, j \in 1..Len(<<e>>) : i # j => <<e>>[i].doc # <<e>>[j].doc
  BY <1>2
<1>4. /\ CallTypeOK' /\ RecordTypeOK' /\ TreeHeld' /\ syncDoc' = syncDoc /\ UNCHANGED <<tree, tip, pushed>>
      /\ CallOk(c)' /\ \A o \in Calls \ {c} : SameLocal(o)
  BY <1>1, <1>3, StartWorkOk
<1>5. TypeOK'
  BY <1>1, <1>4 DEF Inv, TypeOK, DataTypeOK
<1>6. Grows /\ RecordsOk'
  BY <1>1, <1>4, <1>5, UnchangedGrows, RecordsStable DEF Inv
<1>7. QED
  BY <1>4, <1>5, <1>6, OneCallActs

----------------------------------------------------------------------------
(* The scan. *)

LEMMA HeadTail ==
  ASSUME NEW T, NEW s \in Seq(T), s # <<>>
  PROVE  /\ Head(s) \in T /\ Tail(s) \in Seq(T)
         /\ Head(s) = s[1] /\ Len(s) \in Nat \ {0} /\ Len(Tail(s)) = Len(s) - 1
         /\ \A i \in 1..Len(Tail(s)) : Tail(s)[i] = s[i + 1]
OBVIOUS

LEMMA LiveCouchRev ==
  ASSUME TypeOK, NEW d \in Docs
  PROVE  CouchRev(d) \in Nat /\ (CouchRev(d) # 0 => LiveRev(couch[d], CouchRev(d)) /\ CouchRev(d) = Len(couch[d]))
<1>1. couch[d] \in Seq(Revision) /\ Len(couch[d]) \in Nat
  BY DEF TypeOK, DataTypeOK
<1>2. Len(couch[d]) # 0 => couch[d][Len(couch[d])] \in Revision
  BY <1>1
<1>3. Len(couch[d]) # 0 => couch[d][Len(couch[d])].body \in Bodies \cup {NoBody}
  BY <1>2 DEF Revision
<1>4. QED
  BY <1>1, <1>3 DEF CouchRev, BodyAt, LiveRev

\* One of the three reads is answered, truthfully for this moment.
LEMMA ReadInv ==
  ASSUME Inv, NEW c \in Calls, NEW side \in {"couch", "file", "rec"}, NEW answer,
         Read(c, side, answer),
         side = "couch" => answer = CouchRev(Head(todo[c])),
         side = "file" => answer = tree[Head(todo[c])],
         side = "rec" => answer = syncDoc[Head(todo[c])]
  PROVE  Inv'
<1>1. PICK d \in Docs : d = Head(todo[c])
  BY HeadTail DEF Read, Inv, TypeOK, CallTypeOK
<1>2. /\ UNCHANGED <<couch, tree, tip, pushed, syncDoc, conflictDoc, pc, dir, todo, shaByPath, queue, heal, conflicted, keep, base>>
      /\ reads' = [reads EXCEPT ![c] = [reads[c] EXCEPT ![side] = answer]]
      /\ pc[c] = "scan" /\ todo[c] # <<>>
  BY DEF Read, data, records, plan
<1>3. /\ side = "couch" => answer \in Nat /\ (answer # 0 => LiveRev(couch[d], answer))
      /\ side = "file" => answer \in Blobs \cup {NoFile} /\ (answer \in Blobs => answer \in pushed[d])
      /\ side = "rec" => answer \in Record /\ RecOk(couch[d], pushed[d], answer.rev)
  <2>1. side = "couch" => answer \in Nat /\ (answer # 0 => LiveRev(couch[d], answer))
    BY <1>1, LiveCouchRev DEF Inv
  <2>2. side = "file" => answer \in Blobs \cup {NoFile} /\ (answer \in Blobs => answer \in pushed[d])
    BY <1>1, MarkerAssumption DEF Inv, TypeOK, DataTypeOK, TreeHeld
  <2>3. side = "rec" => answer \in Record /\ RecOk(couch[d], pushed[d], answer.rev)
    BY <1>1 DEF Inv, TypeOK, RecordTypeOK, RecordsOk
  <2>4. QED
    BY <2>1, <2>2, <2>3
<1>4. reads[c] \in ReadsType
  BY DEF Inv, TypeOK, CallTypeOK
<1>5. /\ reads'[c] \in ReadsType
      /\ reads'[c].couch = (IF side = "couch" THEN answer ELSE reads[c].couch)
      /\ reads'[c].file = (IF side = "file" THEN answer ELSE reads[c].file)
      /\ reads'[c].rec = (IF side = "rec" THEN answer ELSE reads[c].rec)
  <2>1. reads'[c] = [reads[c] EXCEPT ![side] = answer]
    BY <1>2 DEF Inv, TypeOK, CallTypeOK
  <2>2. CASE side = "couch"
    BY <1>3, <1>4, <2>1, <2>2 DEF ReadsType
  <2>3. CASE side = "file"
    BY <1>3, <1>4, <2>1, <2>3 DEF ReadsType
  <2>4. CASE side = "rec"
    BY <1>3, <1>4, <2>1, <2>4 DEF ReadsType
  <2>5. QED
    BY <2>2, <2>3, <2>4
<1>6. TypeOK'
  BY <1>2, <1>5 DEF Inv, TypeOK, DataTypeOK, RecordTypeOK, CallTypeOK
<1>7. Grows /\ TreeHeld' /\ RecordsOk'
  BY <1>2, <1>6, UnchangedGrows, RecordsStable DEF Inv, TreeHeld
<1>8. ReadsOk(c)'
  BY <1>1, <1>2, <1>3, <1>5 DEF Inv, CallOk, ReadsOk
<1>9. QueueOk(c)' /\ HealOk(c)' /\ OnceEach(c)' /\ StageOk(c)'
  BY <1>2 DEF Inv, CallOk, QueueOk, HealOk, OnceEach, StageOk
<1>10. \A o \in Calls \ {c} : SameLocal(o)
  BY <1>2 DEF SameLocal, Inv, TypeOK, CallTypeOK
<1>11. QED
  BY <1>6, <1>7, <1>8, <1>9, <1>10, OneCallActs DEF CallOk

\* A call that returns, with nothing else changed.
LEMMA JustReturnInv ==
  ASSUME Inv, NEW c \in Calls, Return(c), UNCHANGED <<data, records>>
  PROVE  Inv'
<1>1. CallTypeOK' /\ CallOk(c)' /\ \A o \in Calls \ {c} : SameLocal(o)
  BY ReturnOk DEF Inv
<1>2. TypeOK'
  BY <1>1 DEF Inv, TypeOK, DataTypeOK, RecordTypeOK, data, records
<1>3. Grows /\ TreeHeld' /\ RecordsOk'
  BY <1>2, UnchangedGrows, RecordsStable DEF Inv, TreeHeld, data, records
<1>4. QED
  BY <1>1, <1>2, <1>3, OneCallActs

LEMMA UnreadableInv == ASSUME Inv, NEW c \in Calls, Unreadable(c) PROVE Inv'
BY JustReturnInv DEF Unreadable

LEMMA FinishInv == ASSUME Inv, NEW c \in Calls, Finish(c) PROVE Inv'
BY JustReturnInv DEF Finish

LEMMA AbortInv == ASSUME Inv, NEW c \in Calls, Abort(c) PROVE Inv'
BY JustReturnInv DEF Abort

\* classify's verdict is the licence to write: a document that exists in CouchDB is
\* pulled over only when its revision is the recorded one.
LEMMA PullVerdict ==
  ASSUME NEW couchRev \in Nat, NEW gitSha, NEW synced, couchRev # 0,
         canApply(Verdict(couchRev, gitSha, synced, FALSE), "toCouch")
  PROVE  couchRev = synced.rev
<1>1. Verdict(couchRev, gitSha, synced, FALSE) = resolveUnknown(classify(couchRev, gitSha, synced, FALSE), FALSE)
  BY DEF Verdict
<1>2. gitSha # NoFile
  BY <1>1 DEF canApply, resolveUnknown, classify
<1>3. classify(couchRev, gitSha, synced, FALSE) =
        IF synced = NoRecord THEN "unknown"
        ELSE IF couchRev # synced.rev /\ gitSha # synced.sha THEN "conflict"
        ELSE IF couchRev # synced.rev THEN "newer_in_couch"
        ELSE IF gitSha # synced.sha THEN "newer_in_git"
        ELSE "synced"
  BY <1>2 DEF classify
<1>4. QED
  BY <1>1, <1>3 DEF canApply, resolveUnknown

\* What the documents still to come keep when the first one is dealt with.
LEMMA PopOnce ==
  ASSUME Inv, NEW c \in Calls, todo[c] # <<>>
  PROVE  /\ Tail(todo[c]) \in Seq(Docs)
         /\ \A i, j \in 1..Len(Tail(todo[c])) : i # j => Tail(todo[c])[i] # Tail(todo[c])[j]
         /\ \A i \in 1..Len(queue[c]), j \in 1..Len(Tail(todo[c])) : queue[c][i].doc # Tail(todo[c])[j]
         /\ \A i \in 1..Len(queue[c]) : queue[c][i].doc # Head(todo[c])
         /\ \A j \in 1..Len(Tail(todo[c])) : Head(todo[c]) # Tail(todo[c])[j]
<1>1. todo[c] \in Seq(Docs)
  BY DEF Inv, TypeOK, CallTypeOK
<1>2. /\ Head(todo[c]) = todo[c][1] /\ Len(todo[c]) \in Nat \ {0} /\ Len(Tail(todo[c])) = Len(todo[c]) - 1
      /\ \A i \in 1..Len(Tail(todo[c])) : Tail(todo[c])[i] = todo[c][i + 1]
      /\ Tail(todo[c]) \in Seq(Docs)
  BY <1>1, HeadTail
<1>3. \A i \in 1..Len(Tail(todo[c])) : i + 1 \in 1..Len(todo[c]) /\ i + 1 # 1
  BY <1>2
<1>4. OnceEach(c)
  BY DEF Inv, CallOk
<1>5. \A i, j \in 1..Len(Tail(todo[c])) : i # j => todo[c][i + 1] # todo[c][j + 1]
  BY <1>3, <1>4 DEF OnceEach
<1>6. QED
  BY <1>2, <1>3, <1>4, <1>5 DEF OnceEach

\* The three answers are in.
LEMMA AllReadOk ==
  ASSUME Inv, NEW c \in Calls, AllRead(c)
  PROVE  /\ todo[c] # <<>> /\ Head(todo[c]) \in Docs
         /\ reads[c].couch \in Nat /\ reads[c].file \in Blobs \cup {NoFile} /\ reads[c].rec \in Record
         /\ shaByPath[c][Head(todo[c])] \in Blobs \cup {NoFile}
<1>1. todo[c] # <<>> /\ Head(todo[c]) \in Docs
  BY HeadTail DEF AllRead, Inv, TypeOK, CallTypeOK
<1>2. reads[c] \in ReadsType /\ reads[c].couch # Unread /\ reads[c].file # Unread /\ reads[c].rec # Unread
  BY DEF AllRead, NoReads, Inv, TypeOK, CallTypeOK
<1>3. reads[c].couch \in Nat /\ reads[c].file \in Blobs \cup {NoFile} /\ reads[c].rec \in Record
  BY <1>2 DEF ReadsType
<1>4. shaByPath[c][Head(todo[c])] \in Blobs \cup {NoFile}
  BY <1>1 DEF Inv, TypeOK, CallTypeOK
<1>5. QED
  BY <1>1, <1>3, <1>4

\* What a document contributes to a call's work is backed by the two sides.
LEMMA EntryBacked ==
  ASSUME Inv, NEW c \in Calls, AllRead(c), GitBody(reads[c].file) # Bad,
         canApply(Status(c), dir[c]), Present(c), NEW d, d = Head(todo[c])
  PROVE  /\ Equal(c) => /\ HealEntry(c) \in Entry /\ HealEntry(c).doc = d
                        /\ RecOk(couch[d], pushed[d], HealEntry(c).rev)
         /\ ~Equal(c) /\ dir[c] = "toRepo" =>
              PushEntry(c) \in Entry /\ PushEntry(c).doc = d /\ PushEntryOk(couch[d], PushEntry(c))
         /\ ~Equal(c) /\ dir[c] = "toCouch" =>
              PullEntry(c) \in Entry /\ PullEntry(c).doc = d /\ PullEntryOk(couch[d], pushed[d], PullEntry(c))
<1> DEFINE r == reads[c]
<1>1. /\ todo[c] # <<>> /\ d \in Docs
      /\ r.couch \in Nat /\ r.file \in Blobs \cup {NoFile} /\ r.rec \in Record
      /\ shaByPath[c][d] \in Blobs \cup {NoFile}
  BY AllReadOk
<1>2. /\ r.couch # 0 => LiveRev(couch[d], r.couch)
      /\ r.file \in Blobs => r.file \in pushed[d]
      /\ RecOk(couch[d], pushed[d], r.rec.rev)
  <2>1. r.couch # Unread /\ r.rec # Unread
    BY <1>1, ReadAssumption DEF Record
  <2>2. ReadsOk(c)
    BY DEF Inv, CallOk
  <2>3. QED
    BY <1>1, <2>1, <2>2 DEF ReadsOk
<1>3. Equal(c) => HealEntry(c) \in Entry /\ HealEntry(c).doc = d /\ RecOk(couch[d], pushed[d], HealEntry(c).rev)
  <2>1. SUFFICES ASSUME Equal(c) PROVE RecOk(couch[d], pushed[d], r.couch)
    BY <1>1 DEF HealEntry, EntryOf, Entry
  <2>2. r.couch # 0 /\ couch[d][r.couch].body = GitBody(r.file) /\ GitBody(r.file) # NoBody
    BY <2>1 DEF Equal, contentEqual, BodyAt
  <2>3. r.file \in pushed[d] /\ couch[d][r.couch].body = BodyOf[r.file]
    BY <1>1, <1>2, <2>2 DEF GitBody
  <2>4. QED
    BY <1>2, <2>2, <2>3 DEF RecOk, LiveRev
<1>4. ASSUME ~Equal(c), dir[c] = "toRepo"
      PROVE  PushEntry(c) \in Entry /\ PushEntry(c).doc = d /\ PushEntryOk(couch[d], PushEntry(c))
  <2>1. r.couch # 0 /\ LiveRev(couch[d], r.couch)
    BY <1>2, <1>4 DEF Present
  <2>2. BodyAt(d, r.couch) = couch[d][r.couch].body /\ couch[d][r.couch].body \in Bodies
    BY <2>1 DEF LiveRev, BodyAt
  <2>3. Canon[BodyAt(d, r.couch)] \in Blobs
    BY <2>2, ContentAssumption
  <2>4. QED
    BY <1>1, <2>1, <2>2, <2>3 DEF PushEntry, EntryOf, Entry, PushEntryOk
<1>5. ASSUME ~Equal(c), dir[c] = "toCouch"
      PROVE  PullEntry(c) \in Entry /\ PullEntry(c).doc = d /\ PullEntryOk(couch[d], pushed[d], PullEntry(c))
  <2>1. r.file \in pushed[d] /\ BodyOf[r.file] \in Bodies /\ r.file \in Blobs
    BY <1>1, <1>2, <1>5, ContentAssumption DEF Present, GitBody
  <2>2. RecOk(couch[d], pushed[d], r.couch)
    <3>1. CASE r.couch = 0
      BY <3>1 DEF RecOk
    <3>2. CASE r.couch # 0
      <4>1. canApply(Verdict(r.couch, shaByPath[c][d], r.rec, FALSE), "toCouch")
        BY <1>5 DEF Status, Equal, contentEqual
      <4>2. r.couch = r.rec.rev
        BY <1>1, <3>2, <4>1, PullVerdict
      <4>3. QED
        BY <1>2, <4>2
    <3>3. QED
      BY <3>1, <3>2
  <2>3. QED
    BY <1>1, <2>1, <2>2 DEF PullEntry, EntryOf, Entry, PullEntryOk
<1>6. QED
  BY <1>3, <1>4, <1>5

\* A document is classified and dealt with: refused, already equal, or to be written.
LEMMA SortInv ==
  ASSUME Inv, NEW c \in Calls, Sort(c)
  PROVE  Inv'
<1> DEFINE d == Head(todo[c])
           r == reads[c]
           n == Len(queue[c])
<1>0. /\ AllRead(c) /\ GitBody(r.file) # Bad
      /\ UNCHANGED <<couch, tree, tip, pushed, syncDoc, conflictDoc, pc, dir, shaByPath, conflicted, keep, base>>
      /\ todo' = [todo EXCEPT ![c] = Tail(todo[c])]
      /\ reads' = [reads EXCEPT ![c] = NoReads]
      /\ pc[c] = "scan" /\ todo[c] # <<>> /\ dir[c] \in {"toRepo", "toCouch"} /\ d \in Docs
  BY AllReadOk DEF Sort, NextDoc, AllRead, data, records, Inv, CallOk, StageOk
<1>1. queue[c] \in Seq(Entry) /\ n \in Nat /\ heal[c] \in SUBSET Entry
  BY DEF Inv, TypeOK, CallTypeOK
<1>2. /\ \A o \in Calls \ {c} : queue'[o] = queue[o] /\ heal'[o] = heal[o]
      /\ queue' \in [Calls -> Seq(Entry)] /\ heal' \in [Calls -> SUBSET Entry]
      /\ \A e \in heal'[c] : RecOk(couch[e.doc], pushed[e.doc], e.rev)
      /\ \/ queue'[c] = queue[c]
         \/ \E e \in Entry :
              /\ queue'[c] = Append(queue[c], e) /\ e.doc = d
              /\ dir[c] = "toRepo" => PushEntryOk(couch[d], e)
              /\ dir[c] = "toCouch" => PullEntryOk(couch[d], pushed[d], e)
  <2>0. /\ queue \in [Calls -> Seq(Entry)] /\ heal \in [Calls -> SUBSET Entry]
        /\ \A e \in heal[c] : RecOk(couch[e.doc], pushed[e.doc], e.rev)
    BY DEF Inv, TypeOK, CallTypeOK, CallOk, HealOk
  <2>1. CASE ~canApply(Status(c), dir[c]) \/ ~Present(c)
    BY <2>0, <2>1 DEF Sort
  <2>2. CASE canApply(Status(c), dir[c]) /\ Present(c) /\ Equal(c)
    <3>1. heal' = [heal EXCEPT ![c] = heal[c] \cup {HealEntry(c)}] /\ queue' = queue
      BY <2>2 DEF Sort
    <3>2. HealEntry(c) \in Entry /\ HealEntry(c).doc = d /\ RecOk(couch[d], pushed[d], HealEntry(c).rev)
      BY <1>0, <2>2, EntryBacked
    <3>3. QED
      BY <2>0, <3>1, <3>2
  <2>3. CASE canApply(Status(c), dir[c]) /\ Present(c) /\ ~Equal(c)
    <3>1. PICK e : /\ e = (IF dir[c] = "toRepo" THEN PushEntry(c) ELSE PullEntry(c))
                   /\ queue' = [queue EXCEPT ![c] = Append(queue[c], e)] /\ heal' = heal
      BY <2>3 DEF Sort
    <3>2. /\ e \in Entry /\ e.doc = d
          /\ dir[c] = "toRepo" => PushEntryOk(couch[d], e)
          /\ dir[c] = "toCouch" => PullEntryOk(couch[d], pushed[d], e)
      BY <1>0, <2>3, <3>1, EntryBacked
    <3>3. Append(queue[c], e) \in Seq(Entry)
      BY <1>1, <3>2
    <3>4. QED
      BY <2>0, <3>1, <3>2, <3>3
  <2>4. QED
    BY <2>1, <2>2, <2>3
<1>3. Tail(todo[c]) \in Seq(Docs)
  BY <1>0, PopOnce
<1>4. TypeOK'
  <2>1. todo' \in [Calls -> Seq(Docs)]
    BY <1>0, <1>3 DEF Inv, TypeOK, CallTypeOK
  <2>2. reads' \in [Calls -> ReadsType]
    BY <1>0 DEF Inv, TypeOK, CallTypeOK, ReadsType, NoReads
  <2>3. QED
    BY <1>0, <1>2, <2>1, <2>2 DEF Inv, TypeOK, DataTypeOK, RecordTypeOK, CallTypeOK
<1>5. Grows /\ TreeHeld' /\ RecordsOk'
  BY <1>0, <1>4, UnchangedGrows, RecordsStable DEF Inv, TreeHeld
<1>6. reads'[c] = NoReads /\ todo'[c] = Tail(todo[c])
  BY <1>0 DEF Inv, TypeOK, CallTypeOK
<1>7. ReadsOk(c)'
  BY <1>6, ReadAssumption DEF ReadsOk, NoReads
<1>8. HealOk(c)'
  BY <1>0, <1>2 DEF HealOk
<1>9. StageOk(c)'
  BY <1>0 DEF Inv, CallOk, StageOk
<1>10. QueueOk(c)' /\ OnceEach(c)'
  <2>0. QueueOk(c) /\ OnceEach(c)
    BY DEF Inv, CallOk
  <2>1. CASE queue'[c] = queue[c]
    <3>1. QueueOk(c)'
      BY <1>0, <2>0, <2>1 DEF QueueOk
    <3>2. /\ \A i, j \in 1..Len(Tail(todo[c])) : i # j => Tail(todo[c])[i] # Tail(todo[c])[j]
          /\ \A i \in 1..Len(queue[c]), j \in 1..Len(Tail(todo[c])) : queue[c][i].doc # Tail(todo[c])[j]
      BY <1>0, PopOnce
    <3>3. OnceEach(c)'
      BY <1>6, <2>0, <2>1, <3>2 DEF OnceEach
    <3>4. QED
      BY <3>1, <3>3
  <2>2. CASE queue'[c] # queue[c]
    <3>1. PICK e \in Entry :
              /\ queue'[c] = Append(queue[c], e) /\ e.doc = d
              /\ dir[c] = "toRepo" => PushEntryOk(couch[d], e)
              /\ dir[c] = "toCouch" => PullEntryOk(couch[d], pushed[d], e)
      BY <1>2, <2>2
    <3>2. /\ Len(queue'[c]) = n + 1 /\ queue'[c][n + 1] = e
          /\ \A i \in 1..n : queue'[c][i] = queue[c][i]
      BY <1>1, <3>1
    <3>3. QueueOk(c)'
      <4>1. SUFFICES ASSUME NEW i \in 1..(n + 1)
                     PROVE  /\ dir[c] = "toCouch" => PullEntryOk(couch[queue'[c][i].doc], pushed[queue'[c][i].doc], queue'[c][i])
                            /\ dir[c] = "toRepo" => PushEntryOk(couch[queue'[c][i].doc], queue'[c][i])
        BY <1>0, <3>2 DEF QueueOk
      <4>2. CASE i = n + 1
        BY <3>1, <3>2, <4>2
      <4>3. CASE i \in 1..n
        BY <2>0, <3>2, <4>3 DEF QueueOk
      <4>4. QED
        BY <1>1, <4>2, <4>3
    <3>4. OnceEach(c)'
      <4>0. \A i \in 1..(n + 1) : i \in 1..n \/ i = n + 1
        BY <1>1
      <4>1. /\ \A i, j \in 1..Len(Tail(todo[c])) : i # j => Tail(todo[c])[i] # Tail(todo[c])[j]
            /\ \A i \in 1..n, j \in 1..Len(Tail(todo[c])) : queue[c][i].doc # Tail(todo[c])[j]
            /\ \A i \in 1..n : queue[c][i].doc # d
            /\ \A j \in 1..Len(Tail(todo[c])) : d # Tail(todo[c])[j]
        BY <1>0, PopOnce
      <4>2. \A i \in 1..(n + 1), j \in 1..Len(Tail(todo[c])) : queue'[c][i].doc # Tail(todo[c])[j]
        BY <3>1, <3>2, <4>0, <4>1
      <4>3. \A i, j \in 1..(n + 1) : i # j => queue'[c][i].doc # queue'[c][j].doc
        <5>1. \A i, j \in 1..n : i # j => queue[c][i].doc # queue[c][j].doc
          BY <2>0 DEF OnceEach
        <5>2. QED
          BY <3>1, <3>2, <4>0, <4>1, <5>1
      <4>4. QED
        BY <1>6, <3>2, <4>1, <4>2, <4>3 DEF OnceEach
    <3>5. QED
      BY <3>3, <3>4
  <2>3. QED
    BY <2>1, <2>2
<1>11. \A o \in Calls \ {c} : SameLocal(o)
  BY <1>0, <1>2 DEF SameLocal, Inv, TypeOK, CallTypeOK
<1>12. QED
  BY <1>4, <1>5, <1>7, <1>8, <1>9, <1>10, <1>11, OneCallActs DEF CallOk

LEMMA FindConflictInv ==
  ASSUME Inv, NEW c \in Calls, FindConflict(c)
  PROVE  Inv'
<1> DEFINE d == Head(todo[c])
           r2 == [NoReads EXCEPT !.couch = reads[c].couch]
<1>1. /\ AllRead(c)
      /\ UNCHANGED <<couch, tree, tip, pushed, syncDoc, conflictDoc, dir, todo, shaByPath, queue, heal, keep, base>>
      /\ pc' = [pc EXCEPT ![c] = "getConflict"]
      /\ reads' = [reads EXCEPT ![c] = r2]
      /\ conflicted' = [conflicted EXCEPT ![c] = conflicted[c] \cup {d}]
  BY DEF FindConflict, GoTo, data, records
<1>2. todo[c] # <<>> /\ d \in Docs /\ reads[c].couch \in Nat
  BY <1>1, AllReadOk
<1>3. r2 \in ReadsType /\ r2.couch = reads[c].couch /\ r2.file = Unread /\ r2.rec = Unread
  BY <1>2 DEF NoReads, ReadsType
<1>4. pc[c] = "scan" /\ ReadsOk(c) /\ StageOk(c)
  BY <1>1 DEF AllRead, Inv, CallOk
<1> HIDE DEF r2
<1>5. TypeOK'
  BY <1>1, <1>2, <1>3 DEF Inv, TypeOK, DataTypeOK, RecordTypeOK, CallTypeOK, PCs
<1>6. Grows /\ TreeHeld' /\ RecordsOk'
  BY <1>1, <1>5, UnchangedGrows, RecordsStable DEF Inv, TreeHeld
<1>7. reads'[c] = r2 /\ pc'[c] = "getConflict"
  BY <1>1 DEF Inv, TypeOK, CallTypeOK
<1>8. ReadsOk(c)'
  BY <1>1, <1>2, <1>3, <1>4, <1>7, ReadAssumption DEF ReadsOk
<1>9. QueueOk(c)' /\ HealOk(c)' /\ OnceEach(c)'
  BY <1>1, <1>7 DEF Inv, CallOk, QueueOk, HealOk, OnceEach
<1>10. StageOk(c)'
  BY <1>1, <1>2, <1>3, <1>4, <1>7 DEF StageOk
<1>11. \A o \in Calls \ {c} : SameLocal(o)
  BY <1>1 DEF SameLocal, Inv, TypeOK, CallTypeOK
<1>12. QED
  BY <1>5, <1>6, <1>8, <1>9, <1>10, <1>11, OneCallActs DEF CallOk

LEMMA GetConflictInv ==
  ASSUME Inv, NEW c \in Calls, GetConflict(c)
  PROVE  Inv'
<1>1. /\ pc[c] = "getConflict" /\ pc' = [pc EXCEPT ![c] = "putConflict"]
      /\ UNCHANGED <<couch, tree, tip, pushed, syncDoc, conflictDoc, dir, todo, shaByPath, reads, queue, heal, conflicted, base>>
  BY DEF GetConflict, GoTo, data, records, plan
<1>2. keep' \in [Calls -> BOOLEAN]
  <2>1. PICK d \in Docs : d = Head(todo[c])
    BY <1>1, HeadTail DEF Inv, CallOk, StageOk, TypeOK, CallTypeOK
  <2>2. (SamePair(d, reads[c].couch, shaByPath[c][d]) /\ conflictDoc[d].resolved) \in BOOLEAN
    OBVIOUS
  <2>3. keep' = [keep EXCEPT ![c] = SamePair(d, reads[c].couch, shaByPath[c][d]) /\ conflictDoc[d].resolved]
    BY <2>1 DEF GetConflict
  <2>4. keep \in [Calls -> BOOLEAN]
    BY DEF Inv, TypeOK, CallTypeOK
  <2>5. QED
    BY <2>2, <2>3, <2>4
<1>3. TypeOK'
  BY <1>1, <1>2 DEF Inv, TypeOK, DataTypeOK, RecordTypeOK, CallTypeOK, PCs
<1>4. Grows /\ TreeHeld' /\ RecordsOk'
  BY <1>1, <1>3, UnchangedGrows, RecordsStable DEF Inv, TreeHeld
<1>5. pc'[c] = "putConflict"
  BY <1>1 DEF Inv, TypeOK, CallTypeOK
<1>6. CallOk(c)'
  BY <1>1, <1>5 DEF Inv, CallOk, ReadsOk, QueueOk, HealOk, OnceEach, StageOk
<1>7. \A o \in Calls \ {c} : SameLocal(o)
  BY <1>1 DEF SameLocal, Inv, TypeOK, CallTypeOK
<1>8. QED
  BY <1>3, <1>4, <1>6, <1>7, OneCallActs

LEMMA PutConflictInv ==
  ASSUME Inv, NEW c \in Calls, PutConflict(c)
  PROVE  Inv'
<1> DEFINE d == Head(todo[c])
<1>1. /\ pc[c] = "putConflict" /\ pc' = [pc EXCEPT ![c] = "scan"]
      /\ todo' = [todo EXCEPT ![c] = Tail(todo[c])]
      /\ reads' = [reads EXCEPT ![c] = NoReads]
      /\ keep' = [keep EXCEPT ![c] = FALSE]
      /\ UNCHANGED <<couch, tree, tip, pushed, syncDoc, dir, shaByPath, queue, heal, conflicted, base>>
  BY DEF PutConflict, NextDoc, GoTo, data, plan
<1>2. todo[c] # <<>> /\ reads[c].couch \in Nat /\ todo[c] \in Seq(Docs) /\ dir[c] \in {"toRepo", "toCouch"}
  BY <1>1 DEF Inv, CallOk, StageOk, TypeOK, CallTypeOK
<1>3. d \in Docs
  BY <1>2, HeadTail
<1>4. conflictDoc' \in [Docs -> [rev : Nat, sha : Blobs \cup {NoFile}, resolved : BOOLEAN] \cup {NoConflict}]
  <2>1. shaByPath[c][d] \in Blobs \cup {NoFile} /\ keep[c] \in BOOLEAN
    BY <1>3 DEF Inv, TypeOK, CallTypeOK
  <2>2. [rev |-> reads[c].couch, sha |-> shaByPath[c][d], resolved |-> keep[c]]
          \in [rev : Nat, sha : Blobs \cup {NoFile}, resolved : BOOLEAN]
    BY <1>2, <2>1
  <2>3. QED
    BY <2>2 DEF PutConflict, Inv, TypeOK, RecordTypeOK
<1>5. /\ Tail(todo[c]) \in Seq(Docs)
      /\ \A i, j \in 1..Len(Tail(todo[c])) : i # j => Tail(todo[c])[i] # Tail(todo[c])[j]
      /\ \A i \in 1..Len(queue[c]), j \in 1..Len(Tail(todo[c])) : queue[c][i].doc # Tail(todo[c])[j]
  BY <1>2, PopOnce
<1>6. TypeOK'
  <2>1. todo' \in [Calls -> Seq(Docs)] /\ reads' \in [Calls -> ReadsType] /\ keep' \in [Calls -> BOOLEAN]
    BY <1>1, <1>5 DEF Inv, TypeOK, CallTypeOK, ReadsType, NoReads
  <2>2. QED
    BY <1>1, <1>4, <2>1 DEF Inv, TypeOK, DataTypeOK, RecordTypeOK, CallTypeOK, PCs
<1>7. Grows /\ TreeHeld' /\ RecordsOk'
  BY <1>1, <1>6, UnchangedGrows, RecordsStable DEF Inv, TreeHeld
<1>8. pc'[c] = "scan" /\ todo'[c] = Tail(todo[c]) /\ reads'[c] = NoReads
  BY <1>1 DEF Inv, TypeOK, CallTypeOK
<1>9. ReadsOk(c)'
  BY <1>8, ReadAssumption DEF ReadsOk, NoReads
<1>10. QueueOk(c)' /\ HealOk(c)' /\ StageOk(c)'
  BY <1>1, <1>2, <1>8 DEF Inv, CallOk, QueueOk, HealOk, StageOk
<1>11. OnceEach(c)'
  <2>1. OnceEach(c) /\ queue'[c] = queue[c]
    BY <1>1 DEF Inv, CallOk
  <2>2. QED
    BY <1>5, <1>8, <2>1 DEF OnceEach
<1>12. \A o \in Calls \ {c} : SameLocal(o)
  BY <1>1 DEF SameLocal, Inv, TypeOK, CallTypeOK
<1>13. QED
  BY <1>6, <1>7, <1>9, <1>10, <1>11, <1>12, OneCallActs DEF CallOk

LEMMA EndScanInv ==
  ASSUME Inv, NEW c \in Calls, EndScan(c)
  PROVE  Inv'
<1>1. CASE dir[c] = "toCouch" /\ conflicted[c] # {}
  <2>1. Return(c) /\ UNCHANGED <<data, records>>
    BY <1>1 DEF EndScan
  <2>2. QED
    BY <2>1, JustReturnInv
<1>2. CASE ~(dir[c] = "toCouch" /\ conflicted[c] # {})
  <2> DEFINE where == IF queue[c] = <<>> THEN "heal" ELSE IF dir[c] = "toRepo" THEN "commit" ELSE "apply"
  <2>1. /\ pc[c] = "scan" /\ todo[c] = <<>> /\ pc' = [pc EXCEPT ![c] = where]
        /\ shaByPath' = [shaByPath EXCEPT ![c] = NoTree]
        /\ UNCHANGED <<couch, tree, tip, pushed, syncDoc, conflictDoc, dir, todo, reads, queue, heal, conflicted, keep, base>>
    BY <1>2 DEF EndScan, GoTo, data, records, plan
  <2>2. TypeOK'
    BY <2>1 DEF Inv, TypeOK, DataTypeOK, RecordTypeOK, CallTypeOK, PCs, NoTree
  <2>3. Grows /\ TreeHeld' /\ RecordsOk'
    BY <2>1, <2>2, UnchangedGrows, RecordsStable DEF Inv, TreeHeld
  <2>4. pc'[c] = where /\ dir[c] \in {"toRepo", "toCouch"}
    BY <2>1 DEF Inv, CallOk, StageOk, TypeOK, CallTypeOK
  <2>5. ReadsOk(c)' /\ QueueOk(c)' /\ HealOk(c)' /\ OnceEach(c)'
    BY <2>1, <2>4 DEF Inv, CallOk, ReadsOk, QueueOk, HealOk, OnceEach
  <2>6. StageOk(c)'
    BY <2>1, <2>4 DEF StageOk
  <2>7. \A o \in Calls \ {c} : SameLocal(o)
    BY <2>1 DEF SameLocal, Inv, TypeOK, CallTypeOK
  <2>8. QED
    BY <2>2, <2>3, <2>5, <2>6, <2>7, OneCallActs DEF CallOk
<1>3. QED
  BY <1>1, <1>2

----------------------------------------------------------------------------
(* The push. *)

LEMMA ReadHeadInv ==
  ASSUME Inv, NEW c \in Calls, ReadHead(c)
  PROVE  Inv'
<1>1. /\ pc[c] = "commit" /\ pc' = [pc EXCEPT ![c] = "updateRef"]
      /\ base' = [base EXCEPT ![c] = tip.no]
      /\ UNCHANGED <<couch, tree, tip, pushed, syncDoc, conflictDoc, dir, todo, shaByPath, reads, queue, heal, conflicted, keep>>
  BY DEF ReadHead, GoTo, data, records, plan
<1>2. TypeOK'
  <2>1. tip.no \in Nat
    BY DEF Inv, TypeOK, DataTypeOK
  <2>2. QED
    BY <1>1, <2>1 DEF Inv, TypeOK, DataTypeOK, RecordTypeOK, CallTypeOK, PCs
<1>3. Grows /\ TreeHeld' /\ RecordsOk'
  BY <1>1, <1>2, UnchangedGrows, RecordsStable DEF Inv, TreeHeld
<1>4. pc'[c] = "updateRef"
  BY <1>1 DEF Inv, TypeOK, CallTypeOK
<1>5. CallOk(c)'
  BY <1>1, <1>4 DEF Inv, CallOk, ReadsOk, QueueOk, HealOk, OnceEach, StageOk
<1>6. \A o \in Calls \ {c} : SameLocal(o)
  BY <1>1 DEF SameLocal, Inv, TypeOK, CallTypeOK
<1>7. QED
  BY <1>2, <1>3, <1>5, <1>6, OneCallActs

\* The commit's tree: every queued document has the blob of its only entry.
LEMMA OverlayOk ==
  ASSUME Inv, NEW c \in Calls
  PROVE  /\ Overlay(c) \in [Docs -> Blobs \cup {NoFile}]
         /\ \A i \in 1..Len(queue[c]) : queue[c][i].doc \in Docs /\ Overlay(c)[queue[c][i].doc] = queue[c][i].blob
         /\ \A d \in Docs : \/ Overlay(c)[d] = tree[d]
                           \/ \E i \in 1..Len(queue[c]) : queue[c][i].doc = d /\ Overlay(c)[d] = queue[c][i].blob
<1>1. \A i \in 1..Len(queue[c]) : queue[c][i] \in Entry
  BY DEF Inv, TypeOK, CallTypeOK
<1>2. \A i \in 1..Len(queue[c]) : queue[c][i].doc \in Docs /\ queue[c][i].blob \in Blobs \cup {NoFile}
  BY <1>1 DEF Entry
<1>3. \A d \in Queued(c) : Slot(c, d) \in 1..Len(queue[c]) /\ queue[c][Slot(c, d)].doc = d
  BY DEF Queued, Slot
<1>4. \A i \in 1..Len(queue[c]) : queue[c][i].doc \in Queued(c)
  BY DEF Queued
<1>5. \A i, j \in 1..Len(queue[c]) : i # j => queue[c][i].doc # queue[c][j].doc
  BY DEF Inv, CallOk, OnceEach
<1>6. \A i \in 1..Len(queue[c]) : Slot(c, queue[c][i].doc) = i
  BY <1>3, <1>4, <1>5
<1>7. \A d \in Docs : Overlay(c)[d] = IF d \in Queued(c) THEN queue[c][Slot(c, d)].blob ELSE tree[d]
  BY DEF Overlay
<1>8. tree \in [Docs -> Blobs \cup {NoFile}]
  BY DEF Inv, TypeOK, DataTypeOK
<1>9. \A d \in Docs : Overlay(c)[d] \in Blobs \cup {NoFile}
  BY <1>2, <1>3, <1>7, <1>8
<1>10. Overlay(c) \in [Docs -> Blobs \cup {NoFile}]
  BY <1>9 DEF Overlay
<1>11. QED
  BY <1>2, <1>3, <1>4, <1>6, <1>7, <1>10

LEMMA UpdateRefInv ==
  ASSUME Inv, NEW c \in Calls, UpdateRef(c)
  PROVE  Inv'
<1> DEFINE where == IF dir[c] = "delete" THEN "forget" ELSE "save"
<1>1. /\ pc[c] = "updateRef" /\ Publish("app", Overlay(c)) /\ couch' = couch
      /\ pc' = [pc EXCEPT ![c] = where] /\ base' = [base EXCEPT ![c] = 0]
      /\ UNCHANGED <<syncDoc, conflictDoc, dir, todo, shaByPath, reads, queue, heal, conflicted, keep>>
  BY DEF UpdateRef, GoTo, Publish, records, plan
<1>2. Grows /\ TreeHeld' /\ DataTypeOK'
  BY <1>1, OverlayOk, PublishGrows DEF Inv
<1>3. TypeOK'
  BY <1>1, <1>2 DEF Inv, TypeOK, RecordTypeOK, CallTypeOK, PCs
<1>4. RecordsOk'
  BY <1>1, <1>2, <1>3, RecordsStable DEF Inv
<1>5. pc'[c] = where /\ dir'[c] = dir[c] /\ queue'[c] = queue[c] /\ todo'[c] = <<>> /\ dir[c] \in {"toRepo", "delete"}
      /\ queue[c] # <<>>
  BY <1>1 DEF Inv, CallOk, StageOk, TypeOK, CallTypeOK
<1>6. ReadsOk(c)' /\ OnceEach(c)' /\ StageOk(c)'
  BY <1>1, <1>5 DEF Inv, CallOk, ReadsOk, OnceEach, StageOk
<1>7. HealOk(c)'
  <2>1. \A d \in Docs : couch[d] \in Revs /\ couch'[d] \in Revs
    BY <1>3 DEF Inv, TypeOK, DataTypeOK, Revs
  <2>2. \A e \in heal[c] : e.doc \in Docs /\ RecOk(couch[e.doc], pushed[e.doc], e.rev)
    BY DEF Inv, CallOk, HealOk, TypeOK, CallTypeOK, Entry
  <2>3. \A e \in heal[c] : RecOk(couch'[e.doc], pushed'[e.doc], e.rev)
    BY <1>2, <2>1, <2>2, RecOkStable DEF Grows
  <2>4. QED
    BY <1>1, <2>3 DEF HealOk
<1>8. QueueOk(c)'
  <2>1. SUFFICES ASSUME NEW i \in 1..Len(queue[c]), dir[c] = "toRepo"
                 PROVE  /\ PushEntryOk(couch'[queue[c][i].doc], queue[c][i])
                        /\ RecOk(couch'[queue[c][i].doc], pushed'[queue[c][i].doc], queue[c][i].rev)
    <3>1. \A i \in 1..Len(queue[c]) : dir[c] = "delete" => queue[c][i].blob = NoFile
      BY DEF Inv, CallOk, QueueOk
    <3>2. QED
      BY <1>5, <3>1 DEF QueueOk
  <2>2. PICK e \in Entry : e = queue[c][i]
    BY DEF Inv, TypeOK, CallTypeOK
  <2>3. PushEntryOk(couch[e.doc], e) /\ e.doc \in Docs
    BY <2>1, <2>2 DEF Inv, CallOk, QueueOk, Entry
  <2>4. e.blob \in Blobs /\ BodyOf[e.blob] = couch[e.doc][e.rev].body
    BY <2>3, ContentAssumption DEF PushEntryOk, LiveRev
  <2>5. e.blob \in pushed'[e.doc]
    <3>1. pushed'[e.doc] = pushed[e.doc] \cup ({Overlay(c)[e.doc]} \ {NoFile})
      BY <1>1, <2>3 DEF Publish
    <3>2. Overlay(c)[e.doc] = e.blob
      BY <2>2, OverlayOk
    <3>3. QED
      BY <2>4, <3>1, <3>2, MarkerAssumption
  <2>6. RecOk(couch[e.doc], pushed'[e.doc], e.rev)
    BY <2>3, <2>4, <2>5 DEF RecOk, PushEntryOk, LiveRev
  <2>7. QED
    BY <1>1, <2>2, <2>3, <2>6
<1>9. \A o \in Calls \ {c} : SameLocal(o)
  BY <1>1 DEF SameLocal, Inv, TypeOK, CallTypeOK
<1>10. QED
  BY <1>2, <1>3, <1>4, <1>6, <1>7, <1>8, <1>9, OneCallActs DEF CallOk

----------------------------------------------------------------------------
(* Records and revisions. *)

\* A record written as the entry has it.
LEMMA WriteRecordOk ==
  ASSUME Inv, NEW e \in Entry, RecOk(couch[e.doc], pushed[e.doc], e.rev), UNCHANGED <<couch, pushed>>,
         syncDoc' = [syncDoc EXCEPT ![e.doc] = [rev |-> e.rev, sha |-> e.sha]]
  PROVE  syncDoc' \in [Docs -> Record] /\ RecordsOk'
<1>1. e.doc \in Docs /\ [rev |-> e.rev, sha |-> e.sha] \in Record
  BY DEF Entry, Record
<1>2. syncDoc \in [Docs -> Record]
  BY DEF Inv, TypeOK, RecordTypeOK
<1>3. QED
  BY <1>1, <1>2 DEF Inv, RecordsOk

LEMMA SaveSyncStateInv ==
  ASSUME Inv, NEW c \in Calls, SaveSyncState(c)
  PROVE  Inv'
<1> DEFINE q == queue[c]
           where == IF Tail(q) = <<>> THEN "heal" ELSE IF dir[c] = "toRepo" THEN "save" ELSE "apply"
<1>1. /\ pc[c] = "save" /\ pc' = [pc EXCEPT ![c] = where]
      /\ queue' = [queue EXCEPT ![c] = Tail(q)]
      /\ syncDoc' = [syncDoc EXCEPT ![Head(q).doc] = [rev |-> Head(q).rev, sha |-> Head(q).sha]]
      /\ UNCHANGED <<couch, tree, tip, pushed, conflictDoc, dir, todo, shaByPath, reads, heal, conflicted, keep, base>>
  BY DEF SaveSyncState, GoTo, data
<1>2. q \in Seq(Entry) /\ q # <<>> /\ dir[c] \in {"toRepo", "toCouch"} /\ todo[c] = <<>>
  BY <1>1 DEF Inv, CallOk, StageOk, TypeOK, CallTypeOK
<1>3. /\ Head(q) \in Entry /\ Tail(q) \in Seq(Entry) /\ Head(q) = q[1]
      /\ Len(q) \in Nat \ {0} /\ Len(Tail(q)) = Len(q) - 1
      /\ \A i \in 1..Len(Tail(q)) : Tail(q)[i] = q[i + 1] /\ i + 1 \in 1..Len(q)
  BY <1>2, HeadTail
<1>4. RecOk(couch[Head(q).doc], pushed[Head(q).doc], Head(q).rev)
  <2>1. QueueOk(c)
    BY DEF Inv, CallOk
  <2>2. QED
    BY <1>1, <1>3, <2>1 DEF QueueOk
<1>5. syncDoc' \in [Docs -> Record] /\ RecordsOk'
  BY <1>1, <1>3, <1>4, WriteRecordOk
<1>6. TypeOK'
  <2>1. queue' \in [Calls -> Seq(Entry)] /\ pc' \in [Calls -> PCs]
    BY <1>1, <1>3 DEF Inv, TypeOK, CallTypeOK, PCs
  <2>2. QED
    BY <1>1, <1>5, <2>1 DEF Inv, TypeOK, DataTypeOK, RecordTypeOK, CallTypeOK
<1>7. Grows /\ TreeHeld'
  BY <1>1, UnchangedGrows DEF Inv, TreeHeld
<1>8. pc'[c] = where /\ queue'[c] = Tail(q) /\ dir'[c] = dir[c] /\ todo'[c] = <<>>
  BY <1>1, <1>2 DEF Inv, TypeOK, CallTypeOK
<1>9. QueueOk(c)'
  <2>1. QueueOk(c)
    BY DEF Inv, CallOk
  <2>2. \A i \in 1..Len(Tail(q)) : LET e == Tail(q)[i] IN
          /\ dir[c] = "toCouch" => PullEntryOk(couch[e.doc], pushed[e.doc], e)
          /\ dir[c] = "toRepo" => PushEntryOk(couch[e.doc], e)
          /\ RecOk(couch[e.doc], pushed[e.doc], e.rev)
    BY <1>1, <1>3, <2>1 DEF QueueOk
  <2>3. QED
    BY <1>1, <1>2, <1>8, <2>2 DEF QueueOk
<1>10. OnceEach(c)'
  <2>1. \A i, j \in 1..Len(q) : i # j => q[i].doc # q[j].doc
    BY DEF Inv, CallOk, OnceEach
  <2>2. \A i, j \in 1..Len(Tail(q)) : i # j => Tail(q)[i].doc # Tail(q)[j].doc
    <3>1. SUFFICES ASSUME NEW i \in 1..Len(Tail(q)), NEW j \in 1..Len(Tail(q)), i # j
                   PROVE  Tail(q)[i].doc # Tail(q)[j].doc
      OBVIOUS
    <3>2. i + 1 # j + 1 /\ i + 1 \in 1..Len(q) /\ j + 1 \in 1..Len(q)
      BY <1>3, <3>1
    <3>3. QED
      BY <1>3, <2>1, <3>2
  <2>3. QED
    BY <1>8, <2>2 DEF OnceEach
<1>11. ReadsOk(c)' /\ HealOk(c)' /\ StageOk(c)'
  <2>1. HealOk(c)'
    BY <1>1 DEF Inv, CallOk, HealOk
  <2>2. ReadsOk(c)' /\ StageOk(c)'
    BY <1>2, <1>8 DEF ReadsOk, StageOk
  <2>3. QED
    BY <2>1, <2>2
<1>12. \A o \in Calls \ {c} : SameLocal(o)
  BY <1>1 DEF SameLocal, Inv, TypeOK, CallTypeOK
<1>13. QED
  BY <1>5, <1>6, <1>7, <1>9, <1>10, <1>11, <1>12, OneCallActs DEF CallOk

\* A pull's write: the revision it makes has a body the branch has held.
LEMMA ApplyPutInv ==
  ASSUME Inv, NEW c \in Calls, ApplyPut(c)
  PROVE  Inv'
<1> DEFINE q == queue[c]
           e == Head(q)
           n == Len(couch[e.doc])
           body == GitBody(e.blob)
           e2 == [e EXCEPT !.rev = n + 1]
<1>1. /\ pc[c] = "apply" /\ pc' = [pc EXCEPT ![c] = "save"]
      /\ couch' = Append1(e.doc, body, "sync")
      /\ queue' = [queue EXCEPT ![c] = <<e2>> \o Tail(q)]
      /\ UNCHANGED <<tree, tip, pushed, syncDoc, conflictDoc, dir, todo, shaByPath, reads, heal, conflicted, keep, base>>
  BY DEF ApplyPut, GoTo, records
<1>2. q \in Seq(Entry) /\ q # <<>> /\ dir[c] = "toCouch" /\ todo[c] = <<>> /\ QueueOk(c) /\ OnceEach(c)
  BY <1>1 DEF Inv, CallOk, StageOk, TypeOK, CallTypeOK
<1>3. /\ e \in Entry /\ Tail(q) \in Seq(Entry) /\ e = q[1]
      /\ Len(q) \in Nat \ {0} /\ Len(Tail(q)) = Len(q) - 1
      /\ \A i \in 1..Len(Tail(q)) : Tail(q)[i] = q[i + 1]
  BY <1>2, HeadTail
<1>4. e.doc \in Docs /\ PullEntryOk(couch[e.doc], pushed[e.doc], e)
  <2>1. e.doc \in Docs
    BY <1>3 DEF Entry
  <2>2. QED
    BY <1>2, <1>3, <2>1 DEF QueueOk
<1>5. body \in Bodies /\ body = BodyOf[e.blob] /\ e.blob \in pushed[e.doc]
  <2>1. e.blob \in pushed[e.doc] /\ BodyOf[e.blob] \in Bodies /\ pushed[e.doc] \subseteq Blobs
    BY <1>4 DEF PullEntryOk, Inv, TypeOK, DataTypeOK
  <2>2. QED
    BY <2>1, MarkerAssumption DEF GitBody
<1>6. n \in Nat /\ e2 \in Entry /\ e2.doc = e.doc /\ e2.blob = e.blob /\ e2.rev = n + 1
  <2>1. n \in Nat
    BY <1>4 DEF Inv, TypeOK, DataTypeOK
  <2>2. QED
    BY <1>3, <2>1 DEF Entry
<1> HIDE DEF e2, body
<1>7. /\ Grows /\ couch' \in [Docs -> Revs]
      /\ Len(couch'[e.doc]) = n + 1 /\ couch'[e.doc][n + 1] = [body |-> body, by |-> "sync"]
  BY <1>1, <1>4, <1>5, AppendGrows DEF Inv
<1>8. /\ <<e2>> \o Tail(q) \in Seq(Entry)
      /\ Len(<<e2>> \o Tail(q)) = Len(q)
      /\ (<<e2>> \o Tail(q))[1] = e2
      /\ \A i \in 2..Len(q) : (<<e2>> \o Tail(q))[i] = q[i]
  <2>1. <<e2>> \in Seq(Entry) /\ Len(<<e2>>) = 1 /\ <<e2>>[1] = e2
    BY <1>6
  <2>2. /\ <<e2>> \o Tail(q) \in Seq(Entry) /\ Len(<<e2>> \o Tail(q)) = Len(q)
        /\ (<<e2>> \o Tail(q))[1] = e2
        /\ \A i \in 2..Len(q) : (<<e2>> \o Tail(q))[i] = Tail(q)[i - 1]
    BY <1>3, <2>1
  <2>3. \A i \in 2..Len(q) : Tail(q)[i - 1] = q[i]
    BY <1>3
  <2>4. QED
    BY <2>2, <2>3
<1> DEFINE q2 == <<e2>> \o Tail(q)
<1> HIDE DEF q2
<1>9. q2 \in Seq(Entry) /\ Len(q2) = Len(q) /\ q2[1] = e2 /\ \A i \in 2..Len(q) : q2[i] = q[i]
  BY <1>8 DEF q2
<1>10. queue'[c] = q2 /\ pc'[c] = "save" /\ dir'[c] = "toCouch" /\ todo'[c] = <<>>
  BY <1>1, <1>2 DEF q2, Inv, TypeOK, CallTypeOK
<1>11. TypeOK'
  <2>1. queue' \in [Calls -> Seq(Entry)] /\ pc' \in [Calls -> PCs]
    BY <1>1, <1>9 DEF q2, Inv, TypeOK, CallTypeOK, PCs
  <2>2. QED
    BY <1>1, <1>7, <2>1 DEF Inv, TypeOK, DataTypeOK, RecordTypeOK, CallTypeOK, Revs
<1>12. TreeHeld' /\ RecordsOk'
  BY <1>1, <1>7, <1>11, RecordsStable DEF Inv, TreeHeld
<1>13. QueueOk(c)'
  <2>1. SUFFICES ASSUME NEW i \in 1..Len(q)
                 PROVE  PullEntryOk(couch'[q2[i].doc], pushed'[q2[i].doc], q2[i])
    BY <1>9, <1>10 DEF QueueOk, PullEntryOk
  <2>2. CASE i = 1
    <3>1. RecOk(couch'[e.doc], pushed[e.doc], n + 1)
      BY <1>5, <1>6, <1>7 DEF RecOk
    <3>2. PullEntryOk(couch'[e.doc], pushed[e.doc], e2)
      BY <1>5, <1>6, <3>1 DEF PullEntryOk
    <3>3. QED
      BY <1>1, <1>6, <1>9, <2>2, <3>2
  <2>3. CASE i # 1
    <3>1. PICK f \in Entry : f = q[i] /\ f = q2[i]
      BY <1>2, <1>3, <1>9, <2>3
    <3>2. f.doc \in Docs /\ PullEntryOk(couch[f.doc], pushed[f.doc], f)
      BY <1>2, <3>1 DEF QueueOk, Entry
    <3>3. couch[f.doc] \in Revs /\ couch'[f.doc] \in Revs
      BY <1>7, <3>2 DEF Inv, TypeOK, DataTypeOK, Revs
    <3>4. RecOk(couch'[f.doc], pushed'[f.doc], f.rev)
      BY <1>7, <3>2, <3>3, RecOkStable DEF PullEntryOk, Grows
    <3>5. QED
      BY <1>1, <3>1, <3>2, <3>4 DEF PullEntryOk
  <2>4. QED
    BY <2>2, <2>3
<1>14. OnceEach(c)'
  <2>1. \A i \in 1..Len(q) : q2[i].doc = q[i].doc
    BY <1>3, <1>6, <1>9
  <2>2. \A i, j \in 1..Len(q) : i # j => q2[i].doc # q2[j].doc
    BY <1>2, <2>1 DEF OnceEach
  <2>3. QED
    BY <1>9, <1>10, <2>2 DEF OnceEach
<1>15. HealOk(c)'
  <2>1. \A d \in Docs : couch[d] \in Revs /\ couch'[d] \in Revs
    BY <1>7 DEF Inv, TypeOK, DataTypeOK, Revs
  <2>2. \A f \in heal[c] : f.doc \in Docs /\ RecOk(couch[f.doc], pushed[f.doc], f.rev)
    BY DEF Inv, CallOk, HealOk, TypeOK, CallTypeOK, Entry
  <2>3. \A f \in heal[c] : RecOk(couch'[f.doc], pushed'[f.doc], f.rev)
    BY <1>7, <2>1, <2>2, RecOkStable DEF Grows
  <2>4. QED
    BY <1>1, <2>3 DEF HealOk
<1>16. ReadsOk(c)' /\ StageOk(c)'
  <2>1. q2 # <<>>
    BY <1>3, <1>9
  <2>2. QED
    BY <1>10, <2>1 DEF ReadsOk, StageOk
<1>17. \A o \in Calls \ {c} : SameLocal(o)
  BY <1>1 DEF SameLocal, Inv, TypeOK, CallTypeOK
<1>18. QED
  BY <1>7, <1>11, <1>12, <1>13, <1>14, <1>15, <1>16, <1>17, OneCallActs DEF CallOk

LEMMA HealInv ==
  ASSUME Inv, NEW c \in Calls, NEW e \in heal[c], Heal(c, e)
  PROVE  Inv'
<1>1. /\ heal' = [heal EXCEPT ![c] = heal[c] \ {e}]
      /\ UNCHANGED <<couch, tree, tip, pushed, conflictDoc, pc, dir, todo, shaByPath, reads, queue, conflicted, keep, base>>
      /\ syncDoc' = [syncDoc EXCEPT ![e.doc] = [rev |-> e.rev, sha |-> e.sha]] \/ syncDoc' = syncDoc
      /\ pc[c] = "heal"
  BY DEF Heal, data
<1>2. e \in Entry /\ RecOk(couch[e.doc], pushed[e.doc], e.rev)
  BY DEF Inv, CallOk, HealOk, TypeOK, CallTypeOK
<1>3. syncDoc' \in [Docs -> Record] /\ RecordsOk'
  <2>1. CASE syncDoc' = syncDoc
    BY <1>1, <2>1 DEF Inv, RecordsOk, TypeOK, RecordTypeOK
  <2>2. CASE syncDoc' = [syncDoc EXCEPT ![e.doc] = [rev |-> e.rev, sha |-> e.sha]]
    BY <1>1, <1>2, <2>2, WriteRecordOk
  <2>3. QED
    BY <1>1, <2>1, <2>2
<1>4. TypeOK'
  BY <1>1, <1>3 DEF Inv, TypeOK, DataTypeOK, RecordTypeOK, CallTypeOK
<1>5. Grows /\ TreeHeld'
  BY <1>1, UnchangedGrows DEF Inv, TreeHeld
<1>6. heal'[c] = heal[c] \ {e}
  BY <1>1 DEF Inv, TypeOK, CallTypeOK
<1>7. CallOk(c)'
  BY <1>1, <1>6 DEF Inv, CallOk, ReadsOk, QueueOk, HealOk, OnceEach, StageOk
<1>8. \A o \in Calls \ {c} : SameLocal(o)
  BY <1>1 DEF SameLocal, Inv, TypeOK, CallTypeOK
<1>9. QED
  BY <1>3, <1>4, <1>5, <1>7, <1>8, OneCallActs

LEMMA ForgetInv ==
  ASSUME Inv, NEW c \in Calls, Forget(c)
  PROVE  Inv'
<1>1. Return(c) /\ UNCHANGED <<couch, tree, tip, pushed>>
  BY DEF Forget, data
<1>2. PICK gone, settled \in SUBSET Queued(c) :
        /\ syncDoc' = [d \in Docs |-> IF d \in gone THEN NoRecord ELSE syncDoc[d]]
        /\ conflictDoc' = [d \in Docs |-> IF d \in settled THEN NoConflict ELSE conflictDoc[d]]
  BY DEF Forget
<1>3. CallTypeOK' /\ CallOk(c)' /\ \A o \in Calls \ {c} : SameLocal(o)
  BY <1>1, ReturnOk DEF Inv
<1>4. RecordTypeOK'
  <2>1. NoRecord \in Record
    BY DEF NoRecord, Record
  <2>2. syncDoc' \in [Docs -> Record]
    BY <1>2, <2>1 DEF Inv, TypeOK, RecordTypeOK
  <2>3. conflictDoc' \in [Docs -> [rev : Nat, sha : Blobs \cup {NoFile}, resolved : BOOLEAN] \cup {NoConflict}]
    BY <1>2 DEF Inv, TypeOK, RecordTypeOK
  <2>4. QED
    BY <2>2, <2>3 DEF RecordTypeOK
<1>5. TypeOK'
  BY <1>1, <1>3, <1>4 DEF Inv, TypeOK, DataTypeOK
<1>6. Grows /\ TreeHeld'
  BY <1>1, UnchangedGrows DEF Inv, TreeHeld
<1>7. RecordsOk'
  BY <1>1, <1>2 DEF Inv, RecordsOk, RecOk, NoRecord
<1>8. QED
  BY <1>3, <1>5, <1>6, <1>7, OneCallActs

LEMMA PutAckInv ==
  ASSUME Inv, NEW c \in Calls, PutAck(c)
  PROVE  Inv'
<1> DEFINE e == Head(queue[c])
<1>1. /\ pc[c] = "ack" /\ Return(c) /\ UNCHANGED <<couch, tree, tip, pushed, syncDoc>>
      /\ conflictDoc' = [conflictDoc EXCEPT ![e.doc] = [rev |-> e.rev, sha |-> e.sha, resolved |-> TRUE]]
  BY DEF PutAck, data
<1>2. e \in Entry
  BY <1>1, HeadTail DEF Inv, CallOk, StageOk, TypeOK, CallTypeOK
<1>3. CallTypeOK' /\ CallOk(c)' /\ \A o \in Calls \ {c} : SameLocal(o)
  BY <1>1, ReturnOk DEF Inv
<1>4. RecordTypeOK'
  <2>1. [rev |-> e.rev, sha |-> e.sha, resolved |-> TRUE] \in [rev : Nat, sha : Blobs \cup {NoFile}, resolved : BOOLEAN]
    BY <1>2 DEF Entry
  <2>2. QED
    BY <1>1, <2>1 DEF Inv, TypeOK, RecordTypeOK
<1>5. TypeOK'
  BY <1>1, <1>3, <1>4 DEF Inv, TypeOK, DataTypeOK
<1>6. Grows /\ TreeHeld' /\ RecordsOk'
  BY <1>1, <1>5, UnchangedGrows, RecordsStable DEF Inv, TreeHeld
<1>7. QED
  BY <1>3, <1>5, <1>6, OneCallActs

----------------------------------------------------------------------------
(* Everybody else. *)

LEMMA EditCouchInv ==
  ASSUME Inv, NEW d \in Docs, EditCouch(d)
  PROVE  Inv'
<1>1. PICK body \in Bodies \cup {NoBody} : couch' = Append1(d, body, "user")
  BY DEF EditCouch
<1>2. UNCHANGED <<tree, tip, pushed, syncDoc, conflictDoc, pc, dir, todo, shaByPath, reads, queue, heal, conflicted, keep, base>>
  BY DEF EditCouch, records, local
<1>3. Grows /\ couch' \in [Docs -> Revs]
  BY <1>1, <1>2, AppendGrows DEF Inv
<1>4. TypeOK'
  BY <1>2, <1>3 DEF Inv, TypeOK, DataTypeOK, RecordTypeOK, CallTypeOK, Revs
<1>5. TreeHeld' /\ RecordsOk'
  BY <1>2, <1>3, <1>4, RecordsStable DEF Inv, TreeHeld
<1>6. \A o \in Calls : SameLocal(o)
  BY <1>2 DEF SameLocal
<1>7. QED
  BY <1>3, <1>4, <1>5, <1>6, NobodyActs

LEMMA ForeignPushInv ==
  ASSUME Inv, NEW d \in Docs, ForeignPush(d)
  PROVE  Inv'
<1>1. PICK blob \in Blobs \cup {NoFile} : Publish("other", [tree EXCEPT ![d] = blob])
  BY DEF ForeignPush
<1>2. UNCHANGED <<couch, syncDoc, conflictDoc, pc, dir, todo, shaByPath, reads, queue, heal, conflicted, keep, base>>
  BY <1>1 DEF ForeignPush, Publish, records, local
<1>3. [tree EXCEPT ![d] = blob] \in [Docs -> Blobs \cup {NoFile}]
  BY DEF Inv, TypeOK, DataTypeOK
<1>4. Grows /\ TreeHeld' /\ DataTypeOK'
  BY <1>1, <1>3, PublishGrows DEF Inv
<1>5. TypeOK'
  BY <1>2, <1>4 DEF Inv, TypeOK, RecordTypeOK, CallTypeOK
<1>6. RecordsOk'
  BY <1>2, <1>4, <1>5, RecordsStable DEF Inv
<1>7. \A o \in Calls : SameLocal(o)
  BY <1>2 DEF SameLocal
<1>8. QED
  BY <1>4, <1>5, <1>6, <1>7, NobodyActs

----------------------------------------------------------------------------
(* The theorems. *)

LEMMA StepInv ==
  ASSUME Inv, NEW c \in Calls, Step(c)
  PROVE  Inv'
<1>1. CASE ReadCouch(c)
  BY <1>1, ReadInv DEF ReadCouch
<1>2. CASE ReadFile(c)
  BY <1>2, ReadInv DEF ReadFile
<1>3. CASE ReadRecord(c)
  BY <1>3, ReadInv DEF ReadRecord
<1>4. CASE \/ Unreadable(c) \/ Sort(c) \/ FindConflict(c) \/ GetConflict(c) \/ PutConflict(c) \/ EndScan(c)
  BY <1>4, UnreadableInv, SortInv, FindConflictInv, GetConflictInv, PutConflictInv, EndScanInv
<1>5. CASE ReadHead(c) \/ UpdateRef(c) \/ SaveSyncState(c) \/ ApplyPut(c)
  BY <1>5, ReadHeadInv, UpdateRefInv, SaveSyncStateInv, ApplyPutInv
<1>6. CASE \/ \E e \in heal[c] : Heal(c, e)
           \/ Finish(c) \/ Forget(c) \/ PutAck(c) \/ Abort(c)
  BY <1>6, HealInv, FinishInv, ForgetInv, PutAckInv, AbortInv
<1>7. QED
  BY <1>1, <1>2, <1>3, <1>4, <1>5, <1>6 DEF Step

LEMMA NextInv == Inv /\ [Next]_vars => Inv'
<1> SUFFICES ASSUME Inv, [Next]_vars PROVE Inv'
  OBVIOUS
<1>1. CASE \E c \in Calls : Step(c)
  BY <1>1, StepInv
<1>2. ASSUME NEW c \in Calls, Start(c)
      PROVE  Inv'
  BY <1>2, StartSyncInv, StartDeleteInv, StartSweepInv, StartCouchDeleteInv, StartAckInv DEF Start
<1>3. CASE Others
  BY <1>3, EditCouchInv, ForeignPushInv DEF Others
<1>4. CASE UNCHANGED vars
  <2>1. \A o \in Calls : SameLocal(o)
    BY <1>4 DEF vars, SameLocal
  <2>2. TypeOK' /\ TreeHeld'
    BY <1>4 DEF vars, Inv, TypeOK, DataTypeOK, RecordTypeOK, CallTypeOK, TreeHeld
  <2>3. Grows /\ RecordsOk'
    BY <1>4, <2>2, UnchangedGrows, RecordsStable DEF vars, Inv
  <2>4. QED
    BY <2>1, <2>2, <2>3, NobodyActs
<1>5. QED
  BY <1>1, <1>2, <1>3, <1>4 DEF Next

\* The invariant holds in every reachable state.
THEOREM InvHolds == Spec => []Inv
BY InitInv, NextInv, PTL DEF Spec

\* Every variable keeps its shape.
THEOREM TypeCorrect == Spec => []TypeOK
BY InvHolds, PTL DEF Inv

\* The revision a sync: record names has a body the branch has held, however the calls,
\* the edits and the foreign commits interleave and whichever requests fail.
THEOREM RecordedRevIsHeld == Spec => []RecordedRevInGitHistory
<1>1. Inv => RecordedRevInGitHistory
  <2>1. SUFFICES ASSUME Inv, NEW d \in Docs, syncDoc[d].rev # 0
                 PROVE  syncDoc[d].rev <= Len(couch[d]) /\ BodyAt(d, syncDoc[d].rev) \in Held(d)
    BY DEF RecordedRevInGitHistory
  <2>2. RecOk(couch[d], pushed[d], syncDoc[d].rev) /\ Len(couch[d]) \in Nat
    BY <2>1 DEF Inv, RecordsOk, TypeOK, DataTypeOK
  <2>3. PICK b \in pushed[d] : couch[d][syncDoc[d].rev].body = BodyOf[b]
    BY <2>1, <2>2 DEF RecOk
  <2>4. BodyAt(d, syncDoc[d].rev) \in Held(d)
    BY <2>1, <2>3 DEF BodyAt, Held
  <2>5. QED
    BY <2>1, <2>2, <2>4 DEF RecOk
<1>2. QED
  BY <1>1, InvHolds, PTL

----------------------------------------------------------------------------
(* The exchange implements what it promises. *)

LEMMA SaveStep ==
  ASSUME NEW d \in Docs, NEW body \in Bodies \cup {NoBody}, couch' = Append1(d, body, "user"),
         UNCHANGED <<tree, tip, pushed>>
  PROVE  Exchange!Next
BY DEF Append1, Exchange!Next, Exchange!Save

\* The put's guard, CouchDB's revision check, meets the fact the entry carries.
LEMMA PullStep ==
  ASSUME Inv, NEW c \in Calls, ApplyPut(c)
  PROVE  Exchange!Next
<1> DEFINE e == Head(queue[c])
           n == Len(couch[e.doc])
<1>1. /\ CouchRev(e.doc) = e.rev /\ couch' = Append1(e.doc, GitBody(e.blob), "sync")
      /\ UNCHANGED <<tree, tip, pushed>>
  BY DEF ApplyPut
<1>2. e \in Entry /\ e.doc \in Docs /\ PullEntryOk(couch[e.doc], pushed[e.doc], e)
  <2>1. queue[c] \in Seq(Entry) /\ queue[c] # <<>> /\ dir[c] = "toCouch" /\ QueueOk(c)
    BY DEF ApplyPut, Inv, CallOk, StageOk, TypeOK, CallTypeOK
  <2>2. e \in Entry /\ e = queue[c][1] /\ 1 \in 1..Len(queue[c])
    BY <2>1, HeadTail
  <2>3. QED
    BY <2>1, <2>2 DEF QueueOk, Entry
<1>3. GitBody(e.blob) \in Exchange!Held(e.doc) \cap Bodies
  <2>1. e.blob \in pushed[e.doc] /\ BodyOf[e.blob] \in Bodies /\ pushed[e.doc] \subseteq Blobs
    BY <1>2 DEF PullEntryOk, Inv, TypeOK, DataTypeOK
  <2>2. QED
    BY <2>1, MarkerAssumption DEF GitBody, Exchange!Held
<1>4. couch[e.doc] = <<>> \/ couch[e.doc][n].body \in Exchange!Held(e.doc) \cup {NoBody}
  <2>1. couch[e.doc] \in Seq(Revision) /\ n \in Nat /\ (n = 0 => couch[e.doc] = <<>>)
    BY <1>2 DEF Inv, TypeOK, DataTypeOK
  <2>2. CASE e.rev = 0
    BY <1>1, <2>1, <2>2 DEF CouchRev, BodyAt
  <2>3. CASE e.rev # 0
    <3>1. e.rev = n
      BY <1>1, <2>3 DEF CouchRev
    <3>2. PICK b \in pushed[e.doc] : couch[e.doc][n].body = BodyOf[b]
      BY <1>2, <2>3, <3>1 DEF PullEntryOk, RecOk
    <3>3. QED
      BY <3>2 DEF Exchange!Held
  <2>4. QED
    BY <2>2, <2>3
<1>5. Exchange!Pull(e.doc)
  BY <1>1, <1>3, <1>4 DEF Exchange!Pull, Append1
<1>6. QED
  BY <1>2, <1>5 DEF Exchange!Next

\* A commit sets only files that render a body CouchDB has held.
LEMMA PushStep ==
  ASSUME Inv, NEW c \in Calls, UpdateRef(c)
  PROVE  Exchange!Next
<1>1. Publish("app", Overlay(c)) /\ dir[c] \in {"toRepo", "delete"}
  BY DEF UpdateRef, Inv, CallOk, StageOk
<1>2. ASSUME NEW i \in 1..Len(queue[c]), NEW d \in Docs, queue[c][i].doc = d
      PROVE  queue[c][i].blob = NoFile \/ \E body \in Exchange!Revisions(d) \cap Bodies : queue[c][i].blob = Canon[body]
  <2>1. /\ dir[c] = "toRepo" => PushEntryOk(couch[d], queue[c][i])
        /\ dir[c] = "delete" => queue[c][i].blob = NoFile
    BY <1>2 DEF Inv, CallOk, QueueOk
  <2>2. QED
    BY <1>1, <2>1 DEF PushEntryOk, LiveRev, Exchange!Revisions
<1>3. \A d \in Docs : \/ Overlay(c)[d] \in {tree[d], NoFile}
                    \/ \E body \in Exchange!Revisions(d) \cap Bodies : Overlay(c)[d] = Canon[body]
  BY <1>2, OverlayOk
<1>4. Exchange!Publish("app", Overlay(c))
  BY <1>1 DEF Publish, Exchange!Publish
<1>5. Exchange!Push
  BY <1>3, <1>4, OverlayOk DEF Exchange!Push
<1>6. QED
  BY <1>5 DEF Exchange!Next

LEMMA ForeignStep ==
  ASSUME Inv, NEW d \in Docs, ForeignPush(d)
  PROVE  Exchange!Next
<1>1. PICK blob \in Blobs \cup {NoFile} : Publish("other", [tree EXCEPT ![d] = blob])
  BY DEF ForeignPush
<1>2. [tree EXCEPT ![d] = blob] \in [Docs -> Blobs \cup {NoFile}]
  BY DEF Inv, TypeOK, DataTypeOK
<1>3. Exchange!ForeignCommit
  BY <1>1, <1>2 DEF Publish, Exchange!Publish, Exchange!ForeignCommit
<1>4. QED
  BY <1>3 DEF Exchange!Next

LEMMA ExchangeStep == Inv /\ [Next]_vars => [Exchange!Next]_(Exchange!vars)
<1> SUFFICES ASSUME Inv, [Next]_vars PROVE Exchange!Next \/ UNCHANGED data
  BY DEF Exchange!vars, data
<1>1. CASE UNCHANGED vars
  BY <1>1 DEF vars, data
<1>2. ASSUME NEW c \in Calls, Step(c)
      PROVE  Exchange!Next \/ UNCHANGED data
  <2>1. CASE ApplyPut(c)
    BY <2>1, PullStep
  <2>2. CASE UpdateRef(c)
    BY <2>2, PushStep
  <2>3. CASE ~ApplyPut(c) /\ ~UpdateRef(c)
    BY <1>2, <2>3 DEF Step, ReadCouch, ReadFile, ReadRecord, Read, Unreadable, Sort, FindConflict, GetConflict,
       PutConflict, EndScan, ReadHead, SaveSyncState, Heal, Finish, Forget, PutAck, Abort
  <2>4. QED
    BY <2>1, <2>2, <2>3
<1>3. ASSUME NEW c \in Calls, Start(c)
      PROVE  Exchange!Next \/ UNCHANGED data
  <2>1. ASSUME NEW d \in Docs, StartCouchDelete(c, d)
        PROVE  Exchange!Next
    BY <2>1, SaveStep DEF StartCouchDelete, StartWork
  <2>2. CASE ~\E d \in Docs : StartCouchDelete(c, d)
    BY <1>3, <2>2 DEF Start, StartSync, StartDelete, StartSweep, StartAck, StartWork, data
  <2>3. QED
    BY <2>1, <2>2
<1>4. ASSUME NEW d \in Docs, EditCouch(d)
      PROVE  Exchange!Next
  BY <1>4, SaveStep DEF EditCouch
<1>5. QED
  BY <1>1, <1>2, <1>3, <1>4, ForeignStep DEF Next, Others

LEMMA ExchangeInit == Init => Exchange!Init
<1> SUFFICES ASSUME Init PROVE Exchange!Init
  OBVIOUS
<1> DEFINE First == [body : Bodies, by : {"user"}]
<1>1. <<>> \in Seq(First) /\ \A rev \in First : <<rev>> \in Seq(First)
  OBVIOUS
<1>2. \A body \in Bodies : [body |-> body, by |-> "user"] \in First
  OBVIOUS
<1> HIDE DEF First
<1>3. \A d \in Docs : couch[d] \in Seq(First)
  <2>1. ASSUME NEW d \in Docs
        PROVE  couch[d] = <<>> \/ \E body \in Bodies : couch[d] = <<[body |-> body, by |-> "user"]>>
    BY DEF Init
  <2>2. QED
    BY <1>1, <1>2, <2>1
<1>4. couch \in [Docs -> Seq(First)]
  BY <1>3 DEF Init
<1>5. QED
  BY <1>4 DEF First, Init, Exchange!Init

\* The requests of syncToRepo, syncToCouch, deleteRepoDocs and the rest, however they
\* interleave, write to the database and to the branch only what SafeExchange allows.
THEOREM ExchangeImplemented == Spec => ImplementsExchange
BY ExchangeInit, ExchangeStep, InvHolds, PTL DEF Spec, ImplementsExchange, Exchange!Spec

\* A revision written by a pull buries nothing but a deletion or a body the branch holds.
THEOREM PullIsHarmless == Spec => PullNeverDestroys
<1> DEFINE Harmless == \A d \in Docs :
             /\ Len(couch'[d]) > Len(couch[d])
             /\ couch'[d][Len(couch[d]) + 1].by = "sync"
             => BodyAt(d, Len(couch[d])) \in Held(d) \cup {NoBody}
<1>1. Inv /\ [Exchange!Next]_(Exchange!vars) => Harmless
  <2> SUFFICES ASSUME Inv, [Exchange!Next]_(Exchange!vars), NEW d \in Docs,
                      Len(couch'[d]) > Len(couch[d]), couch'[d][Len(couch[d]) + 1].by = "sync"
               PROVE  BodyAt(d, Len(couch[d])) \in Held(d) \cup {NoBody}
    OBVIOUS
  <2>1. couch[d] \in Seq(Revision) /\ Len(couch[d]) \in Nat /\ couch \in [Docs -> Seq(Revision)]
    BY DEF Inv, TypeOK, DataTypeOK
  <2>2. couch' # couch
    BY <2>1
  <2>3. PICK o \in Docs : Exchange!Save(o) \/ Exchange!Pull(o)
    BY <2>2 DEF Exchange!Next, Exchange!ForeignCommit, Exchange!Push, Exchange!Publish, Exchange!vars
  <2>4. PICK rev : /\ couch' = [couch EXCEPT ![o] = Append(couch[o], rev)]
                   /\ rev.by = "sync" => Exchange!Pull(o)
    <3>1. CASE Exchange!Save(o)
      <4>1. PICK body \in Bodies \cup {NoBody} :
              couch' = [couch EXCEPT ![o] = Append(couch[o], [body |-> body, by |-> "user"])]
        BY <3>1 DEF Exchange!Save
      <4> DEFINE rev == [body |-> body, by |-> "user"]
      <4>2. couch' = [couch EXCEPT ![o] = Append(couch[o], rev)] /\ rev.by # "sync"
        BY <4>1
      <4> HIDE DEF rev
      <4>3. QED
        BY <4>2
    <3>2. CASE Exchange!Pull(o)
      <4>1. PICK body : couch' = [couch EXCEPT ![o] = Append(couch[o], [body |-> body, by |-> "sync"])]
        BY <3>2 DEF Exchange!Pull
      <4>2. QED
        BY <3>2, <4>1
    <3>3. QED
      BY <2>3, <3>1, <3>2
  <2>5. d = o
    BY <2>1, <2>4
  <2>6. couch'[d] = Append(couch[d], rev)
    BY <2>1, <2>4, <2>5
  <2>7. couch'[d][Len(couch[d]) + 1] = rev
    BY <2>1, <2>6
  <2>8. Exchange!Pull(d)
    BY <2>4, <2>5, <2>7
  <2>9. couch[d] = <<>> \/ couch[d][Len(couch[d])].body \in Held(d) \cup {NoBody}
    BY <2>8 DEF Exchange!Pull, Exchange!Held, Held
  <2>10. QED
    BY <2>9 DEF BodyAt
<1>2. Inv /\ [Next]_vars => [Harmless]_vars
  BY <1>1, ExchangeStep
<1>3. Spec => [][Harmless]_vars
  BY <1>2, InvHolds, PTL DEF Spec
<1>4. QED
  BY <1>3 DEF PullNeverDestroys
----------------------------------------------------------------------------
(* What is on its way to a conflict record, however many calls run at once. *)

\* What is on its way to a conflict record, or back to one, is a version of either side; a pull
\* that has got as far as writing met no conflict.
TwoSided(c) ==
  /\ pc[c] \in {"getConflict", "putConflict"} => reads[c].couch # 0 /\ shaByPath[c][Head(todo[c])] # NoFile
  /\ pc[c] = "ack" => queue[c][1].rev # 0 /\ queue[c][1].sha # NoFile
  /\ pc[c] = "apply" \/ (pc[c] = "save" /\ dir[c] = "toCouch") => conflicted[c] = {}

PairInv == Inv /\ NoPhantomConflict /\ \A c \in Calls : TwoSided(c)

SameCall(c) ==
  SameLocal(c) /\ shaByPath'[c] = shaByPath[c] /\ conflicted'[c] = conflicted[c] /\ keep'[c] = keep[c]

LEMMA StartOthersKeep ==
  ASSUME TypeOK, NEW c \in Calls, Start(c)
  PROVE  \A o \in Calls \ {c} : SameCall(o)
<1>1. ASSUME NEW what, NEW where, NEW entries, StartWork(c, what, where, entries)
      PROVE  \A o \in Calls \ {c} : SameCall(o)
  BY <1>1 DEF StartWork, GoTo, TypeOK, CallTypeOK, SameCall, SameLocal
<1>2. CASE StartSync(c)
  BY <1>2 DEF StartSync, GoTo, TypeOK, CallTypeOK, SameCall, SameLocal, plan
<1>3. CASE StartDelete(c)
  BY <1>1, <1>3 DEF StartDelete
<1>4. CASE StartSweep(c)
  BY <1>1, <1>4 DEF StartSweep
<1>5. ASSUME NEW d \in Docs, StartCouchDelete(c, d) PROVE \A o \in Calls \ {c} : SameCall(o)
  BY <1>1, <1>5 DEF StartCouchDelete
<1>6. ASSUME NEW d \in Docs, StartAck(c, d) PROVE \A o \in Calls \ {c} : SameCall(o)
  BY <1>1, <1>6 DEF StartAck
<1> QED
  BY <1>2, <1>3, <1>4, <1>5, <1>6 DEF Start

LEMMA ReturnKeeps ==
  ASSUME TypeOK, NEW c \in Calls, Return(c)
  PROVE  pc'[c] = "idle" /\ \A o \in Calls \ {c} : SameCall(o)
BY DEF Return, TypeOK, CallTypeOK, SameCall, SameLocal

LEMMA StepOthersKeep ==
  ASSUME TypeOK, NEW c \in Calls, Step(c)
  PROVE  \A o \in Calls \ {c} : SameCall(o)
<1>1. CASE ReadCouch(c) \/ ReadFile(c) \/ ReadRecord(c)
  <2>1. ASSUME NEW side, NEW answer, Read(c, side, answer) PROVE \A o \in Calls \ {c} : SameCall(o)
    BY <2>1 DEF Read, TypeOK, CallTypeOK, SameCall, SameLocal, plan
  <2> QED
    BY <1>1, <2>1 DEF ReadCouch, ReadFile, ReadRecord
<1>2. CASE Return(c)
  BY <1>2, ReturnKeeps
<1>3. CASE Sort(c)
  BY <1>3 DEF Sort, NextDoc, TypeOK, CallTypeOK, SameCall, SameLocal
<1>4. CASE FindConflict(c)
  BY <1>4 DEF FindConflict, GoTo, TypeOK, CallTypeOK, SameCall, SameLocal
<1>5. CASE GetConflict(c)
  BY <1>5 DEF GetConflict, GoTo, TypeOK, CallTypeOK, SameCall, SameLocal, plan
<1>6. CASE PutConflict(c)
  BY <1>6 DEF PutConflict, NextDoc, GoTo, TypeOK, CallTypeOK, SameCall, SameLocal, plan
<1>7. CASE EndScan(c) /\ ~Return(c)
  BY <1>7 DEF EndScan, GoTo, TypeOK, CallTypeOK, SameCall, SameLocal, plan
<1>8. CASE ReadHead(c)
  BY <1>8 DEF ReadHead, GoTo, TypeOK, CallTypeOK, SameCall, SameLocal, plan
<1>9. CASE UpdateRef(c)
  BY <1>9 DEF UpdateRef, GoTo, TypeOK, CallTypeOK, SameCall, SameLocal, plan
<1>10. CASE SaveSyncState(c)
  BY <1>10 DEF SaveSyncState, GoTo, TypeOK, CallTypeOK, SameCall, SameLocal
<1>11. CASE ApplyPut(c)
  BY <1>11 DEF ApplyPut, GoTo, TypeOK, CallTypeOK, SameCall, SameLocal
<1>12. ASSUME NEW e \in heal[c], Heal(c, e) PROVE \A o \in Calls \ {c} : SameCall(o)
  BY <1>12 DEF Heal, TypeOK, CallTypeOK, SameCall, SameLocal
<1> QED
  BY <1>1, <1>2, <1>3, <1>4, <1>5, <1>6, <1>7, <1>8, <1>9, <1>10, <1>11, <1>12
     DEF Step, Unreadable, Finish, Abort, Forget, PutAck

\* What a conflict is: both sides are there, and they are not the same.
LEMMA ConflictVerdict ==
  ASSUME NEW couchRev, NEW gitSha, NEW synced, NEW equal, Verdict(couchRev, gitSha, synced, equal) = "conflict"
  PROVE  couchRev # 0 /\ gitSha # NoFile /\ ~equal
BY DEF Verdict, resolveUnknown, classify

LEMMA PairStep ==
  ASSUME PairInv, NEW c \in Calls, Step(c)
  PROVE  NoPhantomConflict' /\ TwoSided(c)'
<1>0. Inv /\ TypeOK /\ NoPhantomConflict /\ TwoSided(c) /\ StageOk(c)
  BY DEF PairInv, Inv, CallOk
<1>1. CASE Return(c) /\ conflictDoc' = conflictDoc
  <2>1. pc'[c] = "idle"
    BY <1>0, <1>1, ReturnKeeps
  <2> QED
    BY <1>0, <1>1, <2>1 DEF TwoSided, NoPhantomConflict
<1>2. CASE ReadCouch(c) \/ ReadFile(c) \/ ReadRecord(c)
  <2>1. pc'[c] = "scan" /\ conflictDoc' = conflictDoc
    BY <1>2 DEF ReadCouch, ReadFile, ReadRecord, Read, records
  <2> QED
    BY <1>0, <2>1 DEF TwoSided, NoPhantomConflict
<1>3. CASE Sort(c)
  <2>1. pc'[c] = "scan" /\ conflictDoc' = conflictDoc
    BY <1>3 DEF Sort, AllRead, records
  <2> QED
    BY <1>0, <2>1 DEF TwoSided, NoPhantomConflict
<1>4. CASE FindConflict(c)
  <2>1. AllRead(c) /\ Status(c) = "conflict" /\ todo' = todo /\ shaByPath' = shaByPath /\ conflictDoc' = conflictDoc
    BY <1>4 DEF FindConflict, records
  <2>2. pc'[c] = "getConflict" /\ reads'[c].couch = reads[c].couch
    <3>1. pc' = [pc EXCEPT ![c] = "getConflict"]
          /\ reads' = [reads EXCEPT ![c] = [NoReads EXCEPT !.couch = reads[c].couch]]
      BY <1>4 DEF FindConflict, GoTo
    <3> QED
      BY <1>0, <3>1 DEF TypeOK, CallTypeOK, NoReads
  <2>3. reads[c].couch # 0 /\ shaByPath[c][Head(todo[c])] # NoFile
    BY <2>1, ConflictVerdict DEF Status
  <2> QED
    BY <1>0, <2>1, <2>2, <2>3 DEF TwoSided, NoPhantomConflict
<1>5. CASE GetConflict(c)
  <2>1. /\ pc[c] = "getConflict" /\ pc' = [pc EXCEPT ![c] = "putConflict"]
        /\ UNCHANGED <<reads, shaByPath, todo, conflictDoc>>
    BY <1>5 DEF GetConflict, GoTo, records
  <2>2. pc'[c] = "putConflict"
    BY <1>0, <2>1 DEF TypeOK, CallTypeOK
  <2> QED
    BY <1>0, <2>1, <2>2 DEF TwoSided, NoPhantomConflict
<1>6. CASE PutConflict(c)
  <2> DEFINE d == Head(todo[c])
             rec == [rev |-> reads[c].couch, sha |-> shaByPath[c][d], resolved |-> keep[c]]
  <2>1. /\ pc[c] = "putConflict" /\ pc' = [pc EXCEPT ![c] = "scan"]
        /\ conflictDoc' = [conflictDoc EXCEPT ![d] = rec] \/ conflictDoc' = conflictDoc
    BY <1>6 DEF PutConflict, GoTo
  <2>2. pc'[c] = "scan"
    BY <1>0, <2>1 DEF TypeOK, CallTypeOK
  <2>3. rec.rev # 0 /\ rec.sha # NoFile
    BY <1>0, <2>1 DEF TwoSided
  <2> HIDE DEF rec
  <2>4. NoPhantomConflict'
    BY <1>0, <2>1, <2>3 DEF NoPhantomConflict, TypeOK, RecordTypeOK
  <2> QED
    BY <2>2, <2>4 DEF TwoSided
<1>7. CASE EndScan(c) /\ ~Return(c)
  <2>1. /\ pc[c] = "scan" /\ ~(dir[c] = "toCouch" /\ conflicted[c] # {})
        /\ pc' = [pc EXCEPT ![c] = IF queue[c] = <<>> THEN "heal" ELSE IF dir[c] = "toRepo" THEN "commit" ELSE "apply"]
        /\ UNCHANGED <<dir, conflicted, conflictDoc>>
    BY <1>7 DEF EndScan, GoTo, plan, records
  <2>2. /\ pc'[c] \in {"heal", "commit", "apply"}
        /\ pc'[c] = "apply" => conflicted[c] = {}
    BY <1>0, <2>1 DEF TypeOK, CallTypeOK, StageOk
  <2> QED
    BY <1>0, <2>1, <2>2 DEF TwoSided, NoPhantomConflict
<1>8. CASE ReadHead(c)
  <2>1. pc' = [pc EXCEPT ![c] = "updateRef"] /\ conflictDoc' = conflictDoc
    BY <1>8 DEF ReadHead, GoTo, records
  <2>2. pc'[c] = "updateRef"
    BY <1>0, <2>1 DEF TypeOK, CallTypeOK
  <2> QED
    BY <1>0, <2>1, <2>2 DEF TwoSided, NoPhantomConflict
<1>9. CASE UpdateRef(c)
  <2>1. /\ pc[c] = "updateRef" /\ pc' = [pc EXCEPT ![c] = IF dir[c] = "delete" THEN "forget" ELSE "save"]
        /\ dir' = dir /\ conflictDoc' = conflictDoc
    BY <1>9 DEF UpdateRef, GoTo, records
  <2>2. pc'[c] \in {"forget", "save"} /\ dir'[c] # "toCouch"
    BY <1>0, <2>1 DEF TypeOK, CallTypeOK, StageOk
  <2> QED
    BY <1>0, <2>1, <2>2 DEF TwoSided, NoPhantomConflict
<1>10. CASE SaveSyncState(c)
  <2>1. /\ pc[c] = "save" /\ UNCHANGED <<dir, conflicted, conflictDoc>>
        /\ pc' = [pc EXCEPT ![c] = IF Tail(queue[c]) = <<>> THEN "heal"
                                   ELSE IF dir[c] = "toRepo" THEN "save" ELSE "apply"]
    BY <1>10 DEF SaveSyncState, GoTo
  <2>2. /\ pc'[c] \in {"heal", "save", "apply"}
        /\ pc'[c] = "save" => dir[c] = "toRepo"
        /\ pc'[c] = "apply" => dir[c] = "toCouch"
    BY <1>0, <2>1 DEF TypeOK, CallTypeOK, StageOk
  <2> QED
    BY <1>0, <2>1, <2>2 DEF TwoSided, NoPhantomConflict
<1>11. CASE ApplyPut(c)
  <2>1. /\ pc[c] = "apply" /\ pc' = [pc EXCEPT ![c] = "save"]
        /\ UNCHANGED <<conflicted, conflictDoc>>
    BY <1>11 DEF ApplyPut, GoTo, records
  <2>2. pc'[c] = "save"
    BY <1>0, <2>1 DEF TypeOK, CallTypeOK
  <2> QED
    BY <1>0, <2>1, <2>2 DEF TwoSided, NoPhantomConflict
<1>12. ASSUME NEW e \in heal[c], Heal(c, e) PROVE NoPhantomConflict' /\ TwoSided(c)'
  <2>1. pc[c] = "heal" /\ pc' = pc /\ conflictDoc' = conflictDoc
    BY <1>12 DEF Heal
  <2> QED
    BY <1>0, <2>1 DEF TwoSided, NoPhantomConflict
<1>13. CASE Forget(c)
  <2>1. /\ Return(c)
        /\ \E settled : conflictDoc' = [d \in Docs |-> IF d \in settled THEN NoConflict ELSE conflictDoc[d]]
    BY <1>13 DEF Forget
  <2>2. pc'[c] = "idle"
    BY <1>0, <2>1, ReturnKeeps
  <2> QED
    BY <1>0, <2>1, <2>2 DEF TwoSided, NoPhantomConflict
<1>14. CASE PutAck(c)
  <2> DEFINE e == Head(queue[c])
             rec == [rev |-> e.rev, sha |-> e.sha, resolved |-> TRUE]
  <2>1. Return(c) /\ pc[c] = "ack" /\ conflictDoc' = [conflictDoc EXCEPT ![e.doc] = rec]
    BY <1>14 DEF PutAck
  <2>2. pc'[c] = "idle"
    BY <1>0, <2>1, ReturnKeeps
  <2>3. e = queue[c][1]
    BY <1>0, <2>1 DEF StageOk, TypeOK, CallTypeOK
  <2>4. rec.rev # 0 /\ rec.sha # NoFile
    BY <1>0, <2>1, <2>3 DEF TwoSided
  <2> HIDE DEF rec, e
  <2>5. NoPhantomConflict'
    BY <1>0, <2>1, <2>4 DEF NoPhantomConflict, TypeOK, RecordTypeOK
  <2> QED
    BY <2>2, <2>5 DEF TwoSided
<1> QED
  BY <1>1, <1>2, <1>3, <1>4, <1>5, <1>6, <1>7, <1>8, <1>9, <1>10, <1>11, <1>12, <1>13, <1>14
     DEF Step, Unreadable, Finish, Abort, EndScan, records

LEMMA PairStart ==
  ASSUME PairInv, NEW c \in Calls, Start(c)
  PROVE  NoPhantomConflict' /\ TwoSided(c)'
<1>0. TypeOK /\ NoPhantomConflict
  BY DEF PairInv, Inv
<1>1. ASSUME NEW what, NEW where, NEW entries, StartWork(c, what, where, entries)
      PROVE  pc'[c] = where /\ queue'[c] = entries /\ conflictDoc' = conflictDoc
  BY <1>0, <1>1 DEF StartWork, GoTo, TypeOK, CallTypeOK, records
<1>2. CASE StartSync(c)
  <2>1. pc' = [pc EXCEPT ![c] = "scan"] /\ conflictDoc' = conflictDoc
    BY <1>2 DEF StartSync, GoTo, records
  <2>2. pc'[c] = "scan"
    BY <1>0, <2>1 DEF TypeOK, CallTypeOK
  <2> QED
    BY <1>0, <2>1, <2>2 DEF TwoSided, NoPhantomConflict
<1>3. CASE StartDelete(c) \/ StartSweep(c) \/ \E d \in Docs : StartCouchDelete(c, d)
  <2>1. pc'[c] \in {"commit", "forget"} /\ conflictDoc' = conflictDoc
    BY <1>1, <1>3 DEF StartDelete, StartSweep, StartCouchDelete
  <2> QED
    BY <1>0, <2>1 DEF TwoSided, NoPhantomConflict
<1>4. ASSUME NEW d \in Docs, StartAck(c, d) PROVE NoPhantomConflict' /\ TwoSided(c)'
  <2> DEFINE e == EntryOf(d, conflictDoc[d].rev, conflictDoc[d].sha, NoFile)
  <2>1. pc'[c] = "ack" /\ queue'[c] = <<e>> /\ conflictDoc' = conflictDoc
    BY <1>1, <1>4 DEF StartAck
  <2>2. e.rev # 0 /\ e.sha # NoFile
    BY <1>0, <1>4 DEF StartAck, EntryOf, NoPhantomConflict
  <2> HIDE DEF e
  <2>3. queue'[c][1] = e
    BY <2>1
  <2> QED
    BY <1>0, <2>1, <2>2, <2>3 DEF TwoSided, NoPhantomConflict
<1> QED
  BY <1>2, <1>3, <1>4 DEF Start

LEMMA PairNext == ASSUME PairInv, [Next]_vars PROVE PairInv'
<1>0. Inv /\ Inv' /\ TypeOK
  BY NextInv DEF PairInv, Inv
<1>k. ASSUME NEW o \in Calls, SameCall(o) PROVE TwoSided(o)'
  BY <1>k DEF PairInv, TwoSided, SameCall, SameLocal
<1>1. ASSUME NEW c \in Calls, Start(c) \/ Step(c) PROVE PairInv'
  <2>1. NoPhantomConflict' /\ TwoSided(c)' /\ \A o \in Calls \ {c} : SameCall(o)
    BY <1>0, <1>1, PairStart, PairStep, StartOthersKeep, StepOthersKeep
  <2> QED
    BY <1>0, <1>k, <2>1 DEF PairInv
<1>2. CASE Others \/ UNCHANGED vars
  <2>1. conflictDoc' = conflictDoc /\ \A o \in Calls : SameCall(o)
    BY <1>2 DEF Others, EditCouch, ForeignPush, records, local, vars, SameCall, SameLocal
  <2> QED
    BY <1>0, <1>k, <2>1 DEF PairInv, NoPhantomConflict
<1> QED
  BY <1>1, <1>2 DEF Next

LEMMA PairHolds == Spec => []PairInv
<1>1. Init => PairInv
  <2> SUFFICES ASSUME Init PROVE PairInv
    OBVIOUS
  <2>1. Inv
    BY InitInv
  <2>2. (\A d \in Docs : conflictDoc[d] = NoConflict) /\ \A c \in Calls : pc[c] = "idle"
    BY DEF Init
  <2> QED
    BY <2>1, <2>2 DEF PairInv, NoPhantomConflict, TwoSided
<1> QED
  BY <1>1, PairNext, PTL DEF Spec

\* However many syncs, acknowledgements and sweeps run at once, readAndClassify never has a document
\* recorded as a conflict that one of the two sides does not have.
THEOREM ConflictsHaveTwoSides == Spec => []NoPhantomConflict
<1>1. PairInv => NoPhantomConflict
  BY DEF PairInv
<1> QED
  BY <1>1, PairHolds, PTL

\* A pull that met a conflict writes nothing, whatever other calls do meanwhile.
THEOREM RefusedPullsWriteNothing == Spec => PullIsAllOrNothing
<1>1. PairInv => [\A c \in Calls : pc[c] = "apply" /\ pc'[c] = "save" => conflicted[c] = {}]_vars
  BY DEF PairInv, TwoSided
<1> QED
  BY <1>1, PairHolds, PTL DEF PullIsAllOrNothing

----------------------------------------------------------------------------
(* What one call at a time leaves behind, when others push between calls but not during one (this  *)
(* is Exclusive; edits in CouchDB come at any time).  With two calls, or a call and a push, at once *)
(* none of it holds: a record, a conflict or a commit is then about a branch that has changed.      *)

\* What a revision and a file are to each other, for good: a revision keeps its body, and a sha
\* names a content.
Matches(revs, rev, sha) == rev \in 1..Len(revs) /\ revs[rev].body = GitBody(sha)
Differs(revs, rev, sha) == rev \in 1..Len(revs) /\ ~contentEqual(revs[rev].body, GitBody(sha))

RecordTrue(revs, rec) == rec = NoRecord \/ Matches(revs, rec.rev, rec.sha)
RecordsTrue == \A d \in Docs : RecordTrue(couch[d], syncDoc[d])
ConflictsTrue ==
  \A d \in Docs : conflictDoc[d] # NoConflict => Differs(couch[d], conflictDoc[d].rev, conflictDoc[d].sha)

\* The branch is still the one that was listed, so the file that was read is the one whose sha the
\* listing names.
ScanQuiet(c) ==
  pc[c] \in {"scan", "getConflict", "putConflict"} =>
    /\ shaByPath[c] = tree
    /\ todo[c] # <<>> =>
         /\ reads[c].file # Unread => reads[c].file = tree[Head(todo[c])]
         /\ reads[c].rec # Unread => RecordTrue(couch[Head(todo[c])], reads[c].rec)

\* A conflict is written as it was found, and acknowledged if it was.
ConflictQuiet(c) ==
  pc[c] \in {"getConflict", "putConflict"} =>
    LET d == Head(todo[c]) IN
    /\ Differs(couch[d], reads[c].couch, tree[d])
    /\ pc[c] = "putConflict" /\ SamePair(d, reads[c].couch, tree[d]) /\ conflictDoc[d].resolved => keep[c]

\* What is queued is about the branch as it is: a commit replaces only contents CouchDB has held.
Replaceable(d) == GitBody(tree[d]) \in Revisions(d) \cup {NoBody}
QueueQuiet(c) == \A i \in 1..Len(queue[c]) :
  LET e == queue[c][i] IN
  /\ dir[c] \in {"toRepo", "toCouch"} => e.sha = e.blob
  /\ dir[c] = "toCouch" \/ pc[c] = "save" => e.sha = tree[e.doc]
  /\ dir[c] = "toRepo" /\ pc[c] # "save" => Replaceable(e.doc)
  /\ pc[c] = "save" /\ i = 1 => Matches(couch[e.doc], e.rev, e.sha)
  /\ pc[c] = "ack" => Differs(couch[e.doc], e.rev, e.sha)

HealQuiet(c) == \A e \in heal[c] :
  /\ e.sha = tree[e.doc] /\ Matches(couch[e.doc], e.rev, e.sha)
  /\ \A i \in 1..Len(queue[c]) : queue[c][i].doc # e.doc
  /\ \A i \in 1..Len(todo[c]) : todo[c][i] # e.doc

Quiet(c) == ScanQuiet(c) /\ ConflictQuiet(c) /\ QueueQuiet(c) /\ HealQuiet(c)
Alone == \A c, other \in Calls : ~Resting(c) /\ ~Resting(other) => c = other
QuietInv == PairInv /\ RecordsTrue /\ ConflictsTrue /\ Alone /\ \A c \in Calls : Quiet(c)

LEMMA MatchesStable ==
  ASSUME NEW revs \in Revs, NEW more \in Revs, Extends(revs, more), NEW rev, NEW sha
  PROVE  /\ Matches(revs, rev, sha) => Matches(more, rev, sha)
         /\ Differs(revs, rev, sha) => Differs(more, rev, sha)
         /\ RecordTrue(revs, [rev |-> rev, sha |-> sha]) => RecordTrue(more, [rev |-> rev, sha |-> sha])
BY DEF Matches, Differs, RecordTrue, Extends, Revs

LEMMA RecordTrueStable ==
  ASSUME NEW revs \in Revs, NEW more \in Revs, Extends(revs, more), NEW rec, RecordTrue(revs, rec)
  PROVE  RecordTrue(more, rec)
BY DEF Matches, RecordTrue, Extends, Revs

LEMMA RevsGrow ==
  ASSUME TypeOK, TypeOK', Grows
  PROVE  /\ \A d \in Docs : couch[d] \in Revs /\ couch'[d] \in Revs /\ Extends(couch[d], couch'[d])
         /\ \A d \in Docs : Revisions(d) \subseteq Revisions(d)'
<1>1. \A d \in Docs : couch[d] \in Revs /\ couch'[d] \in Revs /\ Extends(couch[d], couch'[d])
  BY DEF TypeOK, DataTypeOK, Revs, Grows
<1>2. ASSUME NEW d \in Docs, NEW body \in Revisions(d) PROVE body \in Revisions(d)'
  <2>1. PICK i \in 1..Len(couch[d]) : couch[d][i].body = body
    BY DEF Revisions
  <2>2. i \in 1..Len(couch'[d]) /\ couch'[d][i] = couch[d][i]
    BY <1>1 DEF Extends, Revs
  <2> QED
    BY <2>1, <2>2 DEF Revisions
<1> QED
  BY <1>1, <1>2

\* A call that has returned or thrown relies on nothing.
LEMMA RestingQuiet ==
  ASSUME NEW c \in Calls, pc'[c] = "idle", StageOk(c)'
  PROVE  Quiet(c)'
<1>1. queue'[c] = <<>> /\ heal'[c] = {}
  BY DEF StageOk
<1> QED
  BY <1>1 DEF Quiet, ScanQuiet, ConflictQuiet, QueueQuiet, HealQuiet

LEMMA RecordsStayTrue ==
  ASSUME TypeOK, TypeOK', Grows, RecordsTrue, ConflictsTrue
  PROVE  /\ syncDoc' = syncDoc => RecordsTrue'
         /\ conflictDoc' = conflictDoc => ConflictsTrue'
<1>1. \A d \in Docs : couch[d] \in Revs /\ couch'[d] \in Revs /\ Extends(couch[d], couch'[d])
  BY RevsGrow
<1>2. ASSUME syncDoc' = syncDoc PROVE RecordsTrue'
  BY <1>1, <1>2, RecordTrueStable DEF RecordsTrue
<1>3. ASSUME conflictDoc' = conflictDoc PROVE ConflictsTrue'
  BY <1>1, <1>3, MatchesStable DEF ConflictsTrue
<1> QED
  BY <1>2, <1>3

\* Somebody else's edit disturbs nothing that a call has read.
LEMMA QuietStable ==
  ASSUME TypeOK, TypeOK', Grows, NEW c \in Calls, CallOk(c), Quiet(c), SameCall(c),
         tree' = tree, conflictDoc' = conflictDoc
  PROVE  Quiet(c)'
<1>1. /\ \A d \in Docs : couch[d] \in Revs /\ couch'[d] \in Revs /\ Extends(couch[d], couch'[d])
      /\ \A d \in Docs : Revisions(d) \subseteq Revisions(d)'
  BY RevsGrow
<1>2. /\ pc'[c] = pc[c] /\ dir'[c] = dir[c] /\ todo'[c] = todo[c] /\ reads'[c] = reads[c]
      /\ queue'[c] = queue[c] /\ heal'[c] = heal[c] /\ shaByPath'[c] = shaByPath[c] /\ keep'[c] = keep[c]
  BY DEF SameCall, SameLocal
<1>3. todo[c] # <<>> => Head(todo[c]) \in Docs
  BY HeadTail DEF TypeOK, CallTypeOK
<1>4. ScanQuiet(c)'
  <2>1. ASSUME todo[c] # <<>>, RecordTrue(couch[Head(todo[c])], reads[c].rec)
        PROVE  RecordTrue(couch'[Head(todo[c])], reads[c].rec)
    BY <1>1, <1>3, <2>1, RecordTrueStable
  <2> QED
    BY <1>2, <2>1 DEF Quiet, ScanQuiet
<1>5. ConflictQuiet(c)'
  <2>1. SUFFICES ASSUME pc[c] \in {"getConflict", "putConflict"} PROVE ConflictQuiet(c)'
    BY <1>2 DEF ConflictQuiet
  <2>2. todo[c] # <<>>
    BY <2>1 DEF CallOk, StageOk
  <2>3. Differs(couch'[Head(todo[c])], reads[c].couch, tree[Head(todo[c])])
    BY <1>1, <1>3, <2>1, <2>2, MatchesStable DEF Quiet, ConflictQuiet
  <2> QED
    BY <1>2, <2>1, <2>3 DEF Quiet, ConflictQuiet, SamePair
<1>6. QueueQuiet(c)'
  <2>1. ASSUME NEW d \in Docs, NEW rev, NEW sha
        PROVE  /\ Replaceable(d) => Replaceable(d)'
               /\ Matches(couch[d], rev, sha) => Matches(couch'[d], rev, sha)
               /\ Differs(couch[d], rev, sha) => Differs(couch'[d], rev, sha)
    <3>1. Replaceable(d) => Replaceable(d)'
      BY <1>1 DEF Replaceable
    <3> QED
      BY <1>1, <3>1, MatchesStable
  <2>3. \A i \in 1..Len(queue[c]) : queue[c][i].doc \in Docs
    <3>1. \A i \in 1..Len(queue[c]) : queue[c][i] \in Entry
      BY DEF TypeOK, CallTypeOK
    <3> QED
      BY <3>1 DEF Entry
  <2>2. QueueQuiet(c)
    BY DEF Quiet
  <2> QED
    BY <1>2, <2>1, <2>2, <2>3 DEF QueueQuiet
<1>7. HealQuiet(c)'
  <2>1. \A e \in heal[c] : e.doc \in Docs
    BY DEF TypeOK, CallTypeOK, Entry
  <2>2. \A e \in heal[c] : Matches(couch'[e.doc], e.rev, e.sha)
    BY <1>1, <2>1, MatchesStable DEF Quiet, HealQuiet
  <2> QED
    BY <1>2, <2>2 DEF Quiet, HealQuiet
<1> QED
  BY <1>4, <1>5, <1>6, <1>7 DEF Quiet

\* What a commit may replace: a push that classify allows is of a file whose content is that of the
\* recorded revision, or of no file at all.
LEMMA PushVerdict ==
  ASSUME NEW couchRev, NEW gitSha, NEW synced, NEW equal, ~equal, couchRev # 0,
         canApply(Verdict(couchRev, gitSha, synced, equal), "toRepo")
  PROVE  gitSha = NoFile \/ (synced # NoRecord /\ gitSha = synced.sha)
<1>1. Verdict(couchRev, gitSha, synced, equal) = resolveUnknown(classify(couchRev, gitSha, synced, equal), equal)
  BY DEF Verdict
<1>2. CASE gitSha # NoFile
  <2>1. classify(couchRev, gitSha, synced, equal) =
          IF synced = NoRecord THEN "unknown"
          ELSE IF couchRev # synced.rev /\ gitSha # synced.sha THEN "conflict"
          ELSE IF couchRev # synced.rev THEN "newer_in_couch"
          ELSE IF gitSha # synced.sha THEN "newer_in_git"
          ELSE "synced"
    BY <1>2 DEF classify
  <2> QED
    BY <1>1, <2>1 DEF canApply, resolveUnknown
<1> QED
  BY <1>2

LEMMA ReadQuiet ==
  ASSUME QuietInv, NEW c \in Calls, NEW side \in {"couch", "file", "rec"}, NEW answer,
         Read(c, side, answer),
         side = "file" => answer = tree[Head(todo[c])],
         side = "rec" => answer = syncDoc[Head(todo[c])]
  PROVE  Quiet(c)'
<1>1. /\ UNCHANGED <<couch, tree, conflictDoc, pc, dir, todo, shaByPath, queue, heal, keep>>
      /\ reads' = [reads EXCEPT ![c] = [reads[c] EXCEPT ![side] = answer]]
      /\ pc[c] = "scan" /\ todo[c] # <<>>
  BY DEF Read, data, records, plan
<1>2. Quiet(c) /\ TypeOK /\ RecordsTrue
  BY DEF QuietInv, PairInv, Inv
<1>3. reads[c] \in ReadsType
  BY <1>2 DEF TypeOK, CallTypeOK
<1>4. /\ reads'[c].file = (IF side = "file" THEN answer ELSE reads[c].file)
      /\ reads'[c].rec = (IF side = "rec" THEN answer ELSE reads[c].rec)
  <2>1. reads'[c] = [reads[c] EXCEPT ![side] = answer]
    BY <1>1, <1>2 DEF TypeOK, CallTypeOK
  <2> QED
    BY <1>3, <2>1 DEF ReadsType
<1>5. Head(todo[c]) \in Docs
  BY <1>1, <1>2, HeadTail DEF TypeOK, CallTypeOK
<1>6. side = "rec" => RecordTrue(couch[Head(todo[c])], answer)
  BY <1>2, <1>5 DEF RecordsTrue
<1>7. ScanQuiet(c)'
  BY <1>1, <1>2, <1>4, <1>6 DEF Quiet, ScanQuiet
<1>8. ConflictQuiet(c)' /\ QueueQuiet(c)' /\ HealQuiet(c)'
  BY <1>1, <1>2 DEF Quiet, ConflictQuiet, QueueQuiet, HealQuiet, Replaceable, Revisions
<1> QED
  BY <1>7, <1>8 DEF Quiet

\* What the three answers of a quiet scan say: the file read is the one listed, and so on.
LEMMA AllReadQuiet ==
  ASSUME QuietInv, NEW c \in Calls, AllRead(c), NEW d, d = Head(todo[c])
  PROVE  /\ pc[c] = "scan" /\ todo[c] # <<>> /\ d \in Docs /\ shaByPath[c] = tree
         /\ reads[c].file = tree[d] /\ reads[c].rec \in Record /\ RecordTrue(couch[d], reads[c].rec)
         /\ reads[c].couch \in Nat
         /\ reads[c].couch # 0 => LiveRev(couch[d], reads[c].couch) /\ BodyAt(d, reads[c].couch) = couch[d][reads[c].couch].body
<1>1. /\ todo[c] # <<>> /\ d \in Docs /\ reads[c].couch \in Nat /\ reads[c].file \in Blobs \cup {NoFile}
      /\ reads[c].rec \in Record
  BY AllReadOk DEF QuietInv, PairInv
<1>2. reads[c].couch # Unread /\ reads[c].file # Unread /\ reads[c].rec # Unread /\ pc[c] = "scan"
  BY DEF AllRead, NoReads
<1>3. ScanQuiet(c) /\ ReadsOk(c)
  BY DEF QuietInv, PairInv, Inv, CallOk, Quiet
<1> QED
  BY <1>1, <1>2, <1>3 DEF ScanQuiet, ReadsOk, BodyAt

LEMMA SortQuiet ==
  ASSUME QuietInv, NEW c \in Calls, Sort(c)
  PROVE  Quiet(c)'
<1> DEFINE d == Head(todo[c])
           r == reads[c]
           q == queue[c]
           rest == Tail(todo[c])
<1>0. Inv /\ TypeOK /\ Quiet(c) /\ queue[c] \in Seq(Entry) /\ heal[c] \in SUBSET Entry
  BY DEF QuietInv, PairInv, Inv, TypeOK, CallTypeOK
<1>1. /\ AllRead(c) /\ UNCHANGED <<couch, tree, conflictDoc, pc, dir, shaByPath, keep>>
      /\ todo' = [todo EXCEPT ![c] = rest] /\ reads' = [reads EXCEPT ![c] = NoReads]
  BY DEF Sort, NextDoc, data, records
<1>2. /\ pc[c] = "scan" /\ todo[c] # <<>> /\ d \in Docs /\ shaByPath[c] = tree
      /\ r.file = tree[d] /\ r.rec \in Record /\ RecordTrue(couch[d], r.rec) /\ r.couch \in Nat
      /\ r.couch # 0 => LiveRev(couch[d], r.couch) /\ BodyAt(d, r.couch) = couch[d][r.couch].body
  BY <1>1, AllReadQuiet
<1>3. pc'[c] = "scan" /\ dir'[c] = dir[c] /\ todo'[c] = rest /\ reads'[c] = NoReads
  BY <1>0, <1>1, <1>2 DEF TypeOK, CallTypeOK
<1>4. /\ \A j \in 1..Len(rest) : d # rest[j]
      /\ \A i \in 1..Len(q) : q[i].doc # d
      /\ d = todo[c][1]
      /\ \A j \in 1..Len(rest) : j + 1 \in 1..Len(todo[c]) /\ rest[j] = todo[c][j + 1]
      /\ 1 \in 1..Len(todo[c])
  <2>1. todo[c] \in Seq(Docs)
    BY <1>0 DEF TypeOK, CallTypeOK
  <2> QED
    BY <1>0, <1>2, <2>1, PopOnce, HeadTail
<1> HIDE DEF rest
<1>5. ScanQuiet(c)' /\ ConflictQuiet(c)'
  BY <1>1, <1>2, <1>3 DEF ScanQuiet, ConflictQuiet, NoReads
<1>6. \/ queue'[c] = q /\ heal'[c] = heal[c]
      \/ queue'[c] = q /\ heal'[c] = heal[c] \cup {HealEntry(c)} /\ Equal(c)
      \/ /\ heal'[c] = heal[c] /\ ~Equal(c) /\ canApply(Status(c), dir[c]) /\ Present(c)
         /\ queue'[c] = Append(q, IF dir[c] = "toRepo" THEN PushEntry(c) ELSE PullEntry(c))
         /\ GitBody(r.file) # Bad
  BY <1>0 DEF Sort, TypeOK, CallTypeOK
<1>7. ASSUME NEW e \in heal[c]
      PROVE  /\ e.sha = tree[e.doc] /\ Matches(couch[e.doc], e.rev, e.sha) /\ e.doc # d
             /\ \A i \in 1..Len(q) : q[i].doc # e.doc
             /\ \A j \in 1..Len(rest) : rest[j] # e.doc
  BY <1>0, <1>4 DEF Quiet, HealQuiet
<1>8. ASSUME NEW i \in 1..Len(q)
      PROVE  /\ dir[c] \in {"toRepo", "toCouch"} => q[i].sha = q[i].blob
             /\ dir[c] = "toCouch" => q[i].sha = tree[q[i].doc]
             /\ dir[c] = "toRepo" => Replaceable(q[i].doc)
  BY <1>0, <1>2 DEF Quiet, QueueQuiet
<1>9. dir[c] \in {"toRepo", "toCouch"}
  BY <1>0, <1>2 DEF Inv, CallOk, StageOk
<1>s. \A o \in Docs : Replaceable(o)' <=> Replaceable(o)
  BY <1>1 DEF Replaceable, Revisions
<1>t. \A i \in 1..Len(q) : q[i].doc \in Docs
  <2>1. \A i \in 1..Len(q) : q[i] \in Entry
    BY <1>0
  <2> QED
    BY <2>1 DEF Entry
<1>10. CASE queue'[c] = q /\ heal'[c] = heal[c]
  <2>1. QueueQuiet(c)'
    BY <1>1, <1>2, <1>3, <1>8, <1>s, <1>t, <1>10 DEF QueueQuiet
  <2>2. HealQuiet(c)'
    BY <1>1, <1>3, <1>7, <1>10 DEF HealQuiet
  <2> QED
    BY <1>5, <2>1, <2>2 DEF Quiet
<1>11. CASE queue'[c] = q /\ heal'[c] = heal[c] \cup {HealEntry(c)} /\ Equal(c)
  <2>1. QueueQuiet(c)'
    BY <1>1, <1>2, <1>3, <1>8, <1>s, <1>t, <1>11 DEF QueueQuiet
  <2> DEFINE h == HealEntry(c)
  <2>2. h.doc = d /\ h.rev = r.couch /\ h.sha = tree[d]
    BY <1>2 DEF HealEntry, EntryOf
  <2>3. Matches(couch[d], r.couch, tree[d])
    BY <1>2, <1>11 DEF Equal, contentEqual, Matches, LiveRev, BodyAt
  <2> HIDE DEF h
  <2>4. HealQuiet(c)'
    <3>1. heal'[c] = heal[c] \cup {h}
      BY <1>11 DEF h
    <3> QED
      BY <1>1, <1>3, <1>4, <1>7, <1>11, <2>2, <2>3, <3>1 DEF HealQuiet
  <2> QED
    BY <1>5, <2>1, <2>4 DEF Quiet
<1>12. CASE /\ heal'[c] = heal[c] /\ ~Equal(c) /\ canApply(Status(c), dir[c]) /\ Present(c)
            /\ queue'[c] = Append(q, IF dir[c] = "toRepo" THEN PushEntry(c) ELSE PullEntry(c))
            /\ GitBody(r.file) # Bad
  <2> DEFINE e == IF dir[c] = "toRepo" THEN PushEntry(c) ELSE PullEntry(c)
  <2>1. e \in Entry /\ e.doc = d /\ e.sha = e.blob /\ (dir[c] = "toCouch" => e.sha = tree[d])
    <3>1. e \in Entry /\ e.doc = d
      BY <1>0, <1>1, <1>9, <1>12, EntryBacked
    <3> QED
      BY <1>2, <1>9, <3>1 DEF PushEntry, PullEntry, EntryOf
  <2>2. dir[c] = "toRepo" => Replaceable(d)
    <3> SUFFICES ASSUME dir[c] = "toRepo" PROVE Replaceable(d)
      OBVIOUS
    <3>1. r.couch # 0
      BY <1>12 DEF Present
    <3>2. tree[d] = NoFile \/ (r.rec # NoRecord /\ tree[d] = r.rec.sha)
      BY <1>2, <1>12, <3>1, PushVerdict DEF Status
    <3>3. CASE tree[d] = NoFile
      BY <3>3 DEF Replaceable, GitBody
    <3>4. CASE r.rec # NoRecord /\ tree[d] = r.rec.sha
      <4>1. Matches(couch[d], r.rec.rev, tree[d])
        BY <1>2, <3>4 DEF RecordTrue
      <4> QED
        BY <4>1 DEF Matches, Replaceable, Revisions
    <3> QED
      BY <3>2, <3>3, <3>4
  <2> HIDE DEF e
  <2>3. queue'[c] = Append(q, e)
    BY <1>12 DEF e
  <2>4. /\ Len(queue'[c]) = Len(q) + 1 /\ Len(q) \in Nat
        /\ queue'[c][Len(q) + 1] = e
        /\ \A i \in 1..Len(q) : queue'[c][i] = q[i]
    BY <1>0, <2>1, <2>3
  <2>5. QueueQuiet(c)'
    <3>1. ASSUME NEW i \in 1..Len(queue'[c])
          PROVE  /\ dir[c] \in {"toRepo", "toCouch"} => queue'[c][i].sha = queue'[c][i].blob
                 /\ dir[c] = "toCouch" => queue'[c][i].sha = tree[queue'[c][i].doc]
                 /\ dir[c] = "toRepo" => Replaceable(queue'[c][i].doc)
      <4>1. CASE i = Len(q) + 1
        BY <2>1, <2>2, <2>4, <4>1
      <4>2. CASE i \in 1..Len(q)
        BY <1>8, <2>4, <4>2
      <4> QED
        BY <2>4, <4>1, <4>2
    <3>2. \A i \in 1..Len(queue'[c]) : queue'[c][i].doc \in Docs
      BY <1>2, <1>t, <2>1, <2>4
    <3> QED
      BY <1>1, <1>2, <1>3, <1>s, <3>1, <3>2 DEF QueueQuiet
  <2>6. HealQuiet(c)'
    <3>1. ASSUME NEW h \in heal[c], NEW i \in 1..Len(queue'[c]) PROVE queue'[c][i].doc # h.doc
      BY <1>7, <2>1, <2>4
    <3> QED
      BY <1>1, <1>3, <1>7, <1>12, <3>1 DEF HealQuiet
  <2> QED
    BY <1>5, <2>5, <2>6 DEF Quiet
<1> QED
  BY <1>6, <1>10, <1>11, <1>12

\* A conflict that is found has two sides, and they differ.
LEMMA FindConflictQuiet ==
  ASSUME QuietInv, NEW c \in Calls, FindConflict(c)
  PROVE  Quiet(c)'
<1> DEFINE d == Head(todo[c])
           r == reads[c]
<1>0. TypeOK /\ Quiet(c)
  BY DEF QuietInv, PairInv, Inv
<1>1. /\ AllRead(c) /\ Status(c) = "conflict"
      /\ UNCHANGED <<couch, tree, conflictDoc, dir, todo, shaByPath, queue, heal, keep>>
      /\ pc' = [pc EXCEPT ![c] = "getConflict"]
      /\ reads' = [reads EXCEPT ![c] = [NoReads EXCEPT !.couch = r.couch]]
  BY DEF FindConflict, GoTo, data, records
<1>2. /\ pc[c] = "scan" /\ todo[c] # <<>> /\ d \in Docs /\ shaByPath[c] = tree /\ r.file = tree[d]
      /\ r.couch # 0 => LiveRev(couch[d], r.couch) /\ BodyAt(d, r.couch) = couch[d][r.couch].body
  BY <1>1, AllReadQuiet
<1>3. pc'[c] = "getConflict" /\ reads'[c].couch = r.couch /\ reads'[c].file = Unread /\ reads'[c].rec = Unread
  BY <1>0, <1>1 DEF TypeOK, CallTypeOK, NoReads
<1>4. Differs(couch[d], r.couch, tree[d])
  <2>1. r.couch # 0 /\ ~Equal(c)
    BY <1>1, ConflictVerdict DEF Status
  <2> QED
    BY <1>2, <2>1 DEF Equal, Differs, LiveRev
<1>5. ScanQuiet(c)' /\ ConflictQuiet(c)'
  BY <1>1, <1>2, <1>3, <1>4 DEF ScanQuiet, ConflictQuiet
<1>6. QueueQuiet(c)' /\ HealQuiet(c)'
  BY <1>0, <1>1, <1>2, <1>3 DEF Quiet, QueueQuiet, HealQuiet, Replaceable, Revisions
<1> QED
  BY <1>5, <1>6 DEF Quiet

LEMMA GetConflictQuiet ==
  ASSUME QuietInv, NEW c \in Calls, GetConflict(c)
  PROVE  Quiet(c)'
<1> DEFINE d == Head(todo[c])
<1>0. TypeOK /\ Quiet(c)
  BY DEF QuietInv, PairInv, Inv
<1>1. /\ pc[c] = "getConflict" /\ UNCHANGED <<couch, tree, conflictDoc, dir, todo, shaByPath, reads, queue, heal>>
      /\ pc' = [pc EXCEPT ![c] = "putConflict"]
      /\ keep' = [keep EXCEPT ![c] = SamePair(d, reads[c].couch, shaByPath[c][d]) /\ conflictDoc[d].resolved]
  BY DEF GetConflict, GoTo, data, records, plan
<1>2. pc'[c] = "putConflict" /\ shaByPath[c] = tree
  BY <1>0, <1>1 DEF TypeOK, CallTypeOK, Quiet, ScanQuiet
<1>3. SamePair(d, reads[c].couch, tree[d]) /\ conflictDoc[d].resolved => keep'[c]
  <2> DEFINE same == SamePair(d, reads[c].couch, shaByPath[c][d]) /\ conflictDoc[d].resolved
  <2>1. keep'[c] = same
    BY <1>0, <1>1, Zenon DEF TypeOK, CallTypeOK
  <2>2. SamePair(d, reads[c].couch, tree[d]) /\ conflictDoc[d].resolved => same
    BY <1>2
  <2> QED
    BY <2>1, <2>2
<1>4. ScanQuiet(c)'
  BY <1>0, <1>1, <1>2 DEF Quiet, ScanQuiet
<1>5. ConflictQuiet(c)'
  BY <1>0, <1>1, <1>2, <1>3 DEF Quiet, ConflictQuiet, SamePair
<1>6. QueueQuiet(c)' /\ HealQuiet(c)'
  BY <1>0, <1>1, <1>2 DEF Quiet, QueueQuiet, HealQuiet, Replaceable, Revisions
<1> QED
  BY <1>4, <1>5, <1>6 DEF Quiet

LEMMA PutConflictQuiet ==
  ASSUME QuietInv, NEW c \in Calls, PutConflict(c)
  PROVE  Quiet(c)' /\ ConflictsTrue'
<1> DEFINE d == Head(todo[c])
           rest == Tail(todo[c])
           rec == [rev |-> reads[c].couch, sha |-> shaByPath[c][d], resolved |-> keep[c]]
<1>0. Inv /\ TypeOK /\ Quiet(c) /\ ConflictsTrue
  BY DEF QuietInv, PairInv, Inv
<1>1. /\ pc[c] = "putConflict" /\ UNCHANGED <<couch, tree, dir, shaByPath, queue, heal>>
      /\ pc' = [pc EXCEPT ![c] = "scan"] /\ todo' = [todo EXCEPT ![c] = rest]
      /\ reads' = [reads EXCEPT ![c] = NoReads]
      /\ conflictDoc' = [conflictDoc EXCEPT ![d] = rec] \/ conflictDoc' = conflictDoc
  BY DEF PutConflict, NextDoc, GoTo, data, plan
<1>2. /\ pc'[c] = "scan" /\ todo'[c] = rest /\ reads'[c] = NoReads
      /\ todo[c] # <<>> /\ shaByPath[c] = tree
  BY <1>0, <1>1 DEF TypeOK, CallTypeOK, Inv, CallOk, StageOk, Quiet, ScanQuiet
<1>3. rest \in Seq(Docs) /\ \A j \in 1..Len(rest) : j + 1 \in 1..Len(todo[c]) /\ rest[j] = todo[c][j + 1]
  <2>1. todo[c] \in Seq(Docs)
    BY <1>0 DEF TypeOK, CallTypeOK
  <2> QED
    BY <1>2, <2>1, HeadTail
<1>4. ConflictsTrue'
  <2>1. Differs(couch[d], rec.rev, rec.sha)
    BY <1>0, <1>1, <1>2 DEF Quiet, ConflictQuiet
  <2> HIDE DEF rec
  <2> QED
    BY <1>0, <1>1, <2>1 DEF ConflictsTrue, TypeOK, RecordTypeOK
<1> HIDE DEF rest
<1>5. ScanQuiet(c)' /\ ConflictQuiet(c)'
  BY <1>1, <1>2 DEF ScanQuiet, ConflictQuiet, NoReads
<1>6. QueueQuiet(c)'
  BY <1>0, <1>1, <1>2 DEF Quiet, QueueQuiet, Replaceable, Revisions
<1>7. HealQuiet(c)'
  <2>1. ASSUME NEW e \in heal[c], NEW j \in 1..Len(rest) PROVE rest[j] # e.doc
    BY <1>0, <1>3 DEF Quiet, HealQuiet
  <2>2. HealQuiet(c)
    BY <1>0 DEF Quiet
  <2> QED
    BY <1>1, <1>2, <2>1, <2>2 DEF HealQuiet
<1> QED
  BY <1>4, <1>5, <1>6, <1>7 DEF Quiet

LEMMA PlanQuiet ==
  ASSUME QuietInv, NEW c \in Calls, (EndScan(c) /\ ~Return(c)) \/ ReadHead(c)
  PROVE  Quiet(c)'
<1>0. Inv /\ TypeOK /\ Quiet(c)
  BY DEF QuietInv, PairInv, Inv
<1>1. /\ UNCHANGED <<couch, tree, dir, todo, queue, heal>>
      /\ pc[c] \in {"scan", "commit"} /\ \E where \in {"heal", "commit", "apply", "updateRef"} : pc' = [pc EXCEPT ![c] = where]
  BY DEF EndScan, ReadHead, GoTo, data, plan
<1>2. pc'[c] \in {"heal", "commit", "apply", "updateRef"}
  BY <1>0, <1>1 DEF TypeOK, CallTypeOK
<1>3. ScanQuiet(c)' /\ ConflictQuiet(c)'
  BY <1>2 DEF ScanQuiet, ConflictQuiet
<1>4. QueueQuiet(c)' /\ HealQuiet(c)'
  BY <1>0, <1>1, <1>2 DEF Quiet, QueueQuiet, HealQuiet, Replaceable, Revisions
<1> QED
  BY <1>3, <1>4 DEF Quiet

LEMMA CanonRenders == \A body \in Bodies : GitBody(Canon[body]) = body
BY ContentAssumption, MarkerAssumption DEF GitBody

\* The commit makes the queued files what the records to be saved say they are, and no other.
LEMMA UpdateRefQuiet ==
  ASSUME QuietInv, NEW c \in Calls, UpdateRef(c)
  PROVE  Quiet(c)'
<1> DEFINE q == queue[c]
<1>0. Inv /\ TypeOK /\ Quiet(c) /\ QueueOk(c) /\ q \in Seq(Entry)
  BY DEF QuietInv, PairInv, Inv, CallOk, TypeOK, CallTypeOK
<1>1. /\ pc[c] = "updateRef" /\ tree' = Overlay(c) /\ UNCHANGED <<couch, dir, todo, queue, heal>>
      /\ pc' = [pc EXCEPT ![c] = IF dir[c] = "delete" THEN "forget" ELSE "save"]
      /\ dir[c] \in {"toRepo", "delete"} /\ todo[c] = <<>>
  BY <1>0 DEF UpdateRef, Publish, GoTo, plan, Inv, CallOk, StageOk
<1>2. pc'[c] = IF dir[c] = "delete" THEN "forget" ELSE "save"
  BY <1>0, <1>1 DEF TypeOK, CallTypeOK
<1>3. \A i \in 1..Len(q) : q[i] \in Entry /\ q[i].doc \in Docs /\ tree'[q[i].doc] = q[i].blob
  <2>1. \A i \in 1..Len(q) : q[i] \in Entry
    BY <1>0
  <2> QED
    BY <1>0, <1>1, <2>1, OverlayOk DEF Entry
<1>4. ScanQuiet(c)' /\ ConflictQuiet(c)'
  BY <1>1, <1>2 DEF ScanQuiet, ConflictQuiet
<1>5. QueueQuiet(c)'
  <2>1. ASSUME NEW i \in 1..Len(q), dir[c] = "toRepo"
        PROVE  q[i].sha = q[i].blob /\ Matches(couch[q[i].doc], q[i].rev, q[i].sha)
    <3>1. q[i].sha = q[i].blob
      BY <1>0, <1>1, <2>1 DEF Quiet, QueueQuiet
    <3>2. LiveRev(couch[q[i].doc], q[i].rev) /\ q[i].blob = Canon[couch[q[i].doc][q[i].rev].body]
      BY <1>0, <2>1 DEF QueueOk, PushEntryOk
    <3>3. GitBody(q[i].blob) = couch[q[i].doc][q[i].rev].body
      BY <3>2, CanonRenders DEF LiveRev
    <3> QED
      BY <3>1, <3>2, <3>3 DEF LiveRev, Matches
  <2> QED
    BY <1>1, <1>2, <1>3, <2>1 DEF QueueQuiet
<1>6. HealQuiet(c)'
  <2>1. \A e \in heal[c] : e.doc \in Docs
    BY <1>0 DEF TypeOK, CallTypeOK, Entry
  <2>2. ASSUME NEW e \in heal[c] PROVE tree'[e.doc] = tree[e.doc]
    <3>1. e.doc \notin Queued(c)
      BY <1>0 DEF Quiet, HealQuiet, Queued
    <3> QED
      BY <1>1, <2>1, <3>1 DEF Overlay
  <2> QED
    BY <1>0, <1>1, <2>2 DEF Quiet, HealQuiet
<1> QED
  BY <1>4, <1>5, <1>6 DEF Quiet

\* A record is saved as the two sides are.
LEMMA SaveSyncStateQuiet ==
  ASSUME QuietInv, NEW c \in Calls, SaveSyncState(c)
  PROVE  Quiet(c)' /\ RecordsTrue'
<1> DEFINE q == queue[c]
           rest == Tail(q)
           e == Head(q)
           rec == [rev |-> e.rev, sha |-> e.sha]
           where == IF Tail(q) = <<>> THEN "heal" ELSE IF dir[c] = "toRepo" THEN "save" ELSE "apply"
<1>0. Inv /\ TypeOK /\ Quiet(c) /\ QueueOk(c) /\ QueueQuiet(c) /\ RecordsTrue /\ q \in Seq(Entry)
  BY DEF QuietInv, PairInv, Inv, CallOk, TypeOK, CallTypeOK, Quiet
<1>1. /\ pc[c] = "save" /\ UNCHANGED <<couch, tree, conflictDoc, dir, todo, heal>>
      /\ pc' = [pc EXCEPT ![c] = where] /\ queue' = [queue EXCEPT ![c] = rest]
      /\ syncDoc' = [syncDoc EXCEPT ![e.doc] = rec]
      /\ dir[c] \in {"toRepo", "toCouch"} /\ q # <<>>
  BY <1>0 DEF SaveSyncState, GoTo, data, Inv, CallOk, StageOk
<1>2. /\ pc'[c] = where /\ queue'[c] = rest
      /\ rest \in Seq(Entry) /\ e = q[1] /\ e \in Entry
      /\ \A i \in 1..Len(rest) : i + 1 \in 1..Len(q) /\ rest[i] = q[i + 1]
      /\ 1 \in 1..Len(q)
  BY <1>0, <1>1, HeadTail DEF TypeOK, CallTypeOK
<1>3. RecordsTrue'
  <2>1. Matches(couch[e.doc], rec.rev, rec.sha)
    BY <1>0, <1>1, <1>2 DEF QueueQuiet
  <2> HIDE DEF rec, e
  <2> QED
    BY <1>0, <1>1, <2>1 DEF RecordsTrue, RecordTrue, TypeOK, RecordTypeOK
<1>4. ScanQuiet(c)' /\ ConflictQuiet(c)'
  BY <1>2 DEF ScanQuiet, ConflictQuiet
<1>5. pc'[c] = where /\ where \in {"heal", "save", "apply"} /\ (where = "save" => dir[c] = "toRepo")
  BY <1>1, <1>2
<1> HIDE DEF where, rest
<1>6. \A i \in 1..Len(rest) : rest[i] \in Entry /\ rest[i].doc \in Docs
  <2>1. \A i \in 1..Len(rest) : rest[i] \in Entry
    BY <1>2
  <2> QED
    BY <2>1 DEF Entry
<1>7. QueueQuiet(c)'
  <2>1. ASSUME NEW i \in 1..Len(rest)
        PROVE  /\ rest[i].sha = rest[i].blob /\ rest[i].sha = tree[rest[i].doc]
               /\ dir[c] = "toRepo" => Matches(couch[rest[i].doc], rest[i].rev, rest[i].sha)
    <3>1. rest[i].sha = rest[i].blob /\ rest[i].sha = tree[rest[i].doc]
      BY <1>0, <1>1, <1>2 DEF QueueQuiet
    <3>2. ASSUME dir[c] = "toRepo" PROVE Matches(couch[rest[i].doc], rest[i].rev, rest[i].sha)
      <4>1. LiveRev(couch[rest[i].doc], rest[i].rev) /\ rest[i].blob = Canon[couch[rest[i].doc][rest[i].rev].body]
        BY <1>0, <1>2, <3>2 DEF QueueOk, PushEntryOk
      <4>2. GitBody(rest[i].blob) = couch[rest[i].doc][rest[i].rev].body
        BY <4>1, CanonRenders DEF LiveRev
      <4> QED
        BY <3>1, <4>1, <4>2 DEF LiveRev, Matches
    <3> QED
      BY <3>1, <3>2
  <2>2. where # "save" => dir[c] # "toRepo" \/ rest = <<>>
    BY <1>1 DEF where, rest
  <2> QED
    BY <1>1, <1>2, <1>5, <2>1, <2>2 DEF QueueQuiet
<1>8. HealQuiet(c)'
  BY <1>0, <1>1, <1>2 DEF Quiet, HealQuiet
<1> QED
  BY <1>3, <1>4, <1>7, <1>8 DEF Quiet

\* A pull's write makes the revision that its record will name.
LEMMA ApplyPutQuiet ==
  ASSUME QuietInv, Inv', NEW c \in Calls, ApplyPut(c)
  PROVE  Quiet(c)' /\ Grows
<1> DEFINE q == queue[c]
           e == Head(q)
           n == Len(couch[e.doc])
           body == GitBody(e.blob)
           e2 == [e EXCEPT !.rev = n + 1]
<1>0. /\ Inv /\ TypeOK /\ TypeOK' /\ Quiet(c) /\ QueueOk(c) /\ QueueQuiet(c) /\ HealQuiet(c) /\ OnceEach(c)
      /\ q \in Seq(Entry)
  BY DEF QuietInv, PairInv, Inv, CallOk, TypeOK, CallTypeOK, Quiet
<1>1. /\ pc[c] = "apply" /\ pc' = [pc EXCEPT ![c] = "save"]
      /\ couch' = Append1(e.doc, body, "sync") /\ queue' = [queue EXCEPT ![c] = <<e2>> \o Tail(q)]
      /\ UNCHANGED <<tree, pushed, dir, todo, heal>>
      /\ dir[c] = "toCouch" /\ q # <<>> /\ todo[c] = <<>>
  BY <1>0 DEF ApplyPut, GoTo, Inv, CallOk, StageOk
<1>2. /\ e \in Entry /\ e.doc \in Docs /\ e = q[1] /\ 1 \in 1..Len(q) /\ Len(q) \in Nat /\ n \in Nat
      /\ \A i \in 1..Len(Tail(q)) : Tail(q)[i] = q[i + 1]
      /\ Tail(q) \in Seq(Entry) /\ Len(Tail(q)) = Len(q) - 1
  <2>1. e \in Entry /\ e = q[1] /\ Tail(q) \in Seq(Entry) /\ Len(Tail(q)) = Len(q) - 1 /\ Len(q) \in Nat \ {0}
        /\ \A i \in 1..Len(Tail(q)) : Tail(q)[i] = q[i + 1]
    BY <1>0, <1>1, HeadTail
  <2>2. e.doc \in Docs
    BY <2>1 DEF Entry
  <2> QED
    BY <1>0, <2>1, <2>2 DEF TypeOK, DataTypeOK
<1>3. body \in Bodies
  <2>1. PullEntryOk(couch[e.doc], pushed[e.doc], e) /\ pushed[e.doc] \subseteq Blobs
    BY <1>0, <1>1, <1>2 DEF QueueOk, TypeOK, DataTypeOK
  <2> QED
    BY <2>1, MarkerAssumption DEF PullEntryOk, GitBody
<1>4. /\ Grows /\ couch' \in [Docs -> Revs]
      /\ Len(couch'[e.doc]) = n + 1 /\ couch'[e.doc][n + 1] = [body |-> body, by |-> "sync"]
  BY <1>0, <1>1, <1>2, <1>3, AppendGrows
<1>5. e2 \in Entry /\ e2.doc = e.doc /\ e2.blob = e.blob /\ e2.sha = e.sha /\ e2.rev = n + 1
  BY <1>2 DEF Entry
<1> HIDE DEF e2, body
<1>6. /\ pc'[c] = "save" /\ Len(queue'[c]) = Len(q) /\ queue'[c][1] = e2
      /\ \A i \in 2..Len(q) : queue'[c][i] = q[i]
  <2>1. <<e2>> \in Seq(Entry) /\ Len(<<e2>>) = 1 /\ <<e2>>[1] = e2
    BY <1>5
  <2>2. /\ Len(<<e2>> \o Tail(q)) = Len(q) /\ (<<e2>> \o Tail(q))[1] = e2
        /\ \A i \in 2..Len(q) : (<<e2>> \o Tail(q))[i] = Tail(q)[i - 1]
    BY <1>2, <2>1
  <2>3. \A i \in 2..Len(q) : Tail(q)[i - 1] = q[i]
    BY <1>2
  <2>4. queue'[c] = <<e2>> \o Tail(q) /\ pc'[c] = "save"
    BY <1>0, <1>1 DEF TypeOK, CallTypeOK
  <2> QED
    BY <2>2, <2>3, <2>4
<1>7. \A i \in 1..Len(q) : /\ queue'[c][i].doc = q[i].doc /\ queue'[c][i].sha = q[i].sha
                           /\ queue'[c][i].blob = q[i].blob /\ (i # 1 => queue'[c][i] = q[i])
  BY <1>2, <1>5, <1>6
<1>8. Matches(couch'[e.doc], e2.rev, e2.sha)
  <2>1. e.sha = e.blob
    BY <1>0, <1>1, <1>2 DEF QueueQuiet
  <2> QED
    BY <1>2, <1>4, <1>5, <2>1 DEF Matches, body
<1>9. ScanQuiet(c)' /\ ConflictQuiet(c)'
  BY <1>6 DEF ScanQuiet, ConflictQuiet
<1>10. QueueQuiet(c)'
  <2>1. \A i \in 1..Len(q) : q[i].sha = q[i].blob /\ q[i].sha = tree[q[i].doc]
    BY <1>0, <1>1 DEF QueueQuiet
  <2>2. queue'[c][1].doc = e.doc /\ queue'[c][1].rev = e2.rev /\ queue'[c][1].sha = e2.sha
    BY <1>5, <1>6
  <2> QED
    BY <1>1, <1>6, <1>7, <1>8, <2>1, <2>2 DEF QueueQuiet
<1>11. HealQuiet(c)'
  <2>1. \A h \in heal[c] : h.doc \in Docs
    BY <1>0 DEF TypeOK, CallTypeOK, Entry
  <2>2. \A d \in Docs : couch[d] \in Revs /\ couch'[d] \in Revs /\ Extends(couch[d], couch'[d])
    BY <1>0, <1>4, RevsGrow
  <2>3. \A h \in heal[c] : Matches(couch'[h.doc], h.rev, h.sha)
    BY <1>0, <2>1, <2>2, MatchesStable DEF HealQuiet
  <2> QED
    BY <1>0, <1>1, <1>6, <1>7, <2>3 DEF HealQuiet
<1> QED
  BY <1>4, <1>9, <1>10, <1>11 DEF Quiet

LEMMA HealStepQuiet ==
  ASSUME QuietInv, NEW c \in Calls, NEW e \in heal[c], Heal(c, e)
  PROVE  Quiet(c)' /\ RecordsTrue'
<1> DEFINE rec == [rev |-> e.rev, sha |-> e.sha]
<1>0. Inv /\ TypeOK /\ Quiet(c) /\ RecordsTrue
  BY DEF QuietInv, PairInv, Inv
<1>1. /\ pc[c] = "heal" /\ heal' = [heal EXCEPT ![c] = heal[c] \ {e}]
      /\ UNCHANGED <<couch, tree, conflictDoc, pc, dir, todo, queue>>
      /\ syncDoc' = [syncDoc EXCEPT ![e.doc] = rec] \/ syncDoc' = syncDoc
  BY DEF Heal, data
<1>2. heal'[c] \subseteq heal[c]
  BY <1>0, <1>1 DEF TypeOK, CallTypeOK
<1>3. RecordsTrue'
  <2>1. Matches(couch[e.doc], rec.rev, rec.sha)
    BY <1>0 DEF Quiet, HealQuiet
  <2> HIDE DEF rec
  <2> QED
    BY <1>0, <1>1, <2>1 DEF RecordsTrue, RecordTrue, TypeOK, RecordTypeOK
<1>4. Quiet(c)'
  BY <1>0, <1>1, <1>2 DEF Quiet, ScanQuiet, ConflictQuiet, QueueQuiet, HealQuiet, Replaceable, Revisions
<1> QED
  BY <1>3, <1>4

LEMMA ForgetQuiet ==
  ASSUME QuietInv, NEW c \in Calls, Forget(c)
  PROVE  RecordsTrue' /\ ConflictsTrue'
BY DEF Forget, data, QuietInv, RecordsTrue, RecordTrue, ConflictsTrue

LEMMA PutAckQuiet ==
  ASSUME QuietInv, NEW c \in Calls, PutAck(c)
  PROVE  RecordsTrue' /\ ConflictsTrue'
<1> DEFINE e == Head(queue[c])
           rec == [rev |-> e.rev, sha |-> e.sha, resolved |-> TRUE]
<1>0. Inv /\ TypeOK /\ QueueQuiet(c) /\ RecordsTrue /\ ConflictsTrue /\ queue[c] \in Seq(Entry)
  BY DEF QuietInv, PairInv, Inv, Quiet, TypeOK, CallTypeOK
<1>1. /\ pc[c] = "ack" /\ conflictDoc' = [conflictDoc EXCEPT ![e.doc] = rec]
      /\ UNCHANGED <<couch, syncDoc>> /\ queue[c] # <<>>
  BY <1>0 DEF PutAck, data, Inv, CallOk, StageOk
<1>2. e = queue[c][1] /\ 1 \in 1..Len(queue[c])
  BY <1>0, <1>1, HeadTail
<1>3. Differs(couch[e.doc], rec.rev, rec.sha)
  BY <1>0, <1>1, <1>2 DEF QueueQuiet
<1> HIDE DEF rec, e
<1> QED
  BY <1>0, <1>1, <1>3 DEF RecordsTrue, ConflictsTrue, TypeOK, RecordTypeOK

LEMMA StepActive ==
  ASSUME Inv, NEW c \in Calls, Step(c)
  PROVE  ~Resting(c)
BY DEF Step, ReadCouch, ReadFile, ReadRecord, Read, Unreadable, AllRead, Sort, FindConflict, GetConflict,
   PutConflict, EndScan, ReadHead, UpdateRef, SaveSyncState, ApplyPut, Heal, Finish, Forget, PutAck, Abort, Resting

LEMMA QuietStep ==
  ASSUME QuietInv, Inv', NEW c \in Calls, Step(c)
  PROVE  RecordsTrue' /\ ConflictsTrue' /\ Quiet(c)'
<1>0. TypeOK /\ TypeOK' /\ RecordsTrue /\ ConflictsTrue /\ Inv /\ StageOk(c)'
  BY DEF QuietInv, PairInv, Inv, CallOk
<1>s. ASSUME couch' = couch, pushed' = pushed
      PROVE  (syncDoc' = syncDoc => RecordsTrue') /\ (conflictDoc' = conflictDoc => ConflictsTrue')
  BY <1>0, <1>s, UnchangedGrows, RecordsStayTrue
<1>t. ASSUME UNCHANGED couch
      PROVE  (syncDoc' = syncDoc => RecordsTrue') /\ (conflictDoc' = conflictDoc => ConflictsTrue')
  BY <1>0, <1>t DEF RecordsTrue, ConflictsTrue
<1>r. ASSUME Return(c) PROVE Quiet(c)'
  BY <1>0, <1>r, ReturnKeeps, RestingQuiet
<1>1. CASE Return(c) /\ UNCHANGED <<data, records>>
  BY <1>1, <1>r, <1>t DEF data, records
<1>2. ASSUME NEW side \in {"couch", "file", "rec"}, NEW answer, Read(c, side, answer),
             side = "file" => answer = tree[Head(todo[c])], side = "rec" => answer = syncDoc[Head(todo[c])]
      PROVE  RecordsTrue' /\ ConflictsTrue' /\ Quiet(c)'
  <2>1. Quiet(c)'
    BY <1>2, ReadQuiet
  <2>2. UNCHANGED <<couch, syncDoc, conflictDoc>>
    BY <1>2 DEF Read, data, records
  <2> QED
    BY <1>t, <2>1, <2>2
<1>3. CASE ReadCouch(c)
  BY <1>2, <1>3 DEF ReadCouch
<1>4. CASE ReadFile(c)
  BY <1>2, <1>4 DEF ReadFile
<1>5. CASE ReadRecord(c)
  BY <1>2, <1>5 DEF ReadRecord
<1>6. CASE Sort(c)
  BY <1>6, <1>t, SortQuiet DEF Sort, data, records
<1>7. CASE FindConflict(c)
  BY <1>7, <1>t, FindConflictQuiet DEF FindConflict, data, records
<1>8. CASE GetConflict(c)
  BY <1>8, <1>t, GetConflictQuiet DEF GetConflict, data, records
<1>9. CASE PutConflict(c)
  BY <1>9, <1>t, PutConflictQuiet DEF PutConflict, data
<1>10. CASE (EndScan(c) /\ ~Return(c)) \/ ReadHead(c)
  BY <1>10, <1>t, PlanQuiet DEF EndScan, ReadHead, data, records
<1>11. CASE UpdateRef(c)
  BY <1>11, <1>t, UpdateRefQuiet DEF UpdateRef, Publish, records
<1>12. CASE SaveSyncState(c)
  BY <1>12, <1>t, SaveSyncStateQuiet DEF SaveSyncState, data
<1>13. CASE ApplyPut(c)
  <2>1. Quiet(c)' /\ Grows /\ UNCHANGED <<syncDoc, conflictDoc>>
    BY <1>13, ApplyPutQuiet DEF ApplyPut, records
  <2> QED
    BY <1>0, <2>1, RecordsStayTrue
<1>14. ASSUME NEW e \in heal[c], Heal(c, e)
       PROVE  RecordsTrue' /\ ConflictsTrue' /\ Quiet(c)'
  BY <1>14, <1>t, HealStepQuiet DEF Heal, data
<1>15. CASE Forget(c)
  BY <1>15, <1>r, ForgetQuiet DEF Forget
<1>16. CASE PutAck(c)
  BY <1>16, <1>r, PutAckQuiet DEF PutAck
<1> QED
  BY <1>1, <1>3, <1>4, <1>5, <1>6, <1>7, <1>8, <1>9, <1>10, <1>11, <1>12, <1>13, <1>14, <1>15, <1>16
     DEF Step, Unreadable, Finish, Abort, EndScan

LEMMA QuietStart ==
  ASSUME QuietInv, Inv', NEW c \in Calls, Start(c)
  PROVE  RecordsTrue' /\ ConflictsTrue' /\ Quiet(c)'
<1>0. TypeOK /\ TypeOK' /\ RecordsTrue /\ ConflictsTrue /\ Inv
  BY DEF QuietInv, PairInv, Inv
<1>1. queue[c] = <<>> /\ heal[c] = {} /\ reads[c] = NoReads
  <2>1. pc[c] = "idle"
    BY DEF Start, StartSync, StartDelete, StartSweep, StartCouchDelete, StartAck, StartWork, MayStart, Resting
  <2> QED
    BY <1>0, <2>1 DEF Inv, CallOk, StageOk
<1>2. UNCHANGED <<tree, pushed, syncDoc, conflictDoc>> /\ heal' = heal
  BY DEF Start, StartSync, StartDelete, StartSweep, StartCouchDelete, StartAck, StartWork, data, records, plan
<1>3. Grows
  <2>1. ASSUME NEW d \in Docs, StartCouchDelete(c, d) PROVE Grows
    BY <1>0, <1>2, <2>1, AppendGrows DEF StartCouchDelete
  <2>2. CASE couch' = couch
    BY <1>0, <1>2, <2>2, UnchangedGrows
  <2> QED
    BY <2>1, <2>2 DEF Start, StartSync, StartDelete, StartSweep, StartAck, data
<1>4. RecordsTrue' /\ ConflictsTrue'
  BY <1>0, <1>2, <1>3, RecordsStayTrue
<1>5. ASSUME NEW what, NEW where, NEW entries, StartWork(c, what, where, entries)
      PROVE  pc'[c] = where /\ queue'[c] = entries /\ dir'[c] = what
  BY <1>0, <1>5 DEF StartWork, GoTo, TypeOK, CallTypeOK
<1>6. HealQuiet(c)'
  BY <1>1, <1>2 DEF HealQuiet
<1>7. CASE StartSync(c)
  <2>1. /\ pc' = [pc EXCEPT ![c] = "scan"] /\ shaByPath' = [shaByPath EXCEPT ![c] = tree]
        /\ UNCHANGED <<reads, queue>>
    BY <1>7 DEF StartSync, GoTo, plan
  <2>2. pc'[c] = "scan" /\ shaByPath'[c] = tree /\ reads'[c] = NoReads /\ queue'[c] = <<>>
    BY <1>0, <1>1, <2>1 DEF TypeOK, CallTypeOK
  <2> QED
    BY <1>2, <1>4, <1>6, <2>2 DEF Quiet, ScanQuiet, ConflictQuiet, QueueQuiet, NoReads
<1>8. CASE StartDelete(c) \/ StartSweep(c) \/ \E d \in Docs : StartCouchDelete(c, d)
  <2>1. pc'[c] \in {"commit", "forget"} /\ dir'[c] \in {"delete", "forget"}
    BY <1>5, <1>8 DEF StartDelete, StartSweep, StartCouchDelete
  <2> QED
    BY <1>4, <1>6, <2>1 DEF Quiet, ScanQuiet, ConflictQuiet, QueueQuiet
<1>9. ASSUME NEW d \in Docs, StartAck(c, d) PROVE RecordsTrue' /\ ConflictsTrue' /\ Quiet(c)'
  <2> DEFINE e == EntryOf(d, conflictDoc[d].rev, conflictDoc[d].sha, NoFile)
  <2>1. pc'[c] = "ack" /\ dir'[c] = "ack" /\ queue'[c] = <<e>> /\ couch' = couch
    BY <1>5, <1>9 DEF StartAck
  <2>2. Differs(couch[e.doc], e.rev, e.sha)
    BY <1>0, <1>9 DEF StartAck, EntryOf, ConflictsTrue
  <2> HIDE DEF e
  <2>3. Len(queue'[c]) = 1 /\ queue'[c][1] = e
    BY <2>1
  <2> QED
    BY <1>4, <1>6, <2>1, <2>2, <2>3 DEF Quiet, ScanQuiet, ConflictQuiet, QueueQuiet
<1> QED
  BY <1>7, <1>8, <1>9 DEF Start

\* While one call works the others rest, and what rests relies on nothing.
LEMMA QuietNext == ASSUME Exclusive, QuietInv, [Next]_vars PROVE QuietInv'
<1>0. PairInv' /\ Inv /\ Inv' /\ TypeOK /\ TypeOK' /\ RecordsTrue /\ ConflictsTrue /\ Alone
  BY PairNext DEF QuietInv, PairInv, Inv
<1>1. \A o \in Calls : StageOk(o)' /\ CallOk(o) /\ Quiet(o)
  BY <1>0 DEF Inv, CallOk, QuietInv
<1>2. ASSUME NEW c \in Calls, Start(c) \/ Step(c) PROVE QuietInv'
  <2>1. RecordsTrue' /\ ConflictsTrue' /\ Quiet(c)'
    BY <1>0, <1>2, QuietStep, QuietStart
  <2>2. \A o \in Calls \ {c} : SameCall(o)
    BY <1>0, <1>2, StartOthersKeep, StepOthersKeep
  <2>3. \A o \in Calls \ {c} : Resting(o)
    <3>1. CASE Step(c)
      BY <1>0, <3>1, StepActive DEF Alone
    <3>2. CASE Start(c)
      BY <3>2 DEF Start, StartSync, StartDelete, StartSweep, StartCouchDelete, StartAck, StartWork, MayStart
    <3> QED
      BY <1>2, <3>1, <3>2
  <2>4. \A o \in Calls \ {c} : pc'[o] = "idle"
    BY <2>2, <2>3 DEF SameCall, SameLocal, Resting
  <2>5. \A o \in Calls \ {c} : Quiet(o)'
    BY <1>1, <2>4, RestingQuiet
  <2>6. Alone'
    BY <2>4 DEF Alone, Resting
  <2> QED
    BY <1>0, <2>1, <2>5, <2>6 DEF QuietInv
<1>3. CASE Others \/ UNCHANGED vars
  <2>1. UNCHANGED <<syncDoc, conflictDoc, pc>> /\ \A o \in Calls : SameCall(o)
    BY <1>3 DEF Others, EditCouch, ForeignPush, records, local, vars, SameCall, SameLocal
  <2>2. Alone'
    BY <1>0, <2>1 DEF Alone, Resting
  <2>3. CASE tree' = tree
    <3>1. Grows
      <4>1. CASE couch' = couch /\ pushed' = pushed
        BY <1>0, <4>1, UnchangedGrows
      <4>2. ASSUME NEW d \in Docs, EditCouch(d) PROVE Grows
        <5>1. PICK body \in Bodies \cup {NoBody} : couch' = Append1(d, body, "user")
          BY <4>2 DEF EditCouch
        <5> QED
          BY <1>0, <4>2, <5>1, AppendGrows DEF EditCouch
      <4>3. ASSUME NEW d \in Docs, ForeignPush(d) PROVE FALSE
        BY <2>3, <4>3, <1>0 DEF ForeignPush, Publish, TypeOK, DataTypeOK
      <4> QED
        BY <1>3, <4>1, <4>2, <4>3 DEF Others, vars
    <3>2. \A o \in Calls : Quiet(o)'
      BY <1>0, <1>1, <2>1, <2>3, <3>1, QuietStable
    <3>3. RecordsTrue' /\ ConflictsTrue'
      BY <1>0, <2>1, <3>1, RecordsStayTrue
    <3> QED
      BY <1>0, <2>2, <3>2, <3>3 DEF QuietInv
  <2>4. CASE tree' # tree
    <3>1. couch' = couch /\ \A o \in Calls : Resting(o)
      BY <1>3, <2>4 DEF Others, EditCouch, ForeignPush, Publish, vars
    <3>2. \A o \in Calls : Quiet(o)'
      BY <1>1, <2>1, <3>1, RestingQuiet DEF Resting
    <3>3. RecordsTrue' /\ ConflictsTrue'
      BY <1>0, <2>1, <3>1 DEF RecordsTrue, ConflictsTrue
    <3> QED
      BY <1>0, <2>2, <3>2, <3>3 DEF QuietInv
  <2> QED
    BY <2>3, <2>4
<1> QED
  BY <1>2, <1>3 DEF Next

LEMMA QuietInit == Init => QuietInv
<1> SUFFICES ASSUME Init PROVE QuietInv
  OBVIOUS
<1>1. PairInv
  <2>1. Inv
    BY InitInv
  <2> QED
    BY <2>1 DEF Init, PairInv, NoPhantomConflict, TwoSided
<1>2. \A c \in Calls : pc[c] = "idle" /\ queue[c] = <<>> /\ heal[c] = {}
  BY DEF Init
<1>3. \A c \in Calls : Quiet(c)
  BY <1>2 DEF Quiet, ScanQuiet, ConflictQuiet, QueueQuiet, HealQuiet
<1>4. ConflictsTrue /\ Alone
  BY <1>2 DEF Init, ConflictsTrue, Alone, Resting
<1>5. RecordsTrue
  <2>1. CASE ~Synced
    BY <2>1 DEF Init, RecordsTrue, RecordTrue
  <2>2. ASSUME Synced, NEW d \in Docs PROVE Matches(couch[d], 1, tree[d])
    <3>1. PICK body \in Bodies : couch[d] = <<[body |-> body, by |-> "user"]>>
      BY <2>2 DEF Init
    <3>2. couch[d][1].body = body /\ Len(couch[d]) = 1
      BY <3>1
    <3>3. GitBody(tree[d]) = body
      BY <2>2, <3>2, CanonRenders DEF Init
    <3> QED
      BY <3>2, <3>3 DEF Matches
  <2>3. CASE Synced
    BY <2>2, <2>3 DEF Init, RecordsTrue, RecordTrue
  <2> QED
    BY <2>1, <2>3
<1> QED
  BY <1>1, <1>3, <1>4, <1>5 DEF QuietInv

LEMMA QuietHolds == ASSUME Exclusive PROVE Spec => []QuietInv
<1>1. QuietInv /\ [Next]_vars => QuietInv'
  BY QuietNext
<1> QED
  BY <1>1, QuietInit, PTL DEF Spec

\* One call at a time, a sync: record says what both sides had (saveSyncState), through every failed
\* request, every edit and every commit made between two calls.
THEOREM RecordsAreTrue == ASSUME Exclusive PROVE Spec => []RecordTruthful
<1>1. QuietInv => RecordTruthful
  BY DEF QuietInv, RecordsTrue, RecordTrue, Matches, NoRecord, RecordTruthful, BodyAt
<1> QED
  BY <1>1, QuietHolds, PTL

\* One call at a time, the two versions that writeConflict records do differ.
THEOREM ConflictsAreReal == ASSUME Exclusive PROVE Spec => []ConflictIsReal
<1>1. QuietInv => ConflictIsReal
  <2> SUFFICES ASSUME QuietInv, NEW d \in Docs, conflictDoc[d] # NoConflict
               PROVE  ~contentEqual(BodyAt(d, conflictDoc[d].rev), GitBody(conflictDoc[d].sha))
    BY DEF ConflictIsReal
  <2>1. Differs(couch[d], conflictDoc[d].rev, conflictDoc[d].sha) /\ Len(couch[d]) \in Nat
    BY DEF QuietInv, ConflictsTrue, PairInv, Inv, TypeOK, DataTypeOK
  <2> QED
    BY <2>1 DEF Differs, BodyAt
<1> QED
  BY <1>1, QuietHolds, PTL

\* One call at a time, syncToRepo's commit replaces only files whose content CouchDB has held.
THEOREM PushIsHarmless == ASSUME Exclusive PROVE Spec => PushNeverDestroys
<1> DEFINE Harmless == \A c \in Calls : dir[c] = "toRepo" /\ UpdateRef(c) =>
             \A d \in Docs : tree'[d] # tree[d] => GitBody(tree[d]) \in Revisions(d) \cup {NoBody}
<1>1. QuietInv => Harmless
  <2> SUFFICES ASSUME QuietInv, NEW c \in Calls, dir[c] = "toRepo", UpdateRef(c), NEW d \in Docs, tree'[d] # tree[d]
               PROVE  GitBody(tree[d]) \in Revisions(d) \cup {NoBody}
    OBVIOUS
  <2>1. tree' = Overlay(c) /\ pc[c] = "updateRef"
    BY DEF UpdateRef, Publish
  <2>2. PICK i \in 1..Len(queue[c]) : queue[c][i].doc = d
    BY <2>1 DEF Overlay, Queued
  <2>3. Replaceable(queue[c][i].doc)
    BY <2>1 DEF QuietInv, Quiet, QueueQuiet
  <2> QED
    BY <2>2, <2>3 DEF Replaceable
<1>2. QuietInv => [Harmless]_vars
  BY <1>1
<1>3. Spec => [][Harmless]_vars
  BY <1>2, QuietHolds, PTL
<1> QED
  BY <1>3 DEF PushNeverDestroys

\* Who writes a sync: record, and what: a save or a heal, of an entry that is true of both sides.
LEMMA RecordWritten ==
  ASSUME QuietInv, [Next]_vars, NEW d \in Docs, syncDoc'[d] \notin {syncDoc[d], NoRecord}
  PROVE  \E e \in Entry : /\ e.doc = d /\ syncDoc'[d] = [rev |-> e.rev, sha |-> e.sha]
                          /\ e.sha = tree[d] /\ Matches(couch[d], e.rev, e.sha)
<1>0. TypeOK /\ Inv /\ syncDoc \in [Docs -> Record]
  BY DEF QuietInv, PairInv, Inv, TypeOK, RecordTypeOK
<1>1. ASSUME NEW e \in Entry, syncDoc' = [syncDoc EXCEPT ![e.doc] = [rev |-> e.rev, sha |-> e.sha]]
      PROVE  e.doc = d /\ syncDoc'[d] = [rev |-> e.rev, sha |-> e.sha]
  BY <1>0, <1>1 DEF Entry
<1>2. ASSUME NEW c \in Calls, SaveSyncState(c)
      PROVE  \E e \in Entry : /\ e.doc = d /\ syncDoc'[d] = [rev |-> e.rev, sha |-> e.sha]
                              /\ e.sha = tree[d] /\ Matches(couch[d], e.rev, e.sha)
  <2>1. pc[c] = "save" /\ queue[c] # <<>> /\ queue[c] \in Seq(Entry) /\ QueueQuiet(c)
    BY <1>0, <1>2 DEF SaveSyncState, QuietInv, Quiet, Inv, CallOk, StageOk, TypeOK, CallTypeOK
  <2>2. PICK e \in Entry : e = Head(queue[c]) /\ e = queue[c][1] /\ 1 \in 1..Len(queue[c])
    BY <2>1, HeadTail
  <2>3. e.sha = tree[e.doc] /\ Matches(couch[e.doc], e.rev, e.sha)
    BY <2>1, <2>2 DEF QueueQuiet
  <2>4. syncDoc' = [syncDoc EXCEPT ![e.doc] = [rev |-> e.rev, sha |-> e.sha]]
    BY <1>2, <2>2 DEF SaveSyncState
  <2> QED
    BY <1>1, <2>3, <2>4
<1>3. ASSUME NEW c \in Calls, NEW e \in heal[c], Heal(c, e)
      PROVE  /\ e \in Entry /\ e.doc = d /\ syncDoc'[d] = [rev |-> e.rev, sha |-> e.sha]
             /\ e.sha = tree[d] /\ Matches(couch[d], e.rev, e.sha)
  <2>1. e \in Entry /\ e.sha = tree[e.doc] /\ Matches(couch[e.doc], e.rev, e.sha)
    BY <1>0 DEF QuietInv, Quiet, HealQuiet, TypeOK, CallTypeOK
  <2>2. syncDoc' = [syncDoc EXCEPT ![e.doc] = [rev |-> e.rev, sha |-> e.sha]]
    BY <1>3 DEF Heal
  <2> QED
    BY <1>1, <2>1, <2>2
<1>4. CASE syncDoc'[d] \in {syncDoc[d], NoRecord}
  BY <1>4
<1>5. ASSUME NEW c \in Calls, Forget(c) PROVE FALSE
  <2>1. PICK gone \in SUBSET Queued(c) : syncDoc' = [o \in Docs |-> IF o \in gone THEN NoRecord ELSE syncDoc[o]]
    BY <1>5 DEF Forget
  <2> QED
    BY <2>1
<1>6. ASSUME NEW c \in Calls, Start(c) PROVE FALSE
  BY <1>6 DEF Start, StartSync, StartDelete, StartSweep, StartCouchDelete, StartAck, StartWork, records
<1>7. ASSUME Others \/ UNCHANGED vars PROVE FALSE
  BY <1>7 DEF Others, EditCouch, ForeignPush, records, vars
<1>8. ASSUME NEW c \in Calls, Step(c), ~SaveSyncState(c), ~(\E e \in heal[c] : Heal(c, e)), ~Forget(c) PROVE FALSE
  BY <1>8 DEF Step, ReadCouch, ReadFile, ReadRecord, Read, Unreadable, Sort, FindConflict, GetConflict, PutConflict,
     EndScan, ReadHead, UpdateRef, ApplyPut, Finish, PutAck, Abort, data, records
<1> QED
  BY <1>2, <1>3, <1>5, <1>6, <1>7, <1>8 DEF Next

\* One call at a time, a sync: record that is written while its revision is the live one is true of both
\* sides as they are.
THEOREM SavedRecordsAreCurrent == ASSUME Exclusive PROVE Spec => SavedRecordIsCurrent
<1> DEFINE Current == \A d \in Docs :
             /\ syncDoc'[d] \notin {syncDoc[d], NoRecord}
             /\ CouchRev(d) = syncDoc'[d].rev
             => /\ tree[d] = syncDoc'[d].sha
                /\ contentEqual(BodyAt(d, CouchRev(d)), GitBody(tree[d]))
<1>1. ASSUME QuietInv, [Next]_vars PROVE Current
  <2> SUFFICES ASSUME NEW d \in Docs, syncDoc'[d] \notin {syncDoc[d], NoRecord}, CouchRev(d) = syncDoc'[d].rev
               PROVE  tree[d] = syncDoc'[d].sha /\ contentEqual(BodyAt(d, CouchRev(d)), GitBody(tree[d]))
    OBVIOUS
  <2>1. PICK e \in Entry : /\ syncDoc'[d] = [rev |-> e.rev, sha |-> e.sha]
                           /\ e.sha = tree[d] /\ Matches(couch[d], e.rev, e.sha)
    BY <1>1, RecordWritten
  <2>2. CouchRev(d) = e.rev /\ e.rev # 0 /\ LiveRev(couch[d], e.rev)
    BY <1>1, <2>1, LiveCouchRev DEF Matches, QuietInv, PairInv, Inv
  <2> QED
    BY <2>1, <2>2, MarkerAssumption DEF Matches, LiveRev, contentEqual, BodyAt
<1>2. QuietInv /\ [Next]_vars => [Current]_vars
  BY <1>1
<1>3. Spec => [][Current]_vars
  BY <1>2, QuietHolds, PTL DEF Spec
<1> QED
  BY <1>3 DEF SavedRecordIsCurrent

\* One call at a time, a conflict that the user has acknowledged (resolveConflict) is not raised again
\* by a later sync for as long as its record names the same pair.
THEOREM AcknowledgementsHold == ASSUME Exclusive PROVE Spec => AcknowledgedConflictStays
<1> DEFINE Stays == \A d \in Docs :
             /\ conflictDoc[d] # NoConflict /\ conflictDoc[d].resolved
             /\ conflictDoc'[d] # NoConflict
             /\ conflictDoc'[d].rev = conflictDoc[d].rev /\ conflictDoc'[d].sha = conflictDoc[d].sha
             => conflictDoc'[d].resolved
<1>1. ASSUME QuietInv, [Next]_vars PROVE Stays
  <2>0. TypeOK /\ Inv
    BY <1>1 DEF QuietInv, PairInv, Inv
  <2>1. CASE conflictDoc' = conflictDoc
    BY <2>1
  <2>2. ASSUME NEW c \in Calls, PutConflict(c) PROVE Stays
    <3> DEFINE o == Head(todo[c])
               rec == [rev |-> reads[c].couch, sha |-> shaByPath[c][o], resolved |-> keep[c]]
    <3>1. /\ pc[c] = "putConflict" /\ shaByPath[c] = tree
          /\ conflictDoc' = [conflictDoc EXCEPT ![o] = rec] \/ conflictDoc' = conflictDoc
      BY <1>1, <2>2 DEF PutConflict, QuietInv, Quiet, ScanQuiet
    <3>2. SamePair(o, rec.rev, rec.sha) /\ conflictDoc[o].resolved => rec.resolved
      BY <1>1, <3>1 DEF QuietInv, Quiet, ConflictQuiet
    <3> HIDE DEF rec, o
    <3> QED
      BY <2>0, <3>1, <3>2 DEF SamePair, TypeOK, RecordTypeOK
  <2>3. ASSUME NEW c \in Calls, PutAck(c) PROVE Stays
    <3> DEFINE e == Head(queue[c])
               rec == [rev |-> e.rev, sha |-> e.sha, resolved |-> TRUE]
    <3>1. conflictDoc' = [conflictDoc EXCEPT ![e.doc] = rec] /\ rec.resolved
      BY <2>3 DEF PutAck
    <3> HIDE DEF rec, e
    <3> QED
      BY <2>0, <3>1 DEF TypeOK, RecordTypeOK
  <2>4. ASSUME NEW c \in Calls, Forget(c) PROVE Stays
    <3>1. PICK settled : conflictDoc' = [d \in Docs |-> IF d \in settled THEN NoConflict ELSE conflictDoc[d]]
      BY <2>4 DEF Forget
    <3> QED
      BY <3>1
  <2>5. ASSUME NEW c \in Calls, Start(c) PROVE conflictDoc' = conflictDoc
    BY <2>5 DEF Start, StartSync, StartDelete, StartSweep, StartCouchDelete, StartAck, StartWork, records
  <2>6. ASSUME Others \/ UNCHANGED vars PROVE conflictDoc' = conflictDoc
    BY <2>6 DEF Others, EditCouch, ForeignPush, records, vars
  <2>7. ASSUME NEW c \in Calls, Step(c), ~PutConflict(c), ~PutAck(c), ~Forget(c) PROVE conflictDoc' = conflictDoc
    BY <2>7 DEF Step, ReadCouch, ReadFile, ReadRecord, Read, Unreadable, Sort, FindConflict, GetConflict,
       EndScan, ReadHead, UpdateRef, SaveSyncState, ApplyPut, Heal, Finish, Abort, data, records
  <2> QED
    BY <1>1, <2>1, <2>2, <2>3, <2>4, <2>5, <2>6, <2>7 DEF Next
<1>2. QuietInv /\ [Next]_vars => [Stays]_vars
  BY <1>1
<1>3. Spec => [][Stays]_vars
  BY <1>2, QuietHolds, PTL DEF Spec
<1> QED
  BY <1>3 DEF AcknowledgedConflictStays
=============================================================================
