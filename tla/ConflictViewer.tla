----------------------------- MODULE ConflictViewer -----------------------------
(* The screen that lists the recorded conflicts between CouchDB and git, compares      *)
(* the two versions of one and acknowledges it (design-mgmt/conflict-viewer.ts), over   *)
(* listConflicts, resolveConflict and getConflictVersions (design-mgmt-service.ts).     *)
(* A sync elsewhere goes on finding conflicts, and writes them to the same records.      *)
EXTENDS Naturals

CONSTANTS
  Docs,          \* the design documents; a conflict record has the id of its document
  None,
  MaxRev,        \* bound: revisions of one document, and versions of its file
  MaxOthers,     \* bound: what the rest of the world does
  MaxTrouble     \* bound: answers that the network loses

VARIABLES
  couch,         \* document |-> its revision
  kept,          \* document |-> the revisions not compacted away
  file,          \* document |-> the version at conflict_branch, 0 when there is no file
  records,       \* couchcompanion: document |-> [couch_rev, git_sha, resolved], or None
  conflicts,     \* document |-> its card, or None
  loading, loadError,
  resolving,     \* document |-> Idle, "get", or the record that resolveConflict read
  expandedId,
  versions,      \* document |-> None, [loading: the card it was asked for], or the two sides
  trouble, others,
  touched        \* history: records that something else wrote or removed since their card was

vars == <<couch, kept, file, records, conflicts, loading, loadError, resolving, expandedId,
          versions, trouble, others, touched>>
world == <<couch, kept, file>>
view == <<conflicts, loading, loadError, expandedId, versions>>

Idle == None
Revs == 1..MaxRev
DesignConflict == [couch_rev : Revs, git_sha : 0..MaxRev, resolved : BOOLEAN]
TypeOK ==
  /\ couch \in [Docs -> Revs] /\ kept \in [Docs -> SUBSET Revs] /\ file \in [Docs -> 0..MaxRev]
  /\ records \in [Docs -> DesignConflict \union {None}]
  /\ conflicts \in [Docs -> DesignConflict \union {None}]
  /\ loading \in BOOLEAN /\ loadError \in BOOLEAN /\ expandedId \in Docs \union {None}
  /\ resolving \in [Docs -> DesignConflict \union {Idle, [get |-> TRUE]}]
  /\ touched \subseteq Docs /\ trouble \in 0..MaxTrouble /\ others \in 0..MaxOthers

Init ==
  /\ couch = [d \in Docs |-> 1] /\ kept = [d \in Docs |-> {1}] /\ file = [d \in Docs |-> 1]
  /\ records \in [Docs -> {[couch_rev |-> 1, git_sha |-> 1, resolved |-> r] : r \in BOOLEAN}]
  /\ conflicts = [d \in Docs |-> None] /\ loading = TRUE /\ loadError = FALSE
  /\ resolving = [d \in Docs |-> Idle] /\ expandedId = None /\ versions = [d \in Docs |-> None]
  /\ trouble = 0 /\ others = 0 /\ touched = {}

-------------------------------------------------------------------------------
(* The rest of the world: edits, compactions, and the syncs of other tabs.         *)

Elsewhere == others < MaxOthers /\ others' = others + 1
Save(d) ==
  /\ Elsewhere /\ couch[d] < MaxRev /\ couch' = [couch EXCEPT ![d] = @ + 1]
  /\ kept' = [kept EXCEPT ![d] = @ \union {couch[d] + 1}]
  /\ UNCHANGED <<file, records, view, resolving, trouble, touched>>
Compact(d) ==
  /\ Elsewhere /\ kept[d] # {couch[d]} /\ kept' = [kept EXCEPT ![d] = {couch[d]}]
  /\ UNCHANGED <<couch, file, records, view, resolving, trouble, touched>>
(* A commit on the conflict branch, the first of which may remove the file. *)
Commit(d) ==
  /\ Elsewhere /\ file[d] \in 1..MaxRev - 1 /\ \E v \in {0, file[d] + 1} : file' = [file EXCEPT ![d] = v]
  /\ UNCHANGED <<couch, kept, records, view, resolving, trouble, touched>>

(* writeConflict: the same pair keeps its acknowledgement. *)
Detected(d) ==
  LET same == records[d] # None /\ records[d].couch_rev = couch[d] /\ records[d].git_sha = file[d]
  IN [couch_rev |-> couch[d], git_sha |-> file[d], resolved |-> same /\ records[d].resolved]
writeConflict(d) ==
  /\ Elsewhere /\ records[d] # Detected(d)
  /\ records' = [records EXCEPT ![d] = Detected(d)] /\ touched' = touched \union {d}
  /\ UNCHANGED <<world, view, resolving, trouble>>
(* Its database is unlinked, or its repository deleted. *)
Sweep(d) ==
  /\ Elsewhere /\ records[d] # None
  /\ records' = [records EXCEPT ![d] = None] /\ touched' = touched \union {d}
  /\ UNCHANGED <<world, view, resolving, trouble>>

-------------------------------------------------------------------------------
load ==
  /\ loading /\ loading' = FALSE /\ conflicts' = records /\ touched' = {}
  /\ UNCHANGED <<world, others, records, loadError, resolving, expandedId, versions, trouble>>
LoadFails ==
  /\ loading /\ trouble < MaxTrouble /\ trouble' = trouble + 1
  /\ loading' = FALSE /\ conflicts' = [d \in Docs |-> None] /\ loadError' = TRUE
  /\ UNCHANGED <<world, others, records, resolving, expandedId, versions, touched>>
Retry ==
  /\ loadError /\ ~loading /\ loading' = TRUE /\ loadError' = FALSE
  /\ UNCHANGED <<world, records, conflicts, resolving, expandedId, versions, trouble, others, touched>>
Card(d) == ~loading /\ ~loadError /\ conflicts[d] # None

resolve(d) ==
  /\ Card(d) /\ ~conflicts[d].resolved /\ resolving[d] = Idle
  /\ resolving' = [resolving EXCEPT ![d] = [get |-> TRUE]]
  /\ UNCHANGED <<world, records, view, trouble, others, touched>>
Getting(d) == resolving[d] = [get |-> TRUE]
ResolveReads(d) ==
  /\ Getting(d) /\ resolving' = [resolving EXCEPT ![d] = records[d]]
  /\ UNCHANGED <<world, records, view, trouble, others, touched>>
(* The record read goes back acknowledged, with the revision it has by then: whatever a   *)
(* sync wrote in between is replaced, and a record that was swept comes back.  The card    *)
(* becomes what was stored.                                                                *)
resolveConflict(d) ==
  LET resolved == [resolving[d] EXCEPT !.resolved = TRUE]
  IN /\ resolving[d] # Idle /\ ~Getting(d)
     /\ records' = [records EXCEPT ![d] = resolved]
     /\ conflicts' = [conflicts EXCEPT ![d] = IF @ = None THEN None ELSE resolved]
     /\ touched' = touched \ {d} /\ resolving' = [resolving EXCEPT ![d] = Idle]
     /\ UNCHANGED <<world, others, loading, loadError, expandedId, versions, trouble>>
(* The network loses a request, or the answer to the write.                             *)
ResolveFails(d) ==
  /\ resolving[d] # Idle /\ trouble < MaxTrouble /\ trouble' = trouble + 1
  /\ resolving' = [resolving EXCEPT ![d] = Idle]
  /\ \/ UNCHANGED <<records, touched>>
     \/ /\ ~Getting(d) /\ touched' = touched \union {d}
        /\ records' = [records EXCEPT ![d] = [resolving[d] EXCEPT !.resolved = TRUE]]
  /\ UNCHANGED <<world, others, view>>

(* A comparison is asked for once, whatever becomes of its card. *)
toggleCompare(d) ==
  /\ Card(d)
  /\ expandedId' = IF expandedId = d THEN None ELSE d
  /\ versions' = IF expandedId # d /\ versions[d] = None
                 THEN [versions EXCEPT ![d] = [loading |-> conflicts[d]]] ELSE versions
  /\ UNCHANGED <<world, records, conflicts, loading, loadError, resolving, trouble, others, touched>>
Loading(d) == versions[d] # None /\ DOMAIN versions[d] = {"loading"}
(* The revision that the card names, if CouchDB still has it, and the file as it is on     *)
(* the branch by now; a side that cannot be had is null (0).                                *)
readDesignDocAtRev(d) == IF versions[d].loading.couch_rev \in kept[d] THEN versions[d].loading.couch_rev ELSE 0
readConflictGitVersion(d) == file[d]
getConflictVersions(d) ==
  /\ Loading(d)
  /\ \E lost \in SUBSET {"couch", "git"} :
       /\ lost # {} => trouble < MaxTrouble
       /\ trouble' = IF lost = {} THEN trouble ELSE trouble + 1
       /\ versions' = [versions EXCEPT ![d] =
            [couch |-> IF "couch" \in lost THEN 0 ELSE readDesignDocAtRev(d),
             git |-> IF "git" \in lost THEN 0 ELSE readConflictGitVersion(d)]]
  /\ UNCHANGED <<world, others, records, conflicts, loading, loadError, resolving, expandedId, touched>>

Next ==
  \/ load \/ LoadFails \/ Retry
  \/ \E d \in Docs :
       \/ Save(d) \/ Compact(d) \/ Commit(d) \/ writeConflict(d) \/ Sweep(d)
       \/ resolve(d) \/ ResolveReads(d) \/ resolveConflict(d) \/ ResolveFails(d)
       \/ toggleCompare(d) \/ getConflictVersions(d)

Spec == Init /\ [][Next]_vars

-------------------------------------------------------------------------------
(* A card is its record, acknowledged or not, as long as no sync or sweep elsewhere        *)
(* touches the record - and again after an answer about it, with others on their way.      *)
CardsAreTheRecords ==
  (~loading /\ ~loadError) => \A d \in Docs \ touched : conflicts[d] = records[d]

(* What a card calls acknowledged stays so until the two sides move: no answer of this     *)
(* screen takes an acknowledgement back.                                                    *)
AcknowledgementStaysStep ==
  \A d \in Docs :
    (/\ records[d] # None /\ records'[d] # None /\ records[d].resolved /\ ~records'[d].resolved)
      => <<couch[d], file[d]>> # <<records[d].couch_rev, records[d].git_sha>>
AcknowledgementStays == [][AcknowledgementStaysStep]_vars

(* "offered against a list that ... shows only revision/sha identifiers - this is what lets *)
(* someone actually see what they'd be resolving" (conflict-viewer.ts): the versions beside  *)
(* each other are those of the card.  They are not: the git side is the file of the moment,   *)
(* and the comparison stays when the card is replaced.                                        *)
ComparisonIsOfTheCard ==
  \A d \in Docs :
    (Card(d) /\ versions[d] # None /\ ~Loading(d)) =>
      /\ versions[d].couch \in {0, conflicts[d].couch_rev}
      /\ versions[d].git \in {0, conflicts[d].git_sha}

(* Acknowledging a card acknowledges the conflict on it.  It does not when a sync recorded  *)
(* another one after the list was loaded.                                                   *)
AcknowledgesTheCardStep ==
  \A d \in Docs :
    (resolving[d] # Idle /\ ~Getting(d) /\ resolving'[d] = Idle /\ records'[d] # records[d])
      => [records'[d] EXCEPT !.resolved = FALSE] = [conflicts[d] EXCEPT !.resolved = FALSE]
AcknowledgesTheCard == [][AcknowledgesTheCardStep]_vars
===============================================================================
