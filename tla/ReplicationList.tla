----------------------------- MODULE ReplicationList -----------------------------
(* The list of replications (plugins/replication/repl-list.ts): the documents of       *)
(* _replicator joined with the scheduler's jobs by ReplicationService.listReplications  *)
(* (services/replication-service.ts), searched as one types, and deleted one at a time.  *)
EXTENDS Naturals, FiniteSets

CONSTANTS
  Ids,           \* replication documents
  Filters,       \* what one searches for
  MatchOf,       \* filter |-> the documents whose id or endpoints hold it
  States,        \* what the scheduler says of a job
  None,
  MaxLoads,      \* bound: reads of the list
  MaxOthers,     \* bound: replications that others store, delete or drive on
  MaxTrouble     \* bound: requests that fail

VARIABLES
  stored,        \* id |-> [rev, live]: a document stored anew has another revision
  jobs,          \* id |-> [rev, state] of the scheduler's entry, or None
  filterValue,
  debounce,      \* whether a keystroke waits out its 250 ms
  replications,  \* the rows: id |-> [rev, state], or None
  loading,
  loadSeq,
  loads,         \* the reads under way: [seq, filter, docs, jobs]
  _confirmDelete,\* the row whose deletion is asked for, or None
  deletion,      \* the deletion under way: [id, rev: the revision it read, or None], or None
  others, trouble,
  answered,      \* history: the filter of the last read that was put on the screen
  moved          \* history: read |-> the documents that changed since it began

vars == <<stored, jobs, filterValue, debounce, replications, loading, loadSeq, loads,
          _confirmDelete, deletion, others, trouble, answered, moved>>
server == <<stored, jobs>>
shown == <<replications, answered>>

Wanted(f) == IF f = None THEN Ids ELSE MatchOf[f]
There == {i \in Ids : stored[i].live}
Row == [rev : Nat, state : States \union {None}]
TypeOK ==
  /\ \A i \in Ids : stored[i].rev \in Nat /\ stored[i].live \in BOOLEAN
  /\ replications \in [Ids -> Row \union {None}]
  /\ filterValue \in Filters \union {None} /\ debounce \in BOOLEAN /\ loading \in BOOLEAN
  /\ loadSeq \in 0..MaxLoads /\ {l.seq : l \in loads} \subseteq 1..loadSeq
  /\ _confirmDelete \in Ids \union {None} /\ trouble \in 0..MaxTrouble /\ others \in 0..MaxOthers

(* load: a new read, which makes every older one out of date. *)
Load(seq) == [seq |-> seq, filter |-> filterValue', docs |-> None, jobs |-> None]
Init ==
  /\ stored = [i \in Ids |-> [rev |-> 1, live |-> TRUE]] /\ jobs = [i \in Ids |-> None]
  /\ filterValue = None /\ debounce = FALSE /\ replications = [i \in Ids |-> None]
  /\ loading = TRUE /\ loadSeq = 1
  /\ loads = {[seq |-> 1, filter |-> None, docs |-> None, jobs |-> None]}
  /\ _confirmDelete = None /\ deletion = None /\ others = 0 /\ trouble = 0
  /\ answered = None /\ moved = [n \in 1..MaxLoads |-> {}]
load ==
  /\ loadSeq < MaxLoads /\ loadSeq' = loadSeq + 1 /\ loading' = TRUE
  /\ loads' = loads \union {Load(loadSeq + 1)}
Moved(i) == moved' = [n \in DOMAIN moved |-> IF n \in {l.seq : l \in loads} THEN moved[n] \union {i} ELSE moved[n]]

-------------------------------------------------------------------------------
(* Others: a replication is stored, edited or deleted, and the scheduler follows.   *)

Elsewhere(i) ==
  /\ others < MaxOthers /\ others' = others + 1
  /\ \E live \in BOOLEAN :
       /\ live \/ stored[i].live
       /\ stored' = [stored EXCEPT ![i] = [rev |-> stored[i].rev + 1, live |-> live]]
  /\ Moved(i)
  /\ UNCHANGED <<jobs, filterValue, debounce, shown, loading, loadSeq, loads, _confirmDelete,
                 deletion, trouble>>
Scheduled(i) ==
  /\ jobs[i] # None \/ stored[i].live
  /\ others < MaxOthers /\ others' = others + 1
  /\ \E job \in IF stored[i].live THEN {[rev |-> stored[i].rev, state |-> s] : s \in States} ELSE {None} :
       job # jobs[i] /\ jobs' = [jobs EXCEPT ![i] = job]
  /\ Moved(i)
  /\ UNCHANGED <<stored, filterValue, debounce, shown, loading, loadSeq, loads, _confirmDelete,
                 deletion, trouble>>

-------------------------------------------------------------------------------
(* The search.                                                                      *)

Type(f) ==
  /\ f # filterValue /\ filterValue' = f /\ debounce' = TRUE
  /\ UNCHANGED <<server, shown, loading, loadSeq, loads, _confirmDelete, deletion, others, trouble, moved>>
_scheduleSearch ==
  /\ debounce /\ debounce' = FALSE /\ UNCHANGED filterValue /\ load
  /\ UNCHANGED <<server, shown, _confirmDelete, deletion, others, trouble, moved>>
(* The clear button reads at once, and drops the keystroke's read. *)
_reloadNow ==
  /\ filterValue # None /\ filterValue' = None /\ debounce' = FALSE /\ load
  /\ UNCHANGED <<server, shown, _confirmDelete, deletion, others, trouble, moved>>

(* The two requests of listReplications; the scheduler's may fail without failing it.  *)
Swap(l, m) == loads' = (loads \ {l}) \union {m}
DocsServed(l) ==
  /\ l \in loads /\ l.docs = None
  /\ Swap(l, [l EXCEPT !.docs = [i \in Ids |-> IF stored[i].live THEN stored[i].rev ELSE 0]])
  /\ UNCHANGED <<server, filterValue, debounce, shown, loading, loadSeq, _confirmDelete, deletion,
                 others, trouble, moved>>
SchedulerServed(l) ==
  /\ l \in loads /\ l.jobs = None
  /\ \/ Swap(l, [l EXCEPT !.jobs = jobs]) /\ UNCHANGED trouble
     \/ /\ trouble < MaxTrouble /\ trouble' = trouble + 1
        /\ Swap(l, [l EXCEPT !.jobs = [i \in Ids |-> None]])
  /\ UNCHANGED <<server, filterValue, debounce, shown, loading, loadSeq, _confirmDelete, deletion,
                 others, moved>>

(* annotate, and the filter: a row for each document that matches, with the state that the  *)
(* scheduler has for its id.                                                                *)
listReplications(l) ==
  [i \in Ids |-> IF l.docs[i] # 0 /\ i \in Wanted(l.filter)
                 THEN [rev |-> l.docs[i], state |-> IF l.jobs[i] = None THEN None ELSE l.jobs[i].state]
                 ELSE None]
Latest(l) == l.seq = loadSeq
Landed(l) ==
  /\ l \in loads /\ l.docs # None /\ l.jobs # None /\ loads' = loads \ {l}
  /\ IF Latest(l)
     THEN replications' = listReplications(l) /\ answered' = l.filter /\ loading' = FALSE
     ELSE UNCHANGED <<shown, loading>>
  /\ UNCHANGED <<server, filterValue, debounce, loadSeq, _confirmDelete, deletion, others, trouble, moved>>
(* A failed read leaves the rows that are there. *)
LoadFails(l) ==
  /\ l \in loads /\ l.docs = None /\ trouble < MaxTrouble /\ trouble' = trouble + 1
  /\ loads' = loads \ {l} /\ loading' = (IF Latest(l) THEN FALSE ELSE loading)
  /\ UNCHANGED <<server, filterValue, debounce, shown, loadSeq, _confirmDelete, deletion, others, moved>>

-------------------------------------------------------------------------------
(* A deletion.                                                                      *)

AskDelete(i) ==
  /\ replications[i] # None /\ _confirmDelete = None /\ _confirmDelete' = i
  /\ UNCHANGED <<server, filterValue, debounce, shown, loading, loadSeq, loads, deletion, others,
                 trouble, moved>>
(* Cancel closes the dialog also while the deletion is under way. *)
CancelDelete ==
  /\ _confirmDelete # None /\ _confirmDelete' = None
  /\ UNCHANGED <<server, filterValue, debounce, shown, loading, loadSeq, loads, deletion, others,
                 trouble, moved>>
_doDelete ==
  /\ _confirmDelete # None /\ deletion = None /\ deletion' = [id |-> _confirmDelete, rev |-> None]
  /\ UNCHANGED <<server, filterValue, debounce, shown, loading, loadSeq, loads, _confirmDelete,
                 others, trouble, moved>>
(* deleteReplication: the document's revision of now, then the deletion of that. *)
DeleteReads ==
  /\ deletion # None /\ deletion.rev = None /\ stored[deletion.id].live
  /\ deletion' = [deletion EXCEPT !.rev = stored[deletion.id].rev]
  /\ UNCHANGED <<server, filterValue, debounce, shown, loading, loadSeq, loads, _confirmDelete,
                 others, trouble, moved>>
Current == stored[deletion.id].live /\ deletion.rev = stored[deletion.id].rev
deleteReplication ==
  /\ deletion # None /\ deletion.rev # None /\ Current
  /\ stored' = [stored EXCEPT ![deletion.id] = [rev |-> deletion.rev + 1, live |-> FALSE]]
  /\ deletion' = None /\ _confirmDelete' = None /\ UNCHANGED filterValue /\ load
  /\ Moved(deletion.id)
  /\ UNCHANGED <<jobs, debounce, shown, others, trouble>>
DeleteFails ==
  /\ deletion # None /\ deletion' = None /\ _confirmDelete' = None
  /\ \/ deletion.rev = None /\ ~stored[deletion.id].live /\ UNCHANGED trouble
     \/ deletion.rev # None /\ ~Current /\ UNCHANGED trouble
     \/ trouble < MaxTrouble /\ trouble' = trouble + 1
  /\ UNCHANGED <<server, filterValue, debounce, shown, loading, loadSeq, loads, others, moved>>

Next ==
  \/ \E i \in Ids : Elsewhere(i) \/ Scheduled(i) \/ AskDelete(i)
  \/ \E f \in Filters : Type(f)
  \/ _scheduleSearch \/ _reloadNow \/ CancelDelete \/ _doDelete \/ DeleteReads \/ deleteReplication
  \/ DeleteFails
  \/ \E l \in loads : DocsServed(l) \/ SchedulerServed(l) \/ Landed(l) \/ LoadFails(l)

Spec == Init /\ [][Next]_vars

-------------------------------------------------------------------------------
(* Once nothing is under way, the rows are those the search box asks for, unless the last    *)
(* read failed; and the table says it is loading exactly as long as the latest read is.       *)
SettledListIsTheSearch ==
  /\ loading <=> \E l \in loads : Latest(l)
  /\ (~loading /\ ~debounce /\ trouble = 0) => answered = filterValue
  /\ \A i \in Ids : replications[i] # None => i \in Wanted(answered)

(* A row that is put on the screen is a replication of the server, whose state is that of   *)
(* its own job, unless it changed while the list was read.                                   *)
RowsAreReplicationsStep ==
  \A i \in Ids, l \in loads :
    (loads' = loads \ {l} /\ replications' # replications /\ i \notin moved[l.seq] /\ i \in Wanted(l.filter)) =>
      /\ (replications'[i] # None) = stored[i].live
      /\ replications'[i] # None =>
           /\ replications'[i].rev = stored[i].rev
           /\ replications'[i].state \in {None} \union {jobs[j].state : j \in {k \in {i} : jobs[k] # None}}
RowsAreReplications == [][RowsAreReplicationsStep]_vars

(* "Delete this replication?" deletes the one on the row.  It reads the revision at the     *)
(* time of the deletion, and so takes a replication that was edited or stored anew since.   *)
DeletesTheRowStep ==
  (deletion # None /\ stored'[deletion.id] # stored[deletion.id] /\ deletion' = None)
    => replications[deletion.id] = None \/ replications[deletion.id].rev = stored[deletion.id].rev
DeletesTheRow == [][DeletesTheRowStep]_vars

(* The dialog of one replication stays open until it is answered: not so when Cancel left   *)
(* the deletion of another under way, whose answer closes it.                                *)
DialogStaysStep ==
  (_confirmDelete # None /\ _confirmDelete' = None /\ deletion # None /\ deletion' = None)
    => deletion.id = _confirmDelete
DialogStays == [][DialogStaysStep]_vars
===============================================================================
