----------------------------- MODULE QueryHistory -----------------------------
(* The saved queries of the Mango screen (plugins/db-mgmt/query_history.ts): one    *)
(* document of the queried database holds them all, newest first.  A save reads it,   *)
(* puts the query in front, and writes it back under a revision it asks for           *)
(* afterwards; a rename writes the list of this screen; a deletion takes one entry    *)
(* from the document as it is.  Other tabs write the same document.                   *)
EXTENDS Naturals, FiniteSets, SequencesExt

CONSTANTS
  Queries,       \* queries that differ in selector, fields, sort or scope
  HISTORY_MAX,   \* 20 in the code
  MaxIds,        \* bound: ids handed out
  MaxOps,        \* bound: calls under way
  MaxTrouble     \* bound: requests that fail

VARIABLES
  exists, entries,  \* the history document
  history,       \* this screen's list
  ops,           \* saves, renames and deletions under way
  spinning,      \* _loading
  ids,           \* ids handed out
  trouble,
  dated          \* history: see Store

vars == <<exists, entries, history, ops, spinning, ids, trouble, dated>>

Titles == {"default", "given"}
Entry == [id : 1..MaxIds, query : Queries, title : Titles]
IdsOf(list) == {list[n].id : n \in DOMAIN list}
QueriesOf(list) == {list[n].query : n \in DOMAIN list}
Without(list, id) == SelectSeq(list, LAMBDA e : e.id # id)
Newest(list) == SubSeq(list, 1, IF Len(list) < HISTORY_MAX THEN Len(list) ELSE HISTORY_MAX)
OpShape ==
  [kind : {"mount", "save", "rename", "delete"}, pc : {"load", "rev", "put"}, entry : Entry,
   list : Seq(Entry), seen : BOOLEAN, rev : BOOLEAN]
(* An operation's `list` and `rev` are of the document as it is now (seen, rev), until *)
(* somebody writes it.                                                                  *)
Op(kind, pc, e, list) ==
  [kind |-> kind, pc |-> pc, entry |-> e, list |-> list, seen |-> FALSE, rev |-> FALSE]
Outdated(os) == {[o EXCEPT !.seen = FALSE, !.rev = FALSE] : o \in os}

TypeOK ==
  /\ exists \in BOOLEAN /\ entries \in Seq(Entry) /\ history \in Seq(Entry)
  /\ \A o \in ops : o \in OpShape
  /\ spinning \in BOOLEAN /\ ids \in 0..MaxIds /\ trouble \in 0..MaxTrouble /\ dated \in BOOLEAN

Fresh(q) == [id |-> ids + 1, query |-> q, title |-> "default"]
Some == [id |-> 1, query |-> CHOOSE q \in Queries : TRUE, title |-> "default"]
Init ==
  /\ \/ exists = FALSE /\ entries = <<>>
     \/ exists = TRUE /\ entries = <<[Some EXCEPT !.title = "given"]>>
  /\ ids = 1 /\ history = <<>> /\ spinning = FALSE /\ trouble = 0 /\ dated = FALSE
  /\ ops = {Op("mount", "load", Some, <<>>)}

Room == Cardinality(ops) < MaxOps
Begin(o) == Room /\ ops' = ops \union {o}
Becomes(o, next) == ops' = (ops \ {o}) \union {next}
Finish(o) == ops' = ops \ {o}
Trouble == trouble < MaxTrouble /\ trouble' = trouble + 1

-------------------------------------------------------------------------------
(* The user, and the query screen, which saves each query that ran.                *)

SaveHistory(q) ==
  /\ ids < MaxIds /\ ids' = ids + 1 /\ Begin(Op("save", "load", Fresh(q), <<>>))
  /\ UNCHANGED <<exists, entries, history, spinning, trouble, dated>>
(* A rename writes the list as it is now; a second name for an entry is left out. *)
Rename(e) ==
  LET named == [n \in DOMAIN history |->
                 IF history[n].id = e.id THEN [history[n] EXCEPT !.title = "given"] ELSE history[n]]
  IN /\ e.title = "default" /\ history' = named /\ Begin(Op("rename", "rev", e, Newest(named)))
     /\ UNCHANGED <<exists, entries, spinning, ids, trouble, dated>>
Delete(e) ==
  /\ history' = Without(history, e.id) /\ spinning' = TRUE /\ Begin(Op("delete", "load", e, <<>>))
  /\ UNCHANGED <<exists, entries, ids, trouble, dated>>

-------------------------------------------------------------------------------
(* loadHistory, and its failure, which is an empty list.                           *)

Saved(o, all) ==
  LET same  == SelectSeq(all, LAMBDA e : e.query = o.entry.query)
      first == IF same = <<>> THEN o.entry
               ELSE [o.entry EXCEPT !.id = same[1].id, !.title = same[1].title]
  IN Newest(<<first>> \o SelectSeq(all, LAMBDA e : e.query # o.entry.query))
Loaded(o, all) ==
  CASE o.kind = "mount" -> history' = all /\ Finish(o)
    [] o.kind = "save" ->
         /\ history' = Saved(o, all)
         /\ Becomes(o, [o EXCEPT !.pc = "rev", !.list = Saved(o, all), !.seen = TRUE])

Load(o) ==
  /\ o.pc = "load" /\ o.kind # "delete" /\ Loaded(o, entries)
  /\ UNCHANGED <<exists, entries, spinning, ids, trouble, dated>>
LoadFails(o) ==
  /\ o.pc = "load" /\ o.kind # "delete" /\ Trouble /\ Loaded(o, <<>>) /\ dated' = TRUE
  /\ UNCHANGED <<exists, entries, spinning, ids>>

-------------------------------------------------------------------------------
(* _persistHistoryToBackendForContext, of the list it was called with: the revision  *)
(* of now, then the write; failures are swallowed.                                   *)

ReadRev(o) ==
  /\ o.pc = "rev" /\ Becomes(o, [o EXCEPT !.pc = "put", !.rev = TRUE])
  /\ UNCHANGED <<exists, entries, history, spinning, ids, trouble, dated>>

(* removeHistoryEntryFromBackend: the entries of the document, without that one.  A   *)
(* failed request leaves the spinner on; a document that is not there does not.        *)
ReadForDelete(o) ==
  /\ o.kind = "delete" /\ o.pc = "load"
  /\ IF ~exists THEN Finish(o) /\ spinning' = FALSE
     ELSE /\ Becomes(o, [o EXCEPT !.pc = "put", !.rev = TRUE, !.seen = TRUE, !.list = Without(entries, o.entry.id)])
          /\ UNCHANGED spinning
  /\ UNCHANGED <<exists, entries, history, ids, trouble, dated>>

(* CouchDB takes a write under the current revision only.  `dated`: a list was written *)
(* that is older than what it replaced.                                                *)
Store(o) ==
  /\ o.pc = "put" /\ o.rev /\ exists' = TRUE /\ entries' = o.list /\ ops' = Outdated(ops \ {o})
  /\ spinning' = (spinning /\ o.kind # "delete")
  /\ dated' = (dated \/ ~o.seen \/ o.kind = "rename")
  /\ UNCHANGED <<history, ids, trouble>>
Refused(o) ==
  /\ o.pc = "put" /\ ~o.rev /\ Finish(o)
  /\ UNCHANGED <<exists, entries, history, spinning, ids, trouble, dated>>
Fails(o) ==
  /\ (o.pc \in {"rev", "put"} \/ o.kind = "delete") /\ Trouble /\ Finish(o)
  /\ UNCHANGED <<exists, entries, history, spinning, ids, dated>>

(* Another tab saved a query: it is in front, and no other entry is of its query.       *)
OtherTab ==
  /\ ids < MaxIds /\ ids' = ids + 1 /\ exists' = TRUE /\ ops' = Outdated(ops)
  /\ \E q \in Queries : entries' = Saved([entry |-> Fresh(q)], entries)
  /\ UNCHANGED <<history, spinning, trouble, dated>>

Next ==
  \/ \E q \in Queries : SaveHistory(q)
  \/ \E n \in DOMAIN history : Rename(history[n]) \/ Delete(history[n])
  \/ \E o \in ops : Load(o) \/ LoadFails(o) \/ ReadRev(o) \/ ReadForDelete(o) \/ Store(o) \/ Refused(o) \/ Fails(o)
  \/ OtherTab

Spec == Init /\ [][Next]_vars

-------------------------------------------------------------------------------
(* No list names a query twice, or has two entries that one deletion or rename would   *)
(* take for each other, and none grows past its limit.                                   *)
EachQueryOnce ==
  \A list \in {entries, history} :
    /\ Cardinality(QueriesOf(list)) = Len(list) /\ Cardinality(IdsOf(list)) = Len(list)
    /\ Len(list) <= HISTORY_MAX

(* An entry leaves the document when it was deleted, or as the oldest of a full list;   *)
(* and the name a user gave it stays with it: as long as no list was written that was    *)
(* older than the document.                                                               *)
NothingForgottenStep ==
  ~dated' =>
    \A n \in DOMAIN entries :
      \/ \E m \in DOMAIN entries' : entries'[m].id = entries[n].id
                                    /\ (entries[n].title = "given" => entries'[m].title = "given")
      \/ Len(entries') = HISTORY_MAX /\ n = Len(entries) /\ entries'[1].id # entries[n].id
      \/ \E o \in ops : o.kind = "delete" /\ o.entry.id = entries[n].id
NothingForgotten == [][NothingForgottenStep]_vars
===============================================================================
