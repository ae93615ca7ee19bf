----------------------------- MODULE IndexManager -----------------------------
(* The Mango indexes of a database (plugins/db-mgmt/index-manage.ts, index-list.ts, *)
(* create-index.ts, db-mgmt-service.ts): the list, its pages and ticks; the form and  *)
(* its Source tab; the preview that a Create or a Remove/Create confirms; and the      *)
(* deletion of the old index once the new one is there.  An index is named by a design *)
(* document and a name; the screen keeps what is ticked, and what is edited, by the    *)
(* design document alone.                                                              *)
EXTENDS Naturals, FiniteSets, SequencesExt

CONSTANTS
  Keys,          \* <<ddoc, name>>, numbers: the listing is in their order
  Defs, Initial, \* field lists and filters; those of the indexes that are there first
  MaxLoads,      \* bound: loads under way
  MaxEdits,      \* bound: changes typed in the form, the Source tab and the preview
  None

VARIABLES
  indexes,       \* CouchDB: <<ddoc, name>> |-> definition
  list, loads, loading,        \* _indexes, loads under way, _loading
  ticked, edited,              \* _selectedIndexes, _editingIndexDdoc
  editing,                     \* index-manage's _isEditingIndex
  form, offered,               \* the form (None: blank), _showDeleteCreateIndex
  source,                      \* the text of the Source tab, None on the Form tab
  preview,                     \* [remove, request], or None
  creating,                    \* [remove, request] on its way, or None
  deletion,                    \* a deletion under way, or None
  edits,
  clicked, crossed             \* history: the index last clicked; see ClickIndex

vars == <<indexes, list, loads, loading, ticked, edited, editing, form, offered, source,
          preview, creating, deletion, edits, clicked, crossed>>
listing == <<list, loads, loading, ticked, edited>>
dialog == <<form, offered, source, preview>>

Ddocs == {k[1] : k \in Keys}
Requests == [key : Keys, def : Defs]
There == {k \in Keys : indexes[k] # None}
Before(k, l) == k[1] < l[1] \/ (k[1] = l[1] /\ k[2] < l[2])
Listing == LET keys == SetToSortSeq(There, Before)
           IN [i \in DOMAIN keys |-> [key |-> keys[i], def |-> indexes[keys[i]]]]
ListedKeys == [i \in DOMAIN list |-> list[i].key]
Listed == ToSet(ListedKeys)

TypeOK ==
  /\ indexes \in [Keys -> Defs \union {None}] /\ list \in Seq(Requests)
  /\ loads \in 0..MaxLoads /\ loading \in BOOLEAN /\ ticked \subseteq Ddocs
  /\ edited \in Ddocs \union {None} /\ editing \in BOOLEAN /\ offered \in BOOLEAN
  /\ form \in Requests \union {None} /\ source \in Requests \union {None}
  /\ preview \in [remove : BOOLEAN, request : Requests] \union {None}
  /\ creating \in [remove : BOOLEAN, request : Requests] \union {None}
  /\ (deletion # None => deletion.left \in Seq(Keys))

Init ==
  /\ \E some \in SUBSET Keys : \E d \in Initial :
       some # {} /\ indexes = [k \in Keys |-> IF k \in some THEN d ELSE None]
  /\ list = <<>> /\ loads = 1 /\ loading = TRUE /\ ticked = {} /\ edited = None
  /\ editing = FALSE /\ form = None /\ offered = FALSE /\ source = None /\ preview = None
  /\ creating = None /\ deletion = None /\ edits = 0
  /\ clicked = None /\ crossed = FALSE

Edit == edits < MaxEdits /\ edits' = edits + 1

-------------------------------------------------------------------------------
(* The list, of which the pages are left out.  _load shows whichever answer lands.   *)

Load == loads < MaxLoads /\ loads' = loads + 1 /\ loading' = TRUE
Answered == loads > 0 /\ loads' = loads - 1 /\ loading' = FALSE
Land ==
  /\ Answered /\ list' = Listing
  /\ UNCHANGED <<indexes, ticked, edited, editing, dialog, creating, deletion, edits, clicked, crossed>>
LoadFails ==
  /\ Answered
  /\ UNCHANGED <<indexes, list, ticked, edited, editing, dialog, creating, deletion, edits, clicked, crossed>>

ToggleSelectIndex(k) ==
  /\ preview = None /\ ~loading
  /\ ticked' = IF k[1] \in ticked THEN ticked \ {k[1]} ELSE ticked \union {k[1]}
  /\ UNCHANGED <<indexes, list, loads, loading, edited, editing, dialog, creating, deletion, edits, clicked, crossed>>
ToggleSelectAll(on) ==
  /\ preview = None /\ ticked' = IF on THEN ticked \union {k[1] : k \in Listed} ELSE {}
  /\ UNCHANGED <<indexes, list, loads, loading, edited, editing, dialog, creating, deletion, edits, clicked, crossed>>

(* A click on a name edits the first index of its design document.  `crossed`: the      *)
(* edit cannot replace just that index, or a create of another form is on its way.      *)
FirstOf(ddoc) == SelectSeq(list, LAMBDA q : q.key[1] = ddoc)[1]
ClickIndex(k) ==
  /\ preview = None /\ ~loading
  /\ edited' = k[1] /\ editing' = TRUE /\ offered' = TRUE /\ source' = None
  /\ form' = FirstOf(k[1])
  /\ clicked' = k
  /\ crossed' = (creating # None \/ deletion # None \/ \E l \in (There \union Listed) \ {k} : l[1] = k[1])
  /\ UNCHANGED <<indexes, list, loads, loading, ticked, preview, creating, deletion, edits>>

-------------------------------------------------------------------------------
(* The form, its Source tab - a snapshot of the form, submitted instead of it - and    *)
(* the preview.                                                                        *)

Free == preview = None
(* One field of a request typed over; a blank form is filled. *)
Near(q) ==
  IF q = None THEN Requests ELSE {p \in Requests \ {q} : p.key = q.key \/ p.def = q.def}
FillForm ==
  /\ Free /\ source = None /\ Edit /\ form' \in Near(form)
  /\ UNCHANGED <<indexes, listing, editing, offered, source, preview, creating, deletion, clicked, crossed>>
ShowSource ==
  /\ Free /\ source = None /\ form # None /\ source' = form
  /\ UNCHANGED <<indexes, listing, editing, form, offered, preview, creating, deletion, edits, clicked, crossed>>
ShowForm ==
  /\ Free /\ source # None /\ source' = None
  /\ UNCHANGED <<indexes, listing, editing, form, offered, preview, creating, deletion, edits, clicked, crossed>>
EditSource ==
  /\ Free /\ source # None /\ Edit /\ source' \in Near(source)
  /\ UNCHANGED <<indexes, listing, editing, form, offered, preview, creating, deletion, clicked, crossed>>
OpenPreview(remove) ==
  /\ Free /\ creating = None /\ (form # None \/ source # None) /\ (remove => offered)
  /\ preview' = [remove |-> remove, request |-> IF source # None THEN source ELSE form]
  /\ UNCHANGED <<indexes, listing, editing, form, offered, source, creating, deletion, edits, clicked, crossed>>
EditPreview ==
  /\ preview # None /\ Edit /\ \E q \in Near(preview.request) : preview' = [preview EXCEPT !.request = q]
  /\ UNCHANGED <<indexes, listing, editing, form, offered, source, creating, deletion, clicked, crossed>>
CancelPreview ==
  /\ preview # None /\ preview' = None
  /\ UNCHANGED <<indexes, listing, editing, form, offered, source, creating, deletion, edits, clicked, crossed>>
(* `crossed`: nothing was clicked since the form was reset, or the request is for the    *)
(* very index that is to be removed.                                                     *)
ConfirmPreview ==
  /\ preview # None /\ preview' = None /\ creating' = preview
  /\ crossed' = (crossed \/ (preview.remove /\ (clicked \in {None, preview.request.key} \/ indexes[preview.request.key] # None)))
  /\ UNCHANGED <<indexes, listing, editing, form, offered, source, deletion, edits, clicked>>

-------------------------------------------------------------------------------
(* POST /{db}/_index.  One that is there as asked for `exists`; one of the same name     *)
(* and design document is replaced.                                                      *)

ResetForm == form' = None /\ source' = None
Offered == offered' = (offered /\ ~creating.remove)
Exists ==
  /\ creating # None /\ indexes[creating.request.key] = creating.request.def
  /\ ResetForm /\ Offered /\ creating' = None
  /\ UNCHANGED <<indexes, listing, editing, preview, deletion, edits, clicked, crossed>>
CreateFails ==
  /\ creating # None /\ Offered /\ creating' = None
  /\ UNCHANGED <<indexes, listing, editing, form, source, preview, deletion, edits, clicked, crossed>>
(* The new index is there; _onIndexCreated refreshes, or goes on to remove the index      *)
(* that the list holds as edited - if it is on the list.                                   *)
Created ==
  LET k    == creating.request.key
      olds == SelectSeq(ListedKeys, LAMBDA l : l[1] = edited)
  IN /\ creating # None /\ indexes[k] # creating.request.def
     /\ indexes' = [indexes EXCEPT ![k] = creating.request.def]
     /\ ResetForm /\ Offered /\ creating' = None
     /\ clicked' = None
     /\ IF editing /\ creating.remove
        THEN IF edited # None /\ olds # <<>>
             THEN /\ deletion = None /\ ticked' = {edited} /\ loading' = TRUE
                  /\ deletion' = [left |-> <<olds[1]>>, made |-> k, was |-> clicked]
                  /\ UNCHANGED <<loads, edited, editing>>
             ELSE edited' = None /\ editing' = FALSE /\ Load /\ UNCHANGED <<ticked, deletion>>
        ELSE Load /\ UNCHANGED <<ticked, deletion, edited, editing>>
     /\ UNCHANGED <<list, preview, edits, crossed>>

(* The Delete button: what is ticked and listed, one request after the other.         *)
DeleteTicked ==
  /\ Free /\ ticked # {} /\ deletion = None /\ loading' = TRUE
  /\ deletion' = [left |-> SelectSeq(ListedKeys, LAMBDA k : k[1] \in ticked), made |-> None, was |-> None]
  /\ UNCHANGED <<indexes, list, loads, ticked, edited, editing, dialog, creating, edits, clicked, crossed>>
DeleteNext ==
  /\ deletion # None /\ deletion.left # <<>> /\ indexes[deletion.left[1]] # None
  /\ indexes' = [indexes EXCEPT ![deletion.left[1]] = None]
  /\ deletion' = [deletion EXCEPT !.left = Tail(deletion.left)]
  /\ UNCHANGED <<listing, editing, dialog, creating, edits, clicked, crossed>>
DeleteDone ==
  /\ deletion # None /\ deletion.left = <<>> /\ deletion' = None /\ ticked' = {} /\ Load
  /\ IF deletion.made # None THEN edited' = None /\ editing' = FALSE ELSE UNCHANGED <<edited, editing>>
  /\ UNCHANGED <<indexes, list, dialog, creating, edits, clicked, crossed>>
(* An index that is gone, or a request that fails, ends it. *)
DeleteFails ==
  /\ deletion # None /\ deletion.left # <<>> /\ deletion' = None
  /\ IF deletion.made # None THEN editing' = FALSE /\ Load
                             ELSE loading' = FALSE /\ UNCHANGED <<editing, loads>>
  /\ UNCHANGED <<indexes, list, ticked, edited, dialog, creating, edits, clicked, crossed>>

Next ==
  \/ Land \/ LoadFails
  \/ \E k \in Listed : ToggleSelectIndex(k) \/ ClickIndex(k)
  \/ \E on \in BOOLEAN : ToggleSelectAll(on) \/ OpenPreview(on)
  \/ FillForm \/ ShowSource \/ ShowForm \/ EditSource \/ EditPreview \/ CancelPreview \/ ConfirmPreview
  \/ Exists \/ CreateFails \/ Created
  \/ DeleteTicked \/ DeleteNext \/ DeleteDone \/ DeleteFails

Spec == Init /\ [][Next]_vars

-------------------------------------------------------------------------------
(* Remove/Create replaces the index that was clicked by the one that was confirmed, and  *)
(* takes no other - unless something else was clicked while it ran, nothing was, the     *)
(* index shares its design document, or the new one has the name of one that is there.   *)
EditReplacesStep ==
  (deletion # None /\ deletion' # None /\ deletion' # deletion /\ deletion.made # None /\ ~crossed) =>
     deletion.left[1] = deletion.was /\ deletion.made \in There'
EditReplaces == [][EditReplacesStep]_vars

(* index-list.ts: "Click to edit (creates new index and deletes old one)".               *)
EditKeepsTheNewIndexStep ==
  (deletion # None /\ deletion.made # None /\ deletion.made \in There) => deletion.made \in There'
EditKeepsTheNewIndex == [][EditKeepsTheNewIndexStep]_vars
===============================================================================
