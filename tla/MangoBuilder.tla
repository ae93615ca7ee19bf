----------------------------- MODULE MangoBuilder -----------------------------
(* The builder of Mango selectors (components/cca-mango.ts) and its two hosts: the     *)
(* query screen (plugins/db-mgmt/doc-query.ts), whose query it is, and the selector      *)
(* section of a replication (plugins/replication/repl-selector-section.ts), where it is  *)
(* a dialog whose result is applied to the textarea of the form.                          *)
(* Every edit emits a query; the host keeps it as text and hands it back, and unless it   *)
(* has been told otherwise the builder is read anew from what it emitted.  Edit is that   *)
(* whole round: nothing else runs between an event and the renders it causes.             *)
EXTENDS Naturals, SequencesExt

CONSTANTS
  Fields, Texts,  \* what is typed as a condition's field and value
  Typed,          \* parseValue: what the selector holds for a text
  Values,         \* the values a document's field may have
  Snapshots,      \* the selectors the query history offers
  Hosts,          \* "query", "replication"
  MaxEdits,       \* bound: edits in the builder
  MaxConditions,  \* bound: conditions of a group; groups are nested once
  None

VARIABLES
  host, open,     \* which host; its dialog is open (the query screen has none)
  root,           \* _rootGroup
  asked,          \* history: the group as the last edit left it
  query,          \* what the host holds: [selector, sort], or None
  sorts,          \* _sortFields: fields, "" while blank
  frozen,         \* _isUpdatingQuery
  snapped,        \* history: a snapshot was applied, and no edit since
  shown, saved,   \* the section's textarea; the selector repl-editor.ts will save
  edits

vars == <<host, open, root, asked, query, sorts, frozen, snapped, shown, saved, edits>>

Combine == {"$and", "$or", "$nor"}
Compare == {"$eq", "$ne"}
Blank == [field |-> "", op |-> "$eq", value |-> ""]
Group(op, conditions, groups) == [op |-> op, conditions |-> conditions, groups |-> groups]
Everything == [op |-> "{}"]
Leaf(c) == [op |-> "leaf", field |-> c.field, is |-> c.op,
            value |-> IF c.value = "" THEN "" ELSE Typed[c.value]]

RECURSIVE GroupToSelector(_)
GroupToSelector(g) ==
  LET items == [n \in 1..Len(g.conditions) |-> Leaf(g.conditions[n])]
                 \o [n \in 1..Len(g.groups) |-> GroupToSelector(g.groups[n])]
  IN CASE items = <<>> -> Everything
       [] Len(items) = 1 /\ g.groups = <<>> -> items[1]
       [] OTHER -> [op |-> g.op, items |-> items]

\* A value comes back typed: String() of it is what the condition's input shows.
Read(leaf) == [field |-> leaf.field, op |-> leaf.is,
               value |-> IF leaf.value = "" THEN ""
                         ELSE CHOOSE t \in Texts : Typed[t] = leaf.value]

RECURSIVE ParseGroup(_)
ParseGroup(s) ==
  Group(s.op,
        LET leaves == SelectSeq(s.items, LAMBDA i : i.op = "leaf")
        IN [n \in 1..Len(leaves) |-> Read(leaves[n])],
        LET inner == SelectSeq(s.items, LAMBDA i : i.op \in Combine)
        IN [n \in 1..Len(inner) |-> ParseGroup(inner[n])])

ParseQueryToGroup(s) ==
  CASE s.op \in Combine -> ParseGroup(s)
    [] s.op = "leaf" -> Group("$and", <<Read(s)>>, <<>>)
    [] OTHER -> Group("$and", <<>>, <<>>)

Selector == IF query = None THEN Everything ELSE query.selector
SortOf(fields) == SelectSeq(fields, LAMBDA f : f # "")

-------------------------------------------------------------------------------
(* What a selector, and a group on the screen, selects. *)

Documents == [Fields -> Values]
Fits(d, field, is, value) ==
  field \in Fields /\ (IF is = "$eq" THEN d[field] = value ELSE d[field] # value)
Joined(op, parts) ==
  CASE op = "$and" -> {d \in Documents : \A p \in Range(parts) : d \in p}
    [] op = "$or" -> {d \in Documents : \E p \in Range(parts) : d \in p}
    [] OTHER -> {d \in Documents : \A p \in Range(parts) : d \notin p}

RECURSIVE Selects(_)
Selects(s) ==
  CASE s.op = "{}" -> Documents
    [] s.op = "leaf" -> {d \in Documents : Fits(d, s.field, s.is, s.value)}
    [] OTHER -> Joined(s.op, [n \in 1..Len(s.items) |-> Selects(s.items[n])])

RECURSIVE Says(_)
Says(g) ==
  IF g.conditions = <<>> /\ g.groups = <<>> THEN Documents
  ELSE Joined(g.op, [n \in 1..Len(g.conditions) |-> Selects(Leaf(g.conditions[n]))]
                      \o [n \in 1..Len(g.groups) |-> Says(g.groups[n])])

\* A `none of' with one condition: it is emitted as that condition.
RECURSIVE LoneNor(_)
LoneNor(g) ==
  \/ g.op = "$nor" /\ Len(g.conditions) = 1 /\ g.groups = <<>>
  \/ \E n \in 1..Len(g.groups) : LoneNor(g.groups[n])

\* A group emptied by hand: it is emitted as {}, and dropped when that is read.
Emptied(s) == s.op \in Combine /\ \E n \in 1..Len(s.items) :
                s.items[n].op = "{}" \/ (s.items[n].op \in Combine /\ s.items[n].items = <<Everything>>)

-------------------------------------------------------------------------------
NoSelector == Everything

Init ==
  /\ host \in Hosts /\ open = (host = "query")
  /\ root = ParseQueryToGroup(Everything) /\ asked = root
  /\ query = (IF host = "query" THEN [selector |-> Everything, sort |-> <<>>] ELSE None)
  /\ sorts = <<>> /\ frozen = FALSE /\ snapped = FALSE
  /\ shown = NoSelector /\ saved = NoSelector /\ edits = 0

\* _updateQuery with the group and sort fields as they are now, and the round it starts.
Emit(g, fields) ==
  LET selector == GroupToSelector(g)
  IN /\ open /\ edits < MaxEdits /\ edits' = edits + 1
     /\ asked' = g /\ sorts' = fields
     /\ query' = [selector |-> selector, sort |-> SortOf(fields)]
     /\ root' = IF frozen THEN g ELSE ParseQueryToGroup(selector)
     /\ snapped' = FALSE
     /\ UNCHANGED <<host, open, frozen, shown, saved>>

\* The groups on the screen: the outermost one, 0, and those in it.
Places == 0..Len(root.groups)
At(p) == IF p = 0 THEN root ELSE root.groups[p]
With(p, g) == IF p = 0 THEN g ELSE [root EXCEPT !.groups[p] = g]

AddCondition(p) ==
  /\ Len(At(p).conditions) < MaxConditions
  /\ Emit(With(p, [At(p) EXCEPT !.conditions = Append(@, Blank)]), sorts)

AddGroup ==
  /\ root.groups = <<>>
  /\ Emit([root EXCEPT !.groups = Append(@, Group("$and", <<Blank>>, <<>>))], sorts)

\* Only conditions have a bin; a group empties but stays.
RemoveCondition(p) ==
  \E n \in 1..Len(At(p).conditions) :
    Emit(With(p, [At(p) EXCEPT !.conditions = RemoveAt(@, n)]), sorts)

UpdateCondition(p) ==
  \E n \in 1..Len(At(p).conditions) :
    \E c \in {[At(p).conditions[n] EXCEPT !.field = f] : f \in Fields}
               \union {[At(p).conditions[n] EXCEPT !.op = o] : o \in Compare}
               \union {[At(p).conditions[n] EXCEPT !.value = t] : t \in Texts} :
      /\ c # At(p).conditions[n]
      /\ Emit(With(p, [At(p) EXCEPT !.conditions[n] = c]), sorts)

ChangeGroupOperator(p) ==
  \E o \in Combine \ {At(p).op} : Emit(With(p, [At(p) EXCEPT !.op = o]), sorts)

\* The sort panel: on the query screen only.
AddSortField == host = "query" /\ Len(sorts) < 2 /\ Emit(root, Append(sorts, ""))
RemoveSortField ==
  host = "query" /\ \E n \in 1..Len(sorts) : Emit(root, RemoveAt(sorts, n))
UpdateSortField ==
  /\ host = "query"
  /\ \E n \in 1..Len(sorts) : \E f \in Fields \ {sorts[n]} : Emit(root, [sorts EXCEPT ![n] = f])

\* A query of the history: the host takes it, then the builder is read from it, and from
\* then on never again from what it emits.
ApplySnapshot ==
  /\ open
  /\ \E s \in Snapshots :
       /\ query' = [selector |-> s, sort |-> <<>>]
       /\ root' = ParseQueryToGroup(s) /\ asked' = root'
  /\ frozen' = TRUE /\ snapped' = TRUE
  /\ UNCHANGED <<host, open, sorts, shown, saved, edits>>

\* The dialog of the replication form: a builder of its own each time it opens.
OpenMangoEditor ==
  /\ host = "replication" /\ ~open /\ open' = TRUE
  /\ root' = ParseQueryToGroup(Selector) /\ asked' = root'
  /\ sorts' = <<>> /\ frozen' = FALSE
  /\ UNCHANGED <<host, query, snapped, shown, saved, edits>>

CloseMangoEditor ==
  /\ host = "replication" /\ open /\ open' = FALSE
  /\ UNCHANGED <<host, root, asked, query, sorts, frozen, snapped, shown, saved, edits>>

\* With nothing built, JSON.parse("") throws and the dialog stays.
ApplySelector ==
  /\ host = "replication" /\ open /\ query # None
  /\ shown' = query.selector /\ open' = FALSE
  /\ UNCHANGED <<host, root, asked, query, sorts, frozen, snapped, saved, edits>>

\* The textarea reports every keystroke; the form binds it back.
TypeSelector ==
  /\ host = "replication" /\ ~open
  /\ \E s \in Snapshots \union {Everything} :
       s # shown /\ shown' = s /\ saved' = s
  /\ UNCHANGED <<host, open, root, asked, query, sorts, frozen, snapped, edits>>

Next ==
  \/ \E p \in Places :
       AddCondition(p) \/ RemoveCondition(p) \/ UpdateCondition(p) \/ ChangeGroupOperator(p)
  \/ AddGroup \/ AddSortField \/ RemoveSortField \/ UpdateSortField
  \/ ApplySnapshot \/ OpenMangoEditor \/ CloseMangoEditor \/ ApplySelector \/ TypeSelector

Spec == Init /\ [][Next]_vars

-------------------------------------------------------------------------------
TypeOK ==
  /\ host \in Hosts /\ open \in BOOLEAN /\ frozen \in BOOLEAN /\ snapped \in BOOLEAN
  /\ root.op \in Combine /\ asked.op \in Combine /\ (query # None => query.sort \in Seq(Fields))
  /\ sorts \in Seq(Fields \union {""}) /\ edits \in 0..MaxEdits

(* What runs is what was built: the query the host holds selects the documents that    *)
(* the conditions, as the last edit left them, ask for - also when it came from the       *)
(* history or from another opening of the dialog.  A `none of' with one condition is the   *)
(* exception: see NorMeansNone.                                                            *)
QueryMeansTheEdit ==
  open /\ ~LoneNor(asked) /\ ~Emptied(Selector) => Says(asked) = Selects(Selector)

(* cca-mango.ts, `sync: builder <-> JSON': the conditions on the screen say what the   *)
(* query is, however often it went to the host and back.  A group emptied by hand is the *)
(* exception: it is dropped from the screen, not from the query.                          *)
BuilderShowsTheQuery ==
  open /\ ~LoneNor(root) /\ ~Emptied(Selector) => Says(root) = Selects(Selector)

(* The sort of the query is that of the panel, until a snapshot sets one aside. *)
SortIsThePanels ==
  host = "query" /\ ~snapped => query.sort = SortOf(sorts)

(* docs/walkthrough/04-queries.md: conditions are joined by $and, $or or $nor - however *)
(* many they are.                                                                          *)
NorMeansNone == open /\ ~Emptied(Selector) => Says(asked) = Selects(Selector)

(* repl-selector-section.ts: the selector that was applied is the one that is saved. *)
AppliedSelectorIsSaved == shown = saved
===============================================================================
