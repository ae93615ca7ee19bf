-------------------------------- MODULE Access --------------------------------
(* The access lists of a database (db-permissions.ts) and the two forms they are edited   *)
(* in: the permissions screen (manage-permissions.ts), which reads the lists and writes    *)
(* them back, and the creation form (db-create.ts), which creates the database and then    *)
(* writes them - two requests.  CouchDB decides who may (isDatabaseAdmin).                  *)
EXTENDS Naturals, Sequences, FiniteSets, SequencesExt

CONSTANTS
  Entries,       \* names and roles
  Admin,         \* the role _admin
  Me,            \* the user's name
  MyRoles,       \* and roles
  None,
  MaxEdits,      \* bound: texts typed and tags removed
  MaxWrites,     \* bound: updates sent
  MaxTrouble     \* bound: requests that fail

VARIABLES
  form,          \* the form that is open: "permissions", "create", or "away"
  admin,         \* the user is a server admin
  db,            \* in CouchDB: [exists, partitioned, access]
  access,        \* what the form shows: _databaseAccess, _access
  inputs, focus, \* the text in the field below each list, the list that has the focus
  load,          \* the read of _security: [phase, access]
  writes,        \* updates: [n, access, phase]
  name, partitioned, submitting, error, creation,   \* the creation form and its requests
  before, touched,  \* history: the lists at first, and those that were edited
  unread, asked, \* an update was sent before the read landed, what Create was pressed for
  edits, sent, trouble

vars == <<form, admin, db, access, inputs, focus, load, writes, name, partitioned, submitting,
          error, creation, before, touched, unread, asked, edits, sent, trouble>>
fields == <<access, inputs, focus, touched>>
creating == <<name, partitioned, submitting, error, creation, asked>>
updating == <<load, writes, unread, sent>>

Lists == {"admin", "member"} \X {"name", "roles"}
Nobody == [l \in Lists |-> <<>>]
Default == [l \in Lists |-> IF l[2] = "roles" THEN <<Admin>> ELSE <<>>]
Mine == [l \in Lists |-> IF l = <<"admin", "name">> THEN <<Me>> ELSE Default[l]]
Texts == Entries \union {"", " "}
trim(text) == IF text = " " THEN "" ELSE text

IsAccess(a) == DOMAIN a = Lists /\ \A l \in Lists : ToSet(a[l]) \subseteq Entries \union {Admin}

TypeOK ==
  /\ form \in {"permissions", "create", "away"} /\ admin \in BOOLEAN
  /\ db.exists \in BOOLEAN /\ IsAccess(db.access) /\ IsAccess(access)
  /\ \A l \in Lists : inputs[l] \in Texts
  /\ focus \in Lists \union {None} /\ load.phase \in {"none", "asked", "read", "landed", "failed"}
  /\ \A w \in writes : IsAccess(w.access) /\ w.phase \in {"sent", "done", "refused"}
  /\ name \in BOOLEAN /\ submitting \in BOOLEAN /\ creation.step \in {"none", "db", "security"}
  /\ edits \in 0..MaxEdits /\ sent \in 0..MaxWrites /\ trouble \in 0..MaxTrouble

Init ==
  /\ form \in {"permissions", "create"} /\ admin \in BOOLEAN
  /\ \E a \in {Default, Nobody, Mine} :
       \E there \in IF form = "create" THEN BOOLEAN ELSE {TRUE} :
         db = [exists |-> there, partitioned |-> FALSE, access |-> a]
  /\ access = (IF form = "create" THEN Default ELSE Nobody)
  /\ inputs = [l \in Lists |-> ""] /\ focus = None
  /\ load = [phase |-> IF form = "create" THEN "none" ELSE "asked", access |-> Nobody]
  /\ writes = {} /\ name = FALSE /\ partitioned = FALSE /\ submitting = FALSE /\ error = FALSE
  /\ creation = [step |-> "none"] /\ before = db.access /\ touched = {} /\ unread = FALSE
  /\ asked = None /\ edits = 0 /\ sent = 0 /\ trouble = 0

------------------------------------------------------------------------------
(* An entry that is blank or in the list already is not added, and its text stays. *)
_addItem(l) == trim(inputs[l]) # "" /\ trim(inputs[l]) \notin ToSet(access[l])
Added(l) == [access EXCEPT ![l] = Append(@, trim(inputs[l]))]

(* _handleBlur: whatever is clicked next, the field that loses the focus adds its text first. *)
Blurs == focus # None /\ _addItem(focus)
Blurred == IF Blurs THEN Added(focus) ELSE access
_handleBlur ==
  /\ focus' = None
  /\ inputs' = (IF Blurs THEN [inputs EXCEPT ![focus] = ""] ELSE inputs)

Focus(l) ==
  /\ form # "away" /\ focus # l
  /\ focus' = l /\ access' = Blurred
  /\ inputs' = (IF Blurs THEN [inputs EXCEPT ![focus] = ""] ELSE inputs)
  /\ touched' = touched \union (IF Blurs THEN {focus} ELSE {})
  /\ UNCHANGED <<form, admin, db, before, creating, updating, edits, trouble>>

Type(text) ==
  /\ form # "away" /\ focus # None /\ edits < MaxEdits /\ inputs[focus] # text
  /\ inputs' = [inputs EXCEPT ![focus] = text] /\ edits' = edits + 1
  /\ UNCHANGED <<form, admin, db, access, focus, before, touched, creating, updating, trouble>>

Enter ==
  /\ form # "away" /\ focus # None /\ Blurs
  /\ access' = Blurred /\ inputs' = [inputs EXCEPT ![focus] = ""]
  /\ touched' = touched \union {focus}
  /\ UNCHANGED <<form, admin, db, focus, before, creating, updating, edits, trouble>>

Backspace ==
  /\ form # "away" /\ focus # None /\ inputs[focus] = "" /\ access[focus] # <<>>
  /\ edits < MaxEdits /\ edits' = edits + 1
  /\ access' = [access EXCEPT ![focus] = Front(@)] /\ touched' = touched \union {focus}
  /\ UNCHANGED <<form, admin, db, inputs, focus, before, creating, updating, trouble>>

_removeItem(l, e) ==
  /\ form # "away" /\ edits < MaxEdits /\ edits' = edits + 1
  /\ e \in ToSet(access[l])
  /\ _handleBlur
  /\ access' = [Blurred EXCEPT ![l] = SelectSeq(@, LAMBDA f : f # e)]
  /\ touched' = touched \union {l} \union (IF Blurs THEN {focus} ELSE {})
  /\ UNCHANGED <<form, admin, db, before, creating, updating, trouble>>

------------------------------------------------------------------------------
(* The permissions screen: one read when it opens, whenever that lands. *)
Fail == trouble < MaxTrouble /\ trouble' = trouble + 1

isDatabaseAdmin(lists, username, roles) ==
  \/ username \in ToSet(lists[<<"admin", "name">>])
  \/ ToSet(lists[<<"admin", "roles">>]) \intersect roles # {}

SecurityRead ==
  /\ load.phase = "asked" /\ load' = [phase |-> "read", access |-> db.access]
  /\ UNCHANGED <<form, admin, db, before, fields, creating, writes, unread, sent, edits, trouble>>

_load ==
  /\ \/ /\ load.phase = "read" /\ load' = [load EXCEPT !.phase = "landed"]
        /\ access' = load.access /\ UNCHANGED trouble
     \/ /\ load.phase = "asked" /\ load' = [load EXCEPT !.phase = "failed"]
        /\ Fail /\ UNCHANGED access
  /\ UNCHANGED <<form, admin, db, inputs, focus, before, touched, creating, writes, unread, sent, edits>>

Update ==
  /\ form = "permissions" /\ sent < MaxWrites /\ sent' = sent + 1
  /\ _handleBlur /\ access' = Blurred /\ touched' = touched \union (IF Blurs THEN {focus} ELSE {})
  /\ writes' = writes \union {[n |-> sent + 1, access |-> Blurred, phase |-> "sent"]}
  /\ unread' = (unread \/ load.phase # "landed")
  /\ UNCHANGED <<form, admin, db, load, before, creating, edits, trouble>>

(* toSecurityDoc: CouchDB replaces all four lists, if the user may. *)
Written(w, phase) == (writes \ {w}) \union {[w EXCEPT !.phase = phase]}
updateDatabaseAccess(w) ==
  /\ w.phase = "sent"
  /\ \/ /\ admin \/ isDatabaseAdmin(db.access, Me, MyRoles)
        /\ db' = [db EXCEPT !.access = w.access] /\ writes' = Written(w, "done") /\ UNCHANGED trouble
     \/ /\ ~admin /\ ~isDatabaseAdmin(db.access, Me, MyRoles)
        /\ writes' = Written(w, "refused") /\ UNCHANGED <<db, trouble>>
     \/ Fail /\ writes' = Written(w, "refused") /\ UNCHANGED db
  /\ UNCHANGED <<form, admin, before, fields, creating, load, unread, sent, edits>>

_updateAccess(w) ==
  /\ w.phase # "sent" /\ writes' = writes \ {w}
  /\ access' = (IF w.phase = "done" THEN w.access ELSE access)
  /\ UNCHANGED <<form, admin, db, inputs, focus, before, touched, creating, load, unread, sent, edits,
                 trouble>>

------------------------------------------------------------------------------
(* The creation form. *)
TypeName ==
  /\ form = "create" /\ ~name /\ name' = TRUE
  /\ access' = Blurred /\ _handleBlur /\ touched' = touched \union (IF Blurs THEN {focus} ELSE {})
  /\ UNCHANGED <<form, admin, db, partitioned, submitting, error, creation, before, asked, updating, edits,
                 trouble>>

Partition ==
  /\ form = "create" /\ edits < MaxEdits /\ edits' = edits + 1 /\ partitioned' = ~partitioned
  /\ access' = Blurred /\ _handleBlur /\ touched' = touched \union (IF Blurs THEN {focus} ELSE {})
  /\ UNCHANGED <<form, admin, db, name, submitting, error, creation, before, asked, updating, trouble>>

_handleCreate ==
  /\ form = "create" /\ name /\ ~submitting /\ sent < MaxWrites /\ sent' = sent + 1
  /\ access' = Blurred /\ _handleBlur /\ touched' = touched \union (IF Blurs THEN {focus} ELSE {})
  /\ submitting' = TRUE /\ error' = FALSE
  /\ creation' = [step |-> "db", partitioned |-> partitioned, access |-> Blurred]
  /\ asked' = [partitioned |-> partitioned, access |-> Blurred]
  /\ UNCHANGED <<form, admin, db, name, partitioned, load, writes, before, unread, edits, trouble>>

(* Refused, or its answer lost on the way: in the second case CouchDB did it all the same. *)
Stopped ==
  /\ submitting' = FALSE /\ error' = TRUE /\ creation' = [step |-> "none"]
  /\ UNCHANGED form
Made(c) == [exists |-> TRUE, partitioned |-> c.partitioned, access |-> Default]

createDatabase ==
  /\ \/ /\ creation.step = "db" /\ admin /\ ~db.exists
        /\ db' = Made(creation) /\ creation' = [creation EXCEPT !.step = "security"]
        /\ UNCHANGED <<form, submitting, error, trouble>>
     \/ /\ creation.step = "security" /\ db' = [db EXCEPT !.access = creation.access]
        /\ creation' = [step |-> "none"] /\ submitting' = FALSE /\ form' = "away"
        /\ UNCHANGED <<error, trouble>>
     \/ /\ creation.step = "db" /\ (~admin \/ db.exists)
        /\ Stopped /\ UNCHANGED <<db, trouble>>
     \/ /\ creation.step # "none" /\ Fail /\ Stopped
        /\ db' \in {db} \union (IF creation.step = "security" THEN {[db EXCEPT !.access = creation.access]}
                                ELSE IF admin /\ ~db.exists THEN {Made(creation)} ELSE {})
  /\ UNCHANGED <<admin, before, fields, name, partitioned, asked, updating, edits>>

(* Cancel, Back: the form goes, its requests do not. *)
Leave ==
  /\ form # "away" /\ form' = "away" /\ focus' = None
  /\ UNCHANGED <<admin, db, access, inputs, before, touched, creating, updating, edits, trouble>>

------------------------------------------------------------------------------
Next ==
  \/ \E l \in Lists : Focus(l) \/ \E e \in ToSet(access[l]) : _removeItem(l, e)
  \/ \E text \in Texts : Type(text)
  \/ Enter \/ Backspace \/ SecurityRead \/ _load \/ Update
  \/ \E w \in writes : updateDatabaseAccess(w) \/ _updateAccess(w)
  \/ TypeName \/ Partition \/ _handleCreate \/ createDatabase \/ Leave

Spec == Init /\ [][Next]_vars

------------------------------------------------------------------------------
Once(list) == Cardinality(ToSet(list)) = Len(list)

(* db-permissions.ts: a list names nobody twice, on the form or in CouchDB. *)
EntriesOnce ==
  \A l \in Lists : Once(access[l]) /\ Once(db.access[l])

(* manage-permissions.ts: as long as no update is sent before the lists were read, the    *)
(* lists nobody edited stay as they were in CouchDB - whatever is sent at the same time,    *)
(* and in whichever order that arrives.                                                      *)
UntouchedStays ==
  (load.phase # "none" /\ ~unread) => \A l \in Lists \ touched : db.access[l] = before[l]

(* What is still in the field that has the focus when Update or Create is pressed goes     *)
(* with the request.                                                                         *)
NothingTypedIsLeftStep ==
  (sent' > sent /\ focus # None /\ trim(inputs[focus]) # "") =>
    LET request == IF form = "create" THEN creation' ELSE CHOOSE w \in writes' : w.n = sent'
    IN  trim(inputs[focus]) \in ToSet(request.access[focus])
NothingTypedIsLeft == [][NothingTypedIsLeftStep]_vars

(* db-create.ts: the form says that the database was created when it has the lists and     *)
(* the partitioning that Create was pressed for, whatever was edited since.                  *)
CreatedAsAskedStep ==
  (submitting /\ ~submitting' /\ ~error') =>
    /\ db'.exists /\ db'.access = asked.access /\ db'.partitioned = asked.partitioned
CreatedAsAsked == [][CreatedAsAskedStep]_vars
===============================================================================
