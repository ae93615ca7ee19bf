--------------------------------- MODULE Users ---------------------------------
(* The users of CouchDB: the list (plugins/users/cca-users-list.ts), which is read   *)
(* page by page and deletes by the revision it shows, and the form of one user with  *)
(* its Source tab and its password dialog (cca-user-detail.ts, users-doc.ts,          *)
(* cca-roles-picker.ts, services/users-service.ts).                                   *)
EXTENDS Naturals, SequencesExt

CONSTANTS
  MaxId,         \* user ids are 1..MaxId, in the order CouchDB lists them
  Roles, Passwords,
  Mask,          \* what the Source tab shows instead of a password
  USERS_PAGE_LIMIT,
  None,
  MaxRevs,       \* bound: revisions of one user
  MaxEdits,      \* bound: changes typed on one visit of the form
  MaxOthers      \* bound: users that somebody else changes, adds or removes

VARIABLES
  users,         \* the _users database: id |-> [rev, live, roles, pass]; a deleted user keeps a revision
  screen,        \* the list, or the id that is edited or created
  listed,        \* _users: a sequence of [id, rev]
  scan,          \* the list's request under way: the first key to read and the rows so far
  asked,         \* the deletion asked for, or None
  deletion,      \* the DELETE under way, [id, rev, here], or None
  form,          \* the form: see Blank
  raw,           \* the text of the Source tab, None on the Form tab
  put,           \* the PUT under way, or None
  edits, others,
  steady         \* history: the users that were there all along since the scan began

vars == <<users, screen, listed, scan, asked, deletion, form, raw, put, edits, others, steady>>
listScreen == <<listed, scan, asked, deletion>>
detail == <<form, raw, put, edits>>

Ids == 1..MaxId
List == 0
There == {i \in Ids : users[i].live}
Some == CHOOSE p \in Passwords : TRUE

(* The form: whether it creates, the document it was loaded from, its roles, the two     *)
(* password fields of a new user, the staged password of another, _loading.              *)
Blank(create) ==
  [create |-> create, original |-> None, roles |-> {}, pw |-> None, pw2 |-> None,
   staged |-> None, loading |-> ~create]

Secret == Passwords \union {None, Mask}
User == [rev : Nat, live : BOOLEAN, roles : SUBSET Roles, pass : Secret]
TypeOK ==
  /\ users \in [Ids -> User]
  /\ screen \in Ids \union {List} /\ \A n \in DOMAIN listed : listed[n].id \in Ids
  /\ asked \in Ids \union {None} /\ form.roles \subseteq Roles
  /\ {form.pw, form.pw2, form.staged} \subseteq Passwords \union {None}
  /\ (raw # None => raw.password \in Secret /\ raw.roles \subseteq Roles)
  /\ edits \in 0..MaxEdits /\ others \in 0..MaxOthers /\ steady \subseteq Ids

Nobody == [rev |-> 0, live |-> FALSE, roles |-> {}, pass |-> None]
Another == [rev |-> 1, live |-> TRUE, roles |-> {}, pass |-> Some]
Scanning == [from |-> 1, rows |-> <<>>]
Init ==
  /\ \E S \in SUBSET (1..MaxId - 1) :
       users = [i \in Ids |-> IF i \in S THEN Another ELSE Nobody]
  /\ screen = List /\ listed = <<>> /\ scan = Scanning /\ asked = None /\ deletion = None
  /\ form = Blank(TRUE) /\ raw = None /\ put = None /\ edits = 0 /\ others = 0 /\ steady = There

-------------------------------------------------------------------------------
(* Somebody else.                                                                 *)

Elsewhere(i) ==
  /\ others < MaxOthers /\ others' = others + 1
  /\ \E u \in IF users[i].live THEN {[users[i] EXCEPT !.roles = r] : r \in SUBSET Roles} \union {Nobody}
                               ELSE {Another} :
       users' = [users EXCEPT ![i] = [u EXCEPT !.rev = users[i].rev + 1]]
  /\ steady' = steady \ {i}
  /\ UNCHANGED <<screen, listScreen, detail>>

-------------------------------------------------------------------------------
(* The list.  A page ends with the key of the row after it; a short page, or one without *)
(* such a row, is the last.                                                              *)

Page(from) ==
  LET rest == SetToSortSeq({i \in There : i >= from}, <)
  IN SubSeq(rest, 1, IF Len(rest) <= USERS_PAGE_LIMIT + 1 THEN Len(rest) ELSE USERS_PAGE_LIMIT + 1)
Rows(page) ==
  LET some == SubSeq(page, 1, IF Len(page) < USERS_PAGE_LIMIT THEN Len(page) ELSE USERS_PAGE_LIMIT)
  IN [n \in DOMAIN some |-> [id |-> some[n], rev |-> users[some[n]].rev]]
NextKey(page) == page[USERS_PAGE_LIMIT + 1]

ReadPage ==
  LET page == Page(scan.from)
      rows == scan.rows \o Rows(page)
  IN /\ scan # None
     /\ IF Len(page) > USERS_PAGE_LIMIT /\ NextKey(page) # scan.from
        THEN scan' = [from |-> NextKey(page), rows |-> rows] /\ UNCHANGED listed
        ELSE scan' = None /\ listed' = rows
     /\ UNCHANGED <<users, screen, asked, deletion, detail, others, steady>>
LoadFails ==
  /\ scan # None /\ scan' = None /\ steady' = {}
  /\ UNCHANGED <<users, screen, listed, asked, deletion, detail, others>>

Shown == screen = List /\ asked = None
AskDelete(i) ==
  /\ Shown /\ scan = None /\ asked' = i
  /\ UNCHANGED <<users, screen, listed, scan, deletion, detail, others, steady>>
CancelDelete ==
  /\ asked # None /\ asked' = None
  /\ UNCHANGED <<users, screen, listed, scan, deletion, detail, others, steady>>
(* The revision is that of the list by the time of the click. *)
RevOf(i) == LET at == SelectSeq(listed, LAMBDA u : u.id = i) IN IF at = <<>> THEN None ELSE at[1].rev
ConfirmDelete ==
  /\ asked # None /\ deletion = None /\ put = None /\ asked' = None
  /\ deletion' = [id |-> asked, rev |-> RevOf(asked), here |-> TRUE]
  /\ UNCHANGED <<users, screen, listed, scan, detail, others, steady>>
(* A list that was left meanwhile (~here) is not read again. *)
Current(d) == users[d.id].live /\ users[d.id].rev = d.rev
Deleted ==
  /\ deletion # None /\ deletion' = None
  /\ Current(deletion)
  /\ users' = [users EXCEPT ![deletion.id] = [Nobody EXCEPT !.rev = deletion.rev + 1]]
  /\ IF deletion.here THEN scan' = Scanning /\ steady' = There'
                      ELSE scan' = scan /\ steady' = steady \ {deletion.id}
  /\ UNCHANGED <<screen, listed, asked, detail, others>>
NotDeleted ==
  /\ deletion # None /\ deletion' = None
  /\ ~Current(deletion)
  /\ UNCHANGED <<users, screen, listed, scan, asked, detail, others, steady>>

-------------------------------------------------------------------------------
(* The form.                                                                          *)

Visit(i, create) ==
  /\ screen' = i /\ form' = Blank(create) /\ raw' = None /\ edits' = 0
  /\ listed' = <<>> /\ scan' = None /\ asked' = None /\ steady' = {}
  /\ deletion' = IF deletion = None THEN None ELSE [deletion EXCEPT !.here = FALSE]
OpenUser(i) ==
  /\ Shown /\ Visit(i, FALSE) /\ UNCHANGED <<users, put, others>>
NewUser(i) ==
  /\ Shown /\ Visit(i, TRUE) /\ UNCHANGED <<users, put, others>>
Land ==
  /\ screen # List /\ form.loading
  /\ form' = IF ~users[screen].live THEN [form EXCEPT !.loading = FALSE]
             ELSE [form EXCEPT !.loading = FALSE, !.original = users[screen], !.roles = users[screen].roles]
  /\ UNCHANGED <<users, screen, listScreen, raw, put, edits, others, steady>>
LandFails ==
  /\ screen # List /\ form.loading /\ form' = [form EXCEPT !.loading = FALSE]
  /\ UNCHANGED <<users, screen, listScreen, raw, put, edits, others, steady>>

Edit == screen # List /\ ~form.loading /\ edits < MaxEdits /\ edits' = edits + 1
OnForm == raw = None /\ Edit /\ UNCHANGED <<users, screen, listScreen, raw, put, others, steady>>
Toggle(r) ==
  /\ OnForm /\ form' = [form EXCEPT !.roles = IF r \in @ THEN @ \ {r} ELSE @ \union {r}]
TypePassword ==
  /\ OnForm /\ form.create
  /\ \E p, q \in Passwords \union {None} : form' = [form EXCEPT !.pw = p, !.pw2 = q]
(* The dialog of another user's password, which asks for it twice. *)
StagePassword ==
  /\ OnForm /\ ~form.create /\ \E p \in Passwords : form' = [form EXCEPT !.staged = p]

(* buildCreateDoc, buildUpdateDoc: the document that the form submits.  One that could    *)
(* not be loaded has no _id (id is FALSE), and CouchDB refuses it.                         *)
Staged == IF form.create THEN form.pw ELSE form.staged
SubmitDoc ==
  [id |-> form.create \/ form.original # None, roles |-> form.roles, password |-> Staged,
   rev |-> IF form.original = None THEN None ELSE form.original.rev]
maskDocForPreview(d) == [d EXCEPT !.password = IF @ = None THEN None ELSE Mask]
ShowSource ==
  /\ screen # List /\ ~form.loading /\ raw = None /\ raw' = maskDocForPreview(SubmitDoc)
  /\ UNCHANGED <<users, screen, listScreen, form, put, edits, others, steady>>
ShowForm ==
  /\ raw # None /\ raw' = None
  /\ UNCHANGED <<users, screen, listScreen, form, put, edits, others, steady>>
EditSource ==
  /\ raw # None /\ Edit
  /\ \/ \E p \in Secret \ {raw.password} : raw' = [raw EXCEPT !.password = p]
     \/ \E r \in (SUBSET Roles) \ {raw.roles} : raw' = [raw EXCEPT !.roles = r]
  /\ UNCHANGED <<users, screen, listScreen, form, put, others, steady>>

(* A masked password is the one that is known, or none.                                    *)
Unmask(d) == IF d.password = Mask THEN [d EXCEPT !.password = Staged] ELSE d
Valid == ~form.create \/ (form.pw # None /\ form.pw = form.pw2)
Save ==
  /\ screen # List /\ ~form.loading /\ put = None /\ deletion = None /\ (raw = None => Valid)
  /\ users[screen].rev < MaxRevs
  /\ (raw # None /\ ~form.create => raw.id)
  /\ put' = [id |-> screen, doc |-> IF raw = None THEN SubmitDoc ELSE Unmask(raw)]
  /\ UNCHANGED <<users, screen, listScreen, form, raw, edits, others, steady>>
Leave ==
  /\ screen' = List /\ listed' = <<>> /\ scan' = Scanning /\ asked' = None
  /\ form' = Blank(TRUE) /\ raw' = None /\ edits' = 0
Cancel ==
  /\ screen # List /\ Leave /\ steady' = There /\ UNCHANGED <<users, deletion, put, others>>

(* PUT /_users/{id}: without a password, the user keeps the hash in the document.  The    *)
(* answer opens the list, wherever the user is by then.                                    *)
Accepts(p) ==
  /\ p.doc.id
  /\ p.doc.rev = IF users[p.id].live THEN users[p.id].rev ELSE None
After(p) ==
  [rev |-> users[p.id].rev + 1, live |-> TRUE, roles |-> p.doc.roles,
   pass |-> IF p.doc.password = None THEN users[p.id].pass ELSE p.doc.password]
Saved ==
  /\ put # None /\ Accepts(put) /\ users' = [users EXCEPT ![put.id] = After(put)]
  /\ put' = None /\ Leave /\ steady' = There'
  /\ UNCHANGED <<deletion, others>>
(* Refused, or the network lost the request or, with the document stored, its answer. *)
SaveFails ==
  /\ put # None /\ put' = None
  /\ users' = users \/ (Accepts(put) /\ users' = [users EXCEPT ![put.id] = After(put)])
  /\ UNCHANGED <<screen, listScreen, form, raw, edits, others, steady>>

Next ==
  \/ \E i \in Ids : Elsewhere(i) \/ OpenUser(i) \/ NewUser(i)
  \/ \E n \in DOMAIN listed : AskDelete(listed[n].id)
  \/ ReadPage \/ LoadFails \/ CancelDelete \/ ConfirmDelete \/ Deleted \/ NotDeleted
  \/ Land \/ LandFails \/ (\E r \in Roles : Toggle(r)) \/ TypePassword \/ StagePassword
  \/ ShowSource \/ ShowForm \/ EditSource \/ Save \/ Cancel \/ Saved \/ SaveFails

Spec == Init /\ [][Next]_vars

-------------------------------------------------------------------------------
(* A user who was there, unchanged, all the while the list was read is on it, once, and   *)
(* nobody is on it twice.                                                                 *)
EveryUserOnce ==
  (scan = None /\ screen = List /\ listed # <<>>) =>
    /\ \A i \in steady : Cardinality({n \in DOMAIN listed : listed[n].id = i}) = 1
    /\ \A m, n \in DOMAIN listed : m < n => listed[m].id < listed[n].id

(* A save replaces the revision that its form was loaded from; it stores the password its  *)
(* author typed, or leaves the stored one alone, and never stores the mask that stands for   *)
(* a password on the Source tab.                                                             *)
SecretsStayStep ==
  \A i \in Ids :
    (put # None /\ put' = None /\ users'[i] # users[i]) =>
       /\ users[i].live => users[i].rev = put.doc.rev
       /\ users'[i].pass # Mask
       /\ put.doc.password = None => users'[i].pass = users[i].pass
SecretsStay == [][SecretsStayStep]_vars
===============================================================================
