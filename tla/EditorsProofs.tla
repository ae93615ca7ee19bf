---------------------------- MODULE EditorsProofs ----------------------------
(***************************************************************************)
(* Safety of the screens that edit, each for any values of its constants:   *)
(* a save touches what its author saw, and what a form says is true.  Every  *)
(* screen is an instance of its module; they share the declarations below,   *)
(* as they share a tab.                                                      *)
(***************************************************************************)
EXTENDS Integers, FiniteSetTheorems, FunctionTheorems, TLAPS

CONSTANTS
  Names, Bodies, Default, None, MaxRevs, MaxTrouble, New, MaxEdits, MaxSaves, Kinds, Hosts,
  Dbs, MaxOthers, Values, Accounts, Repos, AccountOf, OwnerOf, Branches, DefaultBranch,
  Paths, Root, MaxLoads, MaxPicks, Entries, Admin, Me, MyRoles, MaxWrites, Servers,
  Secrets, Ddocs, FiltersOf, Origins, Edited, Stored, MaxSends, Texts, Reaches, Clients,
  Claims

VARIABLES
  doc, revs, screen, buffer, loaded, loadedRev, listed, dirty, loading, op, dialog, saving,
  unread, trouble, stored, ddoc, fresh, name, tab, raw, broken, failed, canWrite, mayWrite,
  saves, quick, testing, edits, known, midway, overtaken, mode, form, loads, missing,
  verifying, others, link, repoId, repoAccountId, open, manage, loadingAccounts,
  showAccountForm, account, repos, owner, repo, loadingRepos, branches, current, pending,
  prompt, picked, crossed, picks, admin, db, access, inputs, focus, load, writes,
  partitioned, submitting, error, creation, before, touched, asked, sent, serverUrl, auth,
  panel, draftRow, typed, browser, picker, filterFn, requests, config, header, nodes,
  shown, reads, jobs, clock, newest, lost, wrote, route, reach, applied, live, idp,
  editing, draft, job, reg, blocked, confirm, alone

----------------------------------------------------------------------------
(* The document editor: any attachments and bodies, typing, loads, uploads, saves and other *)
(* people's changes in any order.                                                           *)

D == INSTANCE DocEditor

\* A new document has a body; the bounds are numbers.
DocConstants == Default \in Bodies /\ MaxRevs \in Nat \ {0} /\ MaxTrouble \in Nat

\* A text is no newer than the document, and has its attachments when it has its revision.
DocTextOk(t) == t.rev <= revs /\ (doc # None /\ t.rev = doc.rev => t.atts = doc.atts)

DocTextsOk ==
  /\ doc # None => doc.rev = revs
  /\ DocTextOk(buffer) /\ DocTextOk(loaded) /\ (saving # None => DocTextOk(saving))

\* A panel that was read at the current revision lists what the document has.
DocPanelOk ==
  /\ loadedRev <= revs
  /\ doc # None /\ loadedRev = doc.rev /\ ~unread /\ op.kind # "reload" =>
       listed = {n \in Names : D!Has(doc, n)}
  /\ dialog # None => op.kind = "none" /\ loadedRev # 0

\* Until its read-back an attachment change is the only request, and at the current revision
\* it goes to a name that is free or that the dialog asked about.
DocChangeOk ==
  /\ op.rev <= revs
  /\ op.kind \in {"upload", "remove"} => op.name \in Names /\ loadedRev # 0
  /\ loading = "asked" => op.kind = "reload" \/ (op.kind = "none" /\ loadedRev = 0)
  /\ op.kind = "upload" /\ ~op.asked /\ ~unread /\ doc # None /\ op.rev = doc.rev =>
       ~D!Has(doc, op.name)

DocInv == D!TypeOK /\ D!DirtyIsTrue /\ DocTextsOk /\ DocPanelOk /\ DocChangeOk

\* A new revision makes every text, the panel and a change under way old.
LEMMA DocNewer ==
  ASSUME DocInv, revs < MaxRevs, revs' = revs + 1,
         doc' = None \/ (doc' \in D!Text /\ doc'.rev = revs + 1),
         UNCHANGED <<buffer, loaded, loadedRev, listed, dirty, dialog, unread>>
  PROVE  /\ saving' \in {saving, None} => DocTextsOk'
         /\ op' = op => DocPanelOk'
         /\ UNCHANGED <<op, loading>> => DocChangeOk'
<1>1. /\ revs \in Nat /\ buffer.rev \in Nat /\ loaded.rev \in Nat /\ loadedRev \in Nat /\ op.rev \in Nat
      /\ saving # None => saving.rev \in Nat
  BY DEF DocInv, D!TypeOK, D!Text
<1>2. saving' \in {saving, None} => DocTextsOk'
  BY <1>1 DEF DocInv, DocTextsOk, DocTextOk
<1>3. op' = op => DocPanelOk'
  BY <1>1 DEF DocInv, DocPanelOk
<1>4. UNCHANGED <<op, loading>> => DocChangeOk'
  BY <1>1 DEF DocInv, DocChangeOk
<1> QED
  BY <1>2, <1>3, <1>4

\* Without one, what is not touched stays as it was.
LEMMA DocKept ==
  ASSUME DocInv, UNCHANGED <<doc, revs>>
  PROVE  /\ UNCHANGED <<buffer, loaded, saving>> => DocTextsOk'
         /\ UNCHANGED <<loadedRev, listed, op, dialog, unread>> => DocPanelOk'
         /\ UNCHANGED <<loadedRev, op, loading, unread>> => DocChangeOk'
         /\ UNCHANGED <<buffer, loaded, dirty>> => D!DirtyIsTrue'
BY DEF DocInv, DocTextsOk, DocTextOk, DocPanelOk, DocChangeOk, D!Has, D!DirtyIsTrue

\* An answer, and what is typed.
LEMMA DocReading ==
  ASSUME DocConstants, DocInv, D!Loaded \/ D!Type
  PROVE  DocInv'
<1>1. CASE D!Loaded
  <2>1. UNCHANGED <<doc, revs, screen, dialog, saving>> /\ op' = D!NoOp /\ loading' = "none" /\ loading = "asked"
    BY <1>1 DEF D!Loaded, D!Server
  <2>2. op' = [kind |-> "none", name |-> None, rev |-> 0, asked |-> FALSE]
    BY <2>1 DEF D!NoOp
  <2>3. CASE doc # None /\ D!Shows(doc) /\ unread' = FALSE /\ D!Fine
    <3>1. /\ buffer' = doc /\ loaded' = doc /\ loadedRev' = doc.rev /\ listed' = {n \in Names : D!Has(doc, n)}
          /\ dirty' = FALSE /\ unread' = FALSE /\ trouble' = trouble
      BY <2>3 DEF D!Shows, D!Cleared, D!Fine
    <3>2. doc \in D!Text /\ doc.rev \in Nat /\ doc.rev = revs /\ doc # None
      BY <2>3 DEF DocInv, D!TypeOK, D!Text, DocTextsOk
    <3>3. D!TypeOK'
      <4>1. dirty' \in BOOLEAN /\ unread' \in BOOLEAN /\ listed' \subseteq Names /\ loadedRev' \in Nat
        BY <3>1, <3>2
      <4>2. buffer' \in D!Text /\ loaded' \in D!Text /\ trouble' \in 0 .. MaxTrouble
        BY <3>1, <3>2 DEF DocInv, D!TypeOK
      <4> QED
        BY <2>1, <2>2, <4>1, <4>2 DEF DocInv, D!TypeOK
    <3>4. DocTextsOk'
      BY <2>1, <3>1, <3>2 DEF DocInv, DocTextsOk, DocTextOk
    <3>5. DocPanelOk'
      BY <2>1, <2>2, <3>1, <3>2 DEF DocInv, DocPanelOk, D!TypeOK, DocChangeOk, D!Has
    <3>6. DocChangeOk'
      BY <2>1, <2>2, <3>1, <3>2 DEF DocInv, D!TypeOK, DocChangeOk
    <3> QED
      BY <3>1, <3>3, <3>4, <3>5, <3>6 DEF DocInv, D!DirtyIsTrue
  <2>4. CASE /\ UNCHANGED D!Editor /\ unread' = (op.kind = "reload")
             /\ D!Trouble \/ D!Fine
    <3>1. UNCHANGED <<buffer, loaded, loadedRev, listed, dirty>> /\ trouble' \in 0 .. MaxTrouble
      BY <2>4 DEF D!Editor, D!Trouble, D!Fine, DocInv, D!TypeOK, DocConstants
    <3>2. unread' = (op.kind = "reload") /\ unread' \in BOOLEAN
      BY <2>4
    <3>3. D!TypeOK'
      BY <2>1, <2>2, <3>1, <3>2 DEF DocInv, D!TypeOK
    <3>4. DocPanelOk'
      <4>1. ~unread' => loadedRev = 0
        BY <2>1, <3>2 DEF DocInv, DocChangeOk
      <4> QED
        BY <2>1, <2>2, <3>1, <4>1 DEF DocInv, DocPanelOk, DocTextsOk, D!TypeOK
    <3>5. DocChangeOk'
      BY <2>1, <2>2, <3>1 DEF DocInv, D!TypeOK, DocChangeOk
    <3> QED
      BY <2>1, <3>1, <3>3, <3>4, <3>5, DocKept DEF DocInv
  <2> QED
    BY <1>1, <2>3, <2>4 DEF D!Loaded
<1>2. CASE D!Type
  <2>1. PICK b \in Bodies : D!Open /\ buffer' = [buffer EXCEPT !.body = b]
                            /\ dirty' = D!Differs([buffer EXCEPT !.body = b])
    BY <1>2 DEF D!Type
  <2>2. UNCHANGED <<doc, revs, screen, loaded, loadedRev, listed, loading, op, dialog, saving, unread, trouble>>
    BY <1>2 DEF D!Type, D!Server
  <2>3. buffer' \in D!Text /\ buffer'.rev = buffer.rev /\ buffer'.atts = buffer.atts
    BY <2>1 DEF DocInv, D!TypeOK, D!Text
  <2>4. D!DirtyIsTrue' /\ dirty' \in BOOLEAN
    BY <2>1, <2>2 DEF D!DirtyIsTrue, D!Differs
  <2>5. DocTextsOk'
    BY <2>2, <2>3 DEF DocInv, DocTextsOk, DocTextOk
  <2>6. D!TypeOK'
    BY <2>2, <2>3, <2>4 DEF DocInv, D!TypeOK
  <2> QED
    BY <2>2, <2>4, <2>5, <2>6, DocKept DEF DocInv
<1> QED
  BY <1>1, <1>2

\* Choosing a file, answering the dialog, removing an attachment.
LEMMA DocChoosing ==
  ASSUME DocConstants, DocInv,
         D!Confirm \/ D!Cancel \/ \E n \in Names : D!ChooseFile(n) \/ D!Remove(n)
  PROVE  DocInv'
<1>1. UNCHANGED <<doc, revs, screen, buffer, loaded, loadedRev, listed, dirty, loading, saving, unread, trouble>>
  BY DEF D!Confirm, D!Cancel, D!ChooseFile, D!Remove, D!Server, D!Editor
<1>2. DocTextsOk' /\ D!DirtyIsTrue'
  BY <1>1, DocKept
<1>3. /\ loadedRev \in Nat /\ loadedRev <= revs /\ revs \in Nat /\ dialog \in Names \union {None}
      /\ op.kind \in {"none", "upload", "remove", "reload"} /\ loadedRev' = loadedRev
  BY <1>1 DEF DocInv, D!TypeOK, DocPanelOk
<1>4. ASSUME dialog' \in Names \union {None}, op' = op, dialog' # None => op.kind = "none" /\ loadedRev # 0
      PROVE  DocInv'
  <2>1. D!TypeOK'
    BY <1>1, <1>4 DEF DocInv, D!TypeOK
  <2>2. DocPanelOk'
    BY <1>1, <1>4 DEF DocInv, DocPanelOk, D!Has
  <2> QED
    BY <1>1, <1>2, <1>4, <2>1, <2>2, DocKept DEF DocInv
<1>5. ASSUME NEW kind \in {"upload", "remove"}, NEW n \in Names, NEW warned \in BOOLEAN,
             dialog' = None, loadedRev # 0, op.kind = "none", D!Begin(kind, n, warned),
             kind = "upload" /\ ~warned => n \notin listed
      PROVE  DocInv'
  <2>1. op' = [kind |-> kind, name |-> n, rev |-> loadedRev, asked |-> warned]
    BY <1>5 DEF D!Begin
  <2>2. D!TypeOK'
    BY <1>1, <1>3, <1>5, <2>1 DEF DocInv, D!TypeOK
  <2>3. DocPanelOk'
    BY <1>1, <1>5, <2>1 DEF DocInv, DocPanelOk, D!Has
  <2>4. DocChangeOk'
    BY <1>1, <1>3, <1>5, <2>1 DEF DocInv, DocChangeOk, DocPanelOk, D!Has
  <2> QED
    BY <1>2, <2>2, <2>3, <2>4 DEF DocInv
<1>6. CASE D!Confirm
  <2>1. dialog # None /\ dialog' = None /\ D!Begin("upload", dialog, TRUE)
    BY <1>6 DEF D!Confirm
  <2>2. dialog \in Names /\ op.kind = "none" /\ loadedRev # 0
    BY <1>3, <2>1 DEF DocInv, DocPanelOk
  <2> QED
    BY <1>5, <2>1, <2>2
<1>7. CASE D!Cancel
  BY <1>4, <1>7 DEF D!Cancel
<1>8. ASSUME NEW n \in Names, D!ChooseFile(n)
      PROVE  DocInv'
  <2>1. op.kind = "none" /\ dialog = None /\ loadedRev # 0
    BY <1>8 DEF D!ChooseFile, D!Idle, D!Blocked
  <2>2. CASE D!Taken(n)
    BY <1>4, <1>8, <2>1, <2>2 DEF D!ChooseFile
  <2>3. CASE ~D!Taken(n)
    <3>1. n \notin listed /\ dialog' = None /\ D!Begin("upload", n, FALSE)
      BY <1>8, <2>1, <2>3 DEF D!ChooseFile, D!Taken
    <3> QED
      BY <1>5, <2>1, <3>1
  <2> QED
    BY <2>2, <2>3
<1>9. ASSUME NEW n \in Names, D!Remove(n)
      PROVE  DocInv'
  <2>1. op.kind = "none" /\ dialog' = None /\ loadedRev # 0 /\ D!Begin("remove", n, TRUE)
    BY <1>9 DEF D!Remove, D!Idle, D!Blocked
  <2> QED
    BY <1>5, <2>1
<1> QED
  BY <1>6, <1>7, <1>8, <1>9

\* A document written anew.
LEMMA DocWritten ==
  ASSUME DocInv, NEW d \in D!Text, D!New(d)
  PROVE  doc' \in D!Text /\ doc'.rev = revs + 1 /\ doc'.atts = d.atts /\ revs' = revs + 1
BY DEF D!New, D!Text, DocInv, D!TypeOK

\* An attachment change arrives.
LEMMA DocChanging ==
  ASSUME DocConstants, DocInv, D!Changed
  PROVE  DocInv'
<1>1. UNCHANGED <<screen, buffer, loaded, listed, dirty, dialog, saving, unread>>
  BY DEF D!Changed
<1>2. op.kind \in {"upload", "remove"} /\ dialog' = None /\ op.name \in Names /\ loading = "none"
  BY <1>1 DEF D!Changed, DocInv, DocPanelOk, DocChangeOk, D!TypeOK
<1>3. CASE /\ D!Writable(op.rev) /\ D!Fine
           /\ D!New([doc EXCEPT !.atts[op.name] = IF op.kind = "upload" THEN revs + 1 ELSE 0])
           /\ IF D!Open THEN /\ loadedRev' = revs + 1 /\ loading' = "asked"
                             /\ op' = [op EXCEPT !.kind = "reload"]
              ELSE op' = D!NoOp /\ UNCHANGED <<loadedRev, loading>>
  <2>1. doc \in D!Text /\ revs < MaxRevs /\ trouble' = trouble /\ revs \in Nat
    BY <1>3 DEF DocInv, D!TypeOK, D!Writable, D!Fine
  <2> DEFINE stamp == IF op.kind = "upload" THEN revs + 1 ELSE 0
             d == [doc EXCEPT !.atts = [@ EXCEPT ![op.name] = stamp]]
  <2>2. stamp \in Nat
    BY <2>1
  <2> HIDE DEF stamp
  <2>3. d \in D!Text
    BY <2>1, <2>2 DEF D!Text
  <2>4. D!New(d)
    BY <1>3 DEF stamp
  <2> HIDE DEF d
  <2>5. doc' \in D!Text /\ doc'.rev = revs + 1 /\ revs' = revs + 1
    BY <2>3, <2>4, DocWritten
  <2>6. CASE D!Open
    <3>1. loadedRev' = revs + 1 /\ loading' = "asked" /\ op' = [op EXCEPT !.kind = "reload"]
      BY <1>3, <2>6
    <3>2. op.rev \in Nat /\ op.rev <= revs /\ op'.kind = "reload" /\ op'.rev = op.rev
      BY <3>1 DEF DocInv, D!TypeOK, DocChangeOk
    <3>3. D!TypeOK'
      BY <1>1, <2>1, <2>5, <3>1 DEF DocInv, D!TypeOK, DocConstants
    <3>4. DocTextsOk'
      <4>1. buffer.rev \in Nat /\ loaded.rev \in Nat /\ (saving # None => saving.rev \in Nat)
        BY DEF DocInv, D!TypeOK, D!Text
      <4> QED
        BY <1>1, <2>1, <2>5, <4>1 DEF DocInv, DocTextsOk, DocTextOk
    <3>5. DocPanelOk' /\ DocChangeOk'
      BY <1>2, <2>1, <2>5, <3>1, <3>2 DEF DocPanelOk, DocChangeOk
    <3> QED
      BY <1>1, <3>3, <3>4, <3>5 DEF DocInv, D!DirtyIsTrue
  <2>7. CASE ~D!Open
    <3>1. op' = [kind |-> "none", name |-> None, rev |-> 0, asked |-> FALSE] /\ UNCHANGED <<loadedRev, loading>>
      BY <1>3, <2>7 DEF D!NoOp
    <3>2. D!TypeOK'
      BY <1>1, <2>1, <2>5, <3>1 DEF DocInv, D!TypeOK, DocConstants
    <3>3. DocTextsOk'
      BY <1>1, <2>1, <2>5, <3>1, DocNewer
    <3>4. DocPanelOk' /\ DocChangeOk'
      <4>1. loadedRev \in Nat /\ loadedRev <= revs
        BY DEF DocInv, D!TypeOK, DocPanelOk
      <4> QED
        BY <1>2, <2>1, <2>5, <3>1, <4>1 DEF DocPanelOk, DocChangeOk
    <3> QED
      BY <1>1, <3>2, <3>3, <3>4 DEF DocInv, D!DirtyIsTrue
  <2> QED
    BY <2>6, <2>7
<1>4. CASE op' = D!NoOp /\ UNCHANGED <<doc, revs, loadedRev, loading>> /\ (D!Trouble \/ D!Fine)
  <2>1. op' = [kind |-> "none", name |-> None, rev |-> 0, asked |-> FALSE]
    BY <1>4 DEF D!NoOp
  <2>2. trouble' \in 0 .. MaxTrouble
    BY <1>4 DEF D!Trouble, D!Fine, DocInv, D!TypeOK, DocConstants
  <2>3. D!TypeOK'
    BY <1>1, <1>4, <2>1, <2>2 DEF DocInv, D!TypeOK
  <2>4. DocPanelOk' /\ DocChangeOk'
    BY <1>1, <1>2, <1>4, <2>1 DEF DocInv, D!TypeOK, DocPanelOk, DocChangeOk, D!Has
  <2> QED
    BY <1>1, <1>4, <2>3, <2>4, DocKept DEF DocInv
<1> QED
  BY <1>3, <1>4 DEF D!Changed

\* Saving, leaving and the others.
LEMMA DocSaving ==
  ASSUME DocConstants, DocInv, D!Save \/ D!Saved \/ D!Leave \/ D!Elsewhere
  PROVE  DocInv'
<1>1. UNCHANGED <<buffer, loaded, loadedRev, listed, dirty, loading, op, dialog, unread>>
  BY DEF D!Save, D!Saved, D!Leave, D!Elsewhere, D!Editor, D!Server
<1>2. D!DirtyIsTrue'
  BY <1>1 DEF DocInv, D!DirtyIsTrue
<1>3. CASE D!Save
  <2>1. UNCHANGED <<doc, revs, screen, trouble>> /\ saving' = buffer
    BY <1>3 DEF D!Save, D!Server
  <2>2. D!TypeOK' /\ DocTextsOk'
    BY <1>1, <2>1 DEF DocInv, D!TypeOK, DocTextsOk, DocTextOk
  <2> QED
    BY <1>1, <1>2, <2>1, <2>2, DocKept DEF DocInv
<1>4. CASE D!Leave
  <2>1. UNCHANGED <<doc, revs, saving, trouble>> /\ screen' = "left"
    BY <1>4 DEF D!Leave, D!Server
  <2>2. D!TypeOK'
    BY <1>1, <2>1 DEF DocInv, D!TypeOK
  <2> QED
    BY <1>1, <1>2, <2>1, <2>2, DocKept DEF DocInv
<1>5. ASSUME revs < MaxRevs, revs' = revs + 1, doc' = None \/ (doc' \in D!Text /\ doc'.rev = revs + 1),
             saving' \in {saving, None}, screen' \in {screen, "left"}, trouble' = trouble
      PROVE  DocInv'
  <2>1. D!TypeOK'
    BY <1>1, <1>5 DEF DocInv, D!TypeOK, DocConstants
  <2> QED
    BY <1>1, <1>2, <1>5, <2>1, DocNewer DEF DocInv
<1>6. CASE D!Saved
  <2>1. saving # None /\ saving' = None /\ saving \in D!Text
    BY <1>6 DEF D!Saved, DocInv, D!TypeOK
  <2>2. CASE revs < MaxRevs /\ D!New(saving) /\ screen' = "left" /\ D!Fine
    BY <1>5, <2>1, <2>2, DocWritten DEF D!Fine
  <2>3. CASE UNCHANGED <<doc, revs, screen>> /\ (D!Trouble \/ D!Fine)
    <3>1. trouble' \in 0 .. MaxTrouble
      BY <2>3 DEF D!Trouble, D!Fine, DocInv, D!TypeOK, DocConstants
    <3>2. D!TypeOK' /\ DocTextsOk'
      BY <1>1, <2>1, <2>3, <3>1 DEF DocInv, D!TypeOK, DocTextsOk, DocTextOk
    <3> QED
      BY <1>1, <1>2, <2>3, <3>2, DocKept DEF DocInv
  <2> QED
    BY <1>6, <2>2, <2>3 DEF D!Saved
<1>7. CASE D!Elsewhere
  <2>1. doc # None /\ revs < MaxRevs /\ UNCHANGED <<screen, saving, trouble>> /\ doc \in D!Text /\ revs \in Nat
    BY <1>7 DEF D!Elsewhere, DocInv, D!TypeOK
  <2>2. ASSUME NEW b \in Bodies, D!New([doc EXCEPT !.body = b])
        PROVE  DocInv'
    <3>1. [doc EXCEPT !.body = b] \in D!Text
      BY <2>1 DEF D!Text
    <3> QED
      BY <1>5, <2>1, <2>2, <3>1, DocWritten
  <2>3. ASSUME NEW n \in Names, D!New([doc EXCEPT !.atts[n] = revs + 1])
        PROVE  DocInv'
    <3>1. [doc EXCEPT !.atts[n] = revs + 1] \in D!Text
      BY <2>1 DEF D!Text
    <3> QED
      BY <1>5, <2>1, <2>3, <3>1, DocWritten
  <2>4. CASE doc' = None /\ revs' = revs + 1
    BY <1>5, <2>1, <2>4
  <2> QED
    BY <1>7, <2>2, <2>3, <2>4 DEF D!Elsewhere
<1> QED
  BY <1>3, <1>4, <1>6, <1>7

LEMMA DocInit == ASSUME DocConstants, D!Init PROVE DocInv
<1>1. PICK a \in [Names -> {0, 1}] : doc = [rev |-> 1, body |-> Default, atts |-> a]
  BY DEF D!Init
<1>2. doc \in D!Text /\ doc.rev = 1
  BY <1>1 DEF D!Text, DocConstants
<1>3. D!Bare \in D!Text /\ D!Bare.rev = 0
  BY DEF D!Bare, D!Text, DocConstants
<1>4. D!TypeOK
  <2>1. /\ buffer \in D!Text /\ loaded \in D!Text /\ revs = 1 /\ loadedRev = 0 /\ listed = {} /\ trouble = 0
        /\ screen = "open" /\ loading = "asked" /\ dialog = None /\ saving = None
    BY <1>3 DEF D!Init
  <2>2. dirty \in BOOLEAN /\ unread \in BOOLEAN
    BY DEF D!Init
  <2>3. op = [kind |-> "none", name |-> None, rev |-> 0, asked |-> FALSE]
    BY DEF D!Init, D!NoOp
  <2> QED
    BY <1>2, <2>1, <2>2, <2>3 DEF D!TypeOK, DocConstants
<1>5. DocTextsOk
  BY <1>2, <1>3 DEF D!Init, DocTextsOk, DocTextOk
<1>6. DocPanelOk /\ DocChangeOk
  BY <1>2 DEF D!Init, DocPanelOk, DocChangeOk, D!NoOp
<1> QED
  BY <1>4, <1>5, <1>6 DEF DocInv, D!Init, D!DirtyIsTrue

LEMMA DocNext == ASSUME DocConstants, DocInv, [D!Next]_D!vars PROVE DocInv'
<1>1. CASE D!Next
  BY <1>1, DocReading, DocChoosing, DocChanging, DocSaving DEF D!Next
<1>2. CASE UNCHANGED D!vars
  <2>1. D!TypeOK'
    BY <1>2 DEF D!vars, DocInv, D!TypeOK
  <2> QED
    BY <1>2, <2>1, DocKept DEF D!vars, DocInv
<1> QED
  BY <1>1, <1>2

\* Whatever was typed, loaded or attached: the editor knows whether its text differs from the
\* one it loaded (_dirty).
THEOREM EditorKnowsItsDirt == ASSUME DocConstants PROVE D!Spec => [](D!TypeOK /\ D!DirtyIsTrue)
<1>1. DocInv => D!TypeOK /\ D!DirtyIsTrue
  BY DEF DocInv
<1> QED
  BY <1>1, DocInit, DocNext, PTL DEF D!Spec

\* A save that is taken is of the current revision, and leaves every attachment as it is
\* (saveDocument): an upload of this screen or of anybody else is not taken back.
LEMMA DocSaveStep == ASSUME DocConstants, DocInv, D!Saved PROVE D!SaveTakesNothingBackStep
<1> SUFFICES ASSUME doc' # doc, doc # None PROVE doc.rev = saving.rev /\ doc'.atts = doc.atts
  BY DEF D!SaveTakesNothingBackStep
<1>1. saving # None /\ D!SentRev(saving) = D!CurrentRev /\ D!New(saving)
  BY DEF D!Saved
<1>2. saving \in D!Text /\ saving.rev = doc.rev
  BY <1>1 DEF D!SentRev, D!CurrentRev, DocInv, D!TypeOK
<1>3. doc'.atts = saving.atts
  BY <1>1, <1>2, DocWritten
<1> QED
  BY <1>1, <1>2, <1>3 DEF DocInv, DocTextsOk, DocTextOk

\* An attachment is replaced without the question only after a failed read of the panel.
LEMMA DocChangeStep == ASSUME DocConstants, DocInv PROVE D!NothingReplacedUnaskedStep
<1> SUFFICES ASSUME D!Changed, op.kind = "upload", doc' # doc, D!Has(doc, op.name), ~op.asked, ~unread
             PROVE  FALSE
  BY DEF D!NothingReplacedUnaskedStep
<1>1. D!Writable(op.rev)
  BY DEF D!Changed
<1> QED
  BY <1>1 DEF D!Writable, D!CurrentRev, DocInv, DocChangeOk

THEOREM DocumentIsNotOverwritten ==
  ASSUME DocConstants
  PROVE  D!Spec => D!SaveTakesNothingBack /\ D!NothingReplacedUnasked
<1>1. ASSUME DocInv, DocInv', [D!Next]_D!vars
      PROVE  [D!SaveTakesNothingBackStep]_D!vars /\ [D!NothingReplacedUnaskedStep]_D!vars
  <2>1. D!SaveTakesNothingBackStep
    BY <1>1, DocSaveStep DEF D!SaveTakesNothingBackStep
  <2> QED
    BY <1>1, <2>1, DocChangeStep
<1> QED
  BY <1>1, DocInit, DocNext, PTL DEF D!Spec, D!SaveTakesNothingBack, D!NothingReplacedUnasked

----------------------------------------------------------------------------
(* The design-document editor: any names, edits in either view, overlapping saves that go on *)
(* to a sync and a reload, quick tests, and somebody else's saves.                          *)

V == INSTANCE ViewEditor

\* A new function has a name; the bounds are numbers.
ViewConstants == New \in Names /\ MaxEdits \in Nat /\ MaxSaves \in Nat /\ MaxTrouble \in Nat

\* The functions of a design document.
ViewFns == UNION {[names -> V!Sources] : names \in SUBSET Names}
ViewDoc == [rev : Nat, fns : ViewFns]
ViewSave == [st : {"none", "put", "sync", "load", "over"}, rev : Nat, fns : ViewFns, name : Names \union {None}]

ViewShape ==
  /\ V!TypeOK
  /\ stored \in ViewDoc /\ ddoc \in ViewDoc /\ known \in ViewFns /\ loaded \in ViewFns
  /\ saves \in [V!Slots -> ViewSave] /\ midway \in BOOLEAN /\ overtaken \in BOOLEAN

\* A save in flight is not newer than the editor, and the editor not newer than CouchDB; one
\* load at most is due, and only when CouchDB is newer.
ViewRevsOk ==
  /\ ddoc.rev <= stored.rev
  /\ loading => ddoc.rev < stored.rev
  /\ \A s \in V!Slots :
       /\ saves[s].st = "put" => saves[s].rev <= ddoc.rev
       /\ saves[s].st \in {"sync", "load"} =>
            /\ ddoc.rev < stored.rev /\ ~loading
            /\ \A t \in V!Slots : saves[t].st \in {"sync", "load"} => t = s

\* At CouchDB's revision, the editor was loaded with what CouchDB has, and a save that will be
\* taken has what the editor has.
ViewWorkOk ==
  /\ ddoc.rev = stored.rev => stored.fns = loaded
  /\ \A s \in V!Slots :
       saves[s].st = "put" /\ saves[s].rev = stored.rev /\ ~midway => saves[s].fns = ddoc.fns
  /\ V!WarnedOfUnsavedWork

\* The result shown and the one under way are those of the function on the screen.
ViewTestOk ==
  /\ V!ResultIsOfTheFunction
  /\ testing # V!NoTest /\ ~overtaken => name \in DOMAIN ddoc.fns /\ testing = V!Tested(ddoc.fns, name)

ViewInv == ViewShape /\ ViewRevsOk /\ ViewWorkOk /\ ViewTestOk

LEMMA ViewFnsElim ==
  ASSUME NEW f \in ViewFns
  PROVE  DOMAIN f \subseteq Names /\ f \in [DOMAIN f -> V!Sources] /\ V!Functions(f)
BY DEF ViewFns, V!Functions

LEMMA ViewFnsIntro ==
  ASSUME NEW names \in SUBSET Names, NEW f \in [names -> V!Sources]
  PROVE  f \in ViewFns
BY DEF ViewFns

LEMMA ViewStub == ASSUME ViewConstants PROVE V!Stub \in V!Sources /\ V!NoFns \in ViewFns
<1>1. V!Stub \in V!Sources
  BY DEF V!Stub, V!Sources, V!Reduces, ViewConstants
<1>2. V!NoFns \in [{} -> V!Sources]
  BY DEF V!NoFns
<1> QED
  BY <1>1, <1>2, ViewFnsIntro

\* What is not touched stays as it was.
LEMMA ViewKept ==
  ASSUME ViewInv
  PROVE  /\ UNCHANGED <<stored, ddoc, loading, saves, dirty, known, loaded, midway>> => ViewRevsOk' /\ ViewWorkOk'
         /\ UNCHANGED <<ddoc, name, quick, testing, overtaken>> => ViewTestOk'
<1>1. UNCHANGED <<stored, ddoc, loading, saves, dirty, known, loaded, midway>> => ViewRevsOk' /\ ViewWorkOk'
  BY DEF ViewInv, ViewRevsOk, ViewWorkOk, V!WarnedOfUnsavedWork
<1>2. UNCHANGED <<ddoc, name, quick, testing, overtaken>> => ViewTestOk'
  BY DEF ViewInv, ViewTestOk, V!ResultIsOfTheFunction
<1> QED
  BY <1>1, <1>2

\* Every change of the document is marked, and a save that it overtakes is remembered.
LEMMA ViewTouched ==
  ASSUME ViewConstants, ViewInv, V!Touch, V!Still,
         ddoc' \in ViewDoc, ddoc'.rev = ddoc.rev,
         name' \in Names \union {None}, tab' \in {"map", "reduce"}, raw' \in BOOLEAN, broken' => raw',
         overtaken' \in BOOLEAN, ViewTestOk'
  PROVE  ViewInv'
<1>1. UNCHANGED <<stored, fresh, canWrite, mayWrite, loading, saves, trouble, failed, testing, known, loaded>>
  BY DEF V!Still, V!rights
<1>2. edits < MaxEdits /\ edits' = edits + 1 /\ midway' = (midway \/ V!InFlight) /\ dirty' = TRUE
  BY DEF V!Touch
<1>3. edits' \in 0 .. MaxEdits /\ dirty' \in BOOLEAN /\ midway' \in BOOLEAN
  BY <1>2 DEF ViewInv, ViewShape, V!TypeOK, ViewConstants
<1>4. V!Functions(ddoc'.fns) /\ ddoc'.rev \in Nat
  BY ViewFnsElim DEF ViewDoc
<1>5. V!TypeOK'
  BY <1>1, <1>3, <1>4 DEF ViewInv, ViewShape, V!TypeOK, V!Functions
<1>6. ViewShape'
  BY <1>1, <1>3, <1>5 DEF ViewInv, ViewShape
<1>7. ViewRevsOk'
  BY <1>1 DEF ViewInv, ViewRevsOk
<1>8. ViewWorkOk'
  <2>1. \A s \in V!Slots : saves[s].st = "put" => midway'
    BY <1>2 DEF V!InFlight
  <2>2. V!WarnedOfUnsavedWork'
    BY <1>2 DEF V!WarnedOfUnsavedWork
  <2> QED
    BY <1>1, <2>1, <2>2 DEF ViewInv, ViewWorkOk
<1> QED
  BY <1>6, <1>7, <1>8 DEF ViewInv

LEMMA ViewChanged ==
  ASSUME ViewConstants, ViewInv, NEW fns \in ViewFns, V!Change(fns), V!Still,
         name' \in Names \union {None}, tab' \in {"map", "reduce"}, raw' \in BOOLEAN, broken' => raw',
         overtaken' \in BOOLEAN, ViewTestOk'
  PROVE  ViewInv'
<1>1. ddoc' = [ddoc EXCEPT !.fns = fns] /\ V!Touch
  BY DEF V!Change
<1>2. ddoc' \in ViewDoc /\ ddoc'.rev = ddoc.rev
  BY <1>1 DEF ViewInv, ViewShape, ViewDoc
<1> QED
  BY <1>1, <1>2, ViewTouched

\* A result is dropped, and one under way no longer that of the function.
LEMMA ViewTestDropped ==
  ASSUME ViewInv, testing' = testing, overtaken' = (overtaken \/ testing # V!NoTest), quick' = V!NoTest
  PROVE  ViewTestOk' /\ overtaken' \in BOOLEAN
BY DEF ViewInv, ViewShape, ViewTestOk, V!ResultIsOfTheFunction

LEMMA ViewTyping ==
  ASSUME ViewConstants, ViewInv, V!Type \/ V!PickReduce \/ V!TypeRaw
  PROVE  ViewInv'
<1>0. /\ ddoc.fns \in ViewFns /\ DOMAIN ddoc.fns \subseteq Names /\ ddoc.fns \in [DOMAIN ddoc.fns -> V!Sources]
      /\ name \in Names \union {None} /\ tab \in {"map", "reduce"} /\ raw \in BOOLEAN /\ (broken => raw)
      /\ edits \in Nat
  BY ViewFnsElim DEF ViewInv, ViewShape, ViewDoc, V!TypeOK
<1>1. CASE V!Type
  <2> DEFINE new == IF tab = "reduce" THEN [ddoc.fns[name] EXCEPT !.reduce = "custom"]
                    ELSE [ddoc.fns[name] EXCEPT !.map = edits + 1]
             fns == [ddoc.fns EXCEPT ![name] = new]
  <2>1. /\ name \in DOMAIN ddoc.fns /\ V!Change(fns) /\ V!Still /\ quick' = V!NoTest
        /\ overtaken' = (overtaken \/ testing # V!NoTest) /\ UNCHANGED <<name, tab, raw, broken>>
    BY <1>1 DEF V!Type, V!Result, V!Overtake
  <2>2. new \in V!Sources
    <3>1. ddoc.fns[name] \in V!Sources /\ edits < MaxEdits
      BY <1>0, <2>1 DEF V!Change, V!Touch
    <3> QED
      BY <1>0, <3>1 DEF V!Sources, V!Reduces, ViewConstants
  <2>3. fns \in ViewFns
    <3> HIDE DEF new
    <3>1. fns \in [DOMAIN ddoc.fns -> V!Sources]
      BY <1>0, <2>2
    <3> HIDE DEF fns
    <3> QED
      BY <1>0, <3>1, ViewFnsIntro
  <2>4. testing' = testing
    BY <2>1 DEF V!Still
  <2> HIDE DEF fns
  <2> QED
    BY <1>0, <2>1, <2>3, <2>4, ViewTestDropped, ViewChanged
<1>2. CASE V!PickReduce
  <2>1. PICK r \in V!Reduces : /\ V!Change([ddoc.fns EXCEPT ![name].reduce = r])
                               /\ tab' = IF r = "custom" THEN "reduce" ELSE tab
    BY <1>2 DEF V!PickReduce
  <2>2. name \in DOMAIN ddoc.fns /\ overtaken' = TRUE /\ UNCHANGED <<name, raw, broken, quick>> /\ V!Still
    BY <1>2 DEF V!PickReduce
  <2> DEFINE fns == [ddoc.fns EXCEPT ![name].reduce = r]
  <2>3. fns \in ViewFns
    <3>1. [ddoc.fns[name] EXCEPT !.reduce = r] \in V!Sources
      BY <1>0, <2>2 DEF V!Sources
    <3>2. fns \in [DOMAIN ddoc.fns -> V!Sources]
      BY <1>0, <3>1
    <3> HIDE DEF fns
    <3> QED
      BY <1>0, <3>2, ViewFnsIntro
  <2>4. ViewTestOk' /\ overtaken' \in BOOLEAN
    BY <2>2 DEF ViewTestOk, V!ResultIsOfTheFunction
  <2>5. tab' \in {"map", "reduce"}
    BY <1>0, <2>1
  <2>6. V!Change(fns)
    BY <2>1
  <2> HIDE DEF fns
  <2> QED
    BY <1>0, <2>2, <2>3, <2>4, <2>5, <2>6, ViewChanged
<1>3. CASE V!TypeRaw
  <2>1. raw /\ UNCHANGED <<name, tab, raw, quick>> /\ V!Still
    BY <1>3 DEF V!TypeRaw
  <2>2. ASSUME NEW n \in DOMAIN ddoc.fns, V!Change([ddoc.fns EXCEPT ![n].map = edits + 1]),
               broken' = FALSE, overtaken' = TRUE
        PROVE  ViewInv'
    <3> DEFINE fns == [ddoc.fns EXCEPT ![n].map = edits + 1]
    <3>1. [ddoc.fns[n] EXCEPT !.map = edits + 1] \in V!Sources
      <4>1. edits < MaxEdits
        BY <2>2 DEF V!Change, V!Touch
      <4> QED
        BY <1>0, <4>1 DEF V!Sources, ViewConstants
    <3>2. fns \in [DOMAIN ddoc.fns -> V!Sources]
      BY <1>0, <3>1
    <3>3. V!Change(fns)
      BY <2>2
    <3>4. ViewTestOk' /\ overtaken' \in BOOLEAN
      BY <2>2 DEF ViewTestOk, V!ResultIsOfTheFunction
    <3> HIDE DEF fns
    <3>5. fns \in ViewFns
      BY <1>0, <3>2, ViewFnsIntro
    <3> QED
      BY <1>0, <2>1, <2>2, <3>3, <3>4, <3>5, ViewChanged
  <2>3. CASE V!Touch /\ broken' = TRUE /\ UNCHANGED <<ddoc, overtaken>>
    <3>1. ViewTestOk' /\ overtaken' \in BOOLEAN
      BY <2>1, <2>3, ViewKept DEF V!Still, ViewInv, ViewShape
    <3>2. ddoc' \in ViewDoc /\ ddoc'.rev = ddoc.rev
      BY <2>3 DEF ViewInv, ViewShape
    <3> QED
      BY <1>0, <2>1, <2>3, <3>1, <3>2, ViewTouched
  <2> QED
    BY <1>3, <2>2, <2>3 DEF V!TypeRaw
<1> QED
  BY <1>1, <1>2, <1>3

\* Another function on the screen: no result is shown.
LEMMA ViewSelected ==
  ASSUME ViewInv, NEW n \in Names \union {None}, V!Select(n)
  PROVE  /\ name' \in Names \union {None} /\ tab' \in {"map", "reduce"} /\ name' = n
         /\ n # name => quick' = V!NoTest
         /\ n = name => quick' = quick
BY DEF V!Select, ViewInv, ViewShape, V!TypeOK

LEMMA ViewFirst ==
  ASSUME NEW fns \in ViewFns
  PROVE  V!First(fns) \in Names \union {None}
BY ViewFnsElim DEF V!First

LEMMA ViewNaming ==
  ASSUME ViewConstants, ViewInv, V!Rename \/ V!AddFunction \/ V!DeleteFunction
  PROVE  ViewInv'
<1>0. /\ DOMAIN ddoc.fns \subseteq Names /\ ddoc.fns \in [DOMAIN ddoc.fns -> V!Sources]
      /\ raw \in BOOLEAN /\ (broken => raw)
  BY ViewFnsElim DEF ViewInv, ViewShape, ViewDoc, V!TypeOK
<1>1. /\ UNCHANGED <<raw, broken, testing>> /\ V!Still
      /\ overtaken' = (overtaken \/ testing # V!NoTest)
  BY DEF V!Rename, V!AddFunction, V!DeleteFunction, V!Overtake, V!Still
<1>2. CASE V!Rename
  <2>1. PICK n \in Names \ {name} :
          /\ \E one \in {name} \union ({n} \intersect DOMAIN ddoc.fns) :
               V!Change([m \in (DOMAIN ddoc.fns \ {name}) \union {n} |->
                           IF m = n THEN ddoc.fns[one] ELSE ddoc.fns[m]])
          /\ V!Select(n)
    BY <1>2 DEF V!Rename
  <2>2. PICK one \in {name} \union ({n} \intersect DOMAIN ddoc.fns) :
          V!Change([m \in (DOMAIN ddoc.fns \ {name}) \union {n} |-> IF m = n THEN ddoc.fns[one] ELSE ddoc.fns[m]])
    BY <2>1
  <2> DEFINE names == (DOMAIN ddoc.fns \ {name}) \union {n}
             fns == [m \in names |-> IF m = n THEN ddoc.fns[one] ELSE ddoc.fns[m]]
  <2>3. one \in DOMAIN ddoc.fns
    BY <1>2, <2>2 DEF V!Rename
  <2>4. fns \in [names -> V!Sources] /\ names \in SUBSET Names
    BY <1>0, <2>1, <2>3
  <2>5. V!Change(fns)
    BY <2>2
  <2> HIDE DEF fns, names
  <2>6. fns \in ViewFns
    BY <2>4, ViewFnsIntro
  <2>7. quick' = V!NoTest /\ name' \in Names \union {None} /\ tab' \in {"map", "reduce"}
    BY <2>1, ViewSelected
  <2>8. ViewTestOk' /\ overtaken' \in BOOLEAN
    BY <1>1, <2>7, ViewTestDropped
  <2> QED
    BY <1>0, <1>1, <2>5, <2>6, <2>7, <2>8, ViewChanged
<1>3. CASE V!AddFunction
  <2> DEFINE names == DOMAIN ddoc.fns \union {New}
             fns == [m \in names |-> IF m = New THEN V!Stub ELSE ddoc.fns[m]]
  <2>1. New \notin DOMAIN ddoc.fns /\ V!Change(fns) /\ V!Select(New)
    BY <1>3 DEF V!AddFunction
  <2>2. fns \in [names -> V!Sources] /\ names \in SUBSET Names /\ New \in Names
    BY <1>0, ViewStub DEF ViewConstants
  <2> HIDE DEF fns, names
  <2>3. fns \in ViewFns
    BY <2>2, ViewFnsIntro
  <2>4. /\ name' \in Names \union {None} /\ tab' \in {"map", "reduce"}
        /\ New # name => quick' = V!NoTest
        /\ New = name => quick' = quick
    BY <2>1, <2>2, ViewSelected
  <2>5. ViewTestOk' /\ overtaken' \in BOOLEAN
    <3>1. CASE quick' = V!NoTest
      BY <1>1, <3>1, ViewTestDropped
    <3>2. CASE New = name /\ quick' = quick
      <4>1. name \notin DOMAIN ddoc.fns
        BY <2>1, <3>2
      <4>2. overtaken' \/ (quick = V!NoTest /\ testing = V!NoTest)
        BY <1>1, <4>1 DEF ViewInv, ViewTestOk, V!ResultIsOfTheFunction
      <4> QED
        BY <1>1, <3>2, <4>2 DEF ViewTestOk, V!ResultIsOfTheFunction, ViewInv, ViewShape
    <3> QED
      BY <2>4, <3>1, <3>2
  <2> QED
    BY <1>0, <1>1, <2>1, <2>3, <2>4, <2>5, ViewChanged
<1>4. CASE V!DeleteFunction
  <2> DEFINE names == DOMAIN ddoc.fns \ {name}
             fns == [m \in names |-> ddoc.fns[m]]
  <2>1. V!Change(fns) /\ name' = V!First(fns) /\ tab' = "map" /\ quick' = V!NoTest
    BY <1>4 DEF V!DeleteFunction
  <2>2. fns \in [names -> V!Sources] /\ names \in SUBSET Names
    BY <1>0
  <2> HIDE DEF fns, names
  <2>3. fns \in ViewFns
    BY <2>2, ViewFnsIntro
  <2>4. ViewTestOk' /\ overtaken' \in BOOLEAN
    BY <1>1, <2>1, ViewTestDropped
  <2>5. name' \in Names \union {None} /\ tab' \in {"map", "reduce"}
    BY <2>1, <2>3, ViewFirst
  <2> QED
    BY <1>0, <1>1, <2>1, <2>3, <2>4, <2>5, ViewChanged
<1> QED
  BY <1>2, <1>3, <1>4

\* What changes neither the document nor what is in flight.
LEMMA ViewAround ==
  ASSUME ViewConstants, ViewInv,
         V!SelectFn \/ V!SwitchTab \/ V!ToggleRaw \/ V!LandRights \/ V!QuickTest \/ V!LandTest
  PROVE  ViewInv'
<1>1. UNCHANGED <<stored, ddoc, fresh, dirty, failed, loading, saves, edits, known, loaded, midway>>
  BY DEF V!SelectFn, V!SwitchTab, V!ToggleRaw, V!LandRights, V!QuickTest, V!LandTest, V!Still, V!history
<1>2. ViewRevsOk' /\ ViewWorkOk'
  BY <1>1, ViewKept
<1>3. ASSUME V!TypeOK', overtaken' \in BOOLEAN, ViewTestOk' PROVE ViewInv'
  BY <1>1, <1>2, <1>3 DEF ViewInv, ViewShape
<1>4. ASSUME UNCHANGED <<canWrite, mayWrite, trouble>>, name' \in Names \union {None}, tab' \in {"map", "reduce"},
             raw' \in BOOLEAN, broken' => raw'
      PROVE  V!TypeOK'
  BY <1>1, <1>4 DEF ViewInv, ViewShape, V!TypeOK, V!Functions
<1>5. name \in Names \union {None} /\ tab \in {"map", "reduce"} /\ raw \in BOOLEAN /\ (broken => raw)
      /\ overtaken \in BOOLEAN
  BY DEF ViewInv, ViewShape, V!TypeOK
<1>6. CASE V!SelectFn
  <2>1. PICK n \in DOMAIN ddoc.fns \ {name} : V!Select(n)
    BY <1>6 DEF V!SelectFn
  <2>2. n \in Names
    BY ViewFnsElim DEF ViewInv, ViewShape, ViewDoc
  <2>3. name' \in Names \union {None} /\ tab' \in {"map", "reduce"} /\ quick' = V!NoTest
    BY <2>1, <2>2, ViewSelected
  <2>4. /\ UNCHANGED <<raw, broken, canWrite, mayWrite, trouble, testing>>
        /\ overtaken' = (overtaken \/ testing # V!NoTest)
    BY <1>6 DEF V!SelectFn, V!Still, V!rights, V!Overtake
  <2>5. ViewTestOk' /\ overtaken' \in BOOLEAN
    BY <2>3, <2>4, ViewTestDropped
  <2> QED
    BY <1>3, <1>4, <1>5, <2>3, <2>4, <2>5
<1>7. CASE V!SwitchTab
  <2>1. tab' \in {"map", "reduce"} /\ UNCHANGED <<name, raw, broken, quick, overtaken, testing, canWrite, mayWrite, trouble>>
    BY <1>7 DEF V!SwitchTab, V!Still, V!rights
  <2> QED
    BY <1>1, <1>3, <1>4, <1>5, <2>1, ViewKept
<1>8. CASE V!ToggleRaw
  <2>1. raw' \in BOOLEAN /\ ~broken' /\ UNCHANGED <<name, tab, quick, overtaken, testing, canWrite, mayWrite, trouble>>
    BY <1>8 DEF V!ToggleRaw, V!Still, V!rights
  <2> QED
    BY <1>1, <1>3, <1>4, <1>5, <2>1, ViewKept
<1>9. CASE V!LandRights
  <2>1. /\ mayWrite # None /\ mayWrite' = None /\ UNCHANGED <<name, tab, raw, broken, quick, testing, overtaken>>
        /\ canWrite' \in {mayWrite, FALSE} /\ (trouble' = trouble \/ V!Fail)
    BY <1>9 DEF V!LandRights, V!history
  <2>2. canWrite' \in BOOLEAN /\ mayWrite' \in BOOLEAN \union {None}
    BY <2>1 DEF ViewInv, ViewShape, V!TypeOK
  <2>3. trouble' \in 0 .. MaxTrouble
    BY <2>1 DEF ViewInv, ViewShape, V!TypeOK, V!Fail, ViewConstants
  <2>4. V!TypeOK'
    BY <1>1, <2>1, <2>2, <2>3 DEF ViewInv, ViewShape, V!TypeOK, V!Functions
  <2> QED
    BY <1>1, <1>3, <1>5, <2>1, <2>4, ViewKept
<1>10. CASE V!QuickTest
  <2>1. /\ name \in DOMAIN ddoc.fns /\ testing' = V!Tested(ddoc.fns, name) /\ quick' = V!NoTest /\ overtaken' = FALSE
        /\ UNCHANGED <<name, tab, raw, broken, canWrite, mayWrite, trouble>>
    BY <1>10 DEF V!QuickTest, V!rights
  <2>2. ViewTestOk'
    BY <1>1, <2>1 DEF ViewTestOk, V!ResultIsOfTheFunction, V!Tested
  <2> QED
    BY <1>3, <1>4, <1>5, <2>1, <2>2
<1>11. CASE V!LandTest
  <2>1. /\ quick' = testing /\ testing' = V!NoTest
        /\ UNCHANGED <<name, tab, raw, broken, canWrite, mayWrite, trouble, overtaken>>
    BY <1>11 DEF V!LandTest, V!rights, V!history
  <2>2. ViewTestOk'
    BY <1>1, <2>1 DEF ViewInv, ViewTestOk, V!ResultIsOfTheFunction, V!Tested
  <2> QED
    BY <1>3, <1>4, <1>5, <2>1, <2>2
<1> QED
  BY <1>6, <1>7, <1>8, <1>9, <1>10, <1>11

\* A load brings the document and its revision in one go; no save in flight is then that new.
LEMMA ViewLoaded ==
  ASSUME ViewConstants, ViewInv, NEW back \in Names \union {None}, V!LoadDesignDoc(back),
         ddoc.rev < stored.rev, UNCHANGED <<stored, fresh, raw, broken, failed, canWrite, mayWrite, testing, edits>>,
         loading' = FALSE, trouble' \in 0 .. MaxTrouble, saves' \in [V!Slots -> ViewSave],
         \A s \in V!Slots : saves'[s].st \notin {"sync", "load"} /\ (saves'[s].st = "put" => saves'[s] = saves[s])
  PROVE  ViewInv'
<1>1. /\ ddoc' = stored /\ dirty' = FALSE /\ known' = stored.fns /\ loaded' = stored.fns /\ midway' = FALSE
      /\ overtaken' = (quick' # V!NoTest \/ testing # V!NoTest)
  BY DEF V!LoadDesignDoc, V!Reloaded
<1>2. stored \in ViewDoc /\ stored.fns \in ViewFns /\ stored.rev \in Nat /\ V!Functions(stored.fns)
  BY ViewFnsElim DEF ViewInv, ViewShape, ViewDoc
<1>3. name' \in Names \union {None} /\ tab' \in {"map", "reduce"}
  <2>1. name \in Names \union {None}
    BY DEF ViewInv, ViewShape, V!TypeOK
  <2> DEFINE n == IF back # None THEN back ELSE IF DOMAIN stored.fns = {} THEN name ELSE V!First(stored.fns)
  <2>2. n \in Names \union {None}
    BY <1>2, <2>1, ViewFirst
  <2>3. V!Select(n)
    BY DEF V!LoadDesignDoc
  <2> HIDE DEF n
  <2> QED
    BY <2>2, <2>3, ViewSelected
<1>4. dirty' \in BOOLEAN /\ midway' \in BOOLEAN /\ overtaken' \in BOOLEAN /\ loading' \in BOOLEAN
  BY <1>1
<1>5. \A s \in V!Slots : saves'[s].st \in {"none", "put", "sync", "load", "over"}
  BY DEF ViewSave
<1>6. V!TypeOK'
  BY <1>1, <1>2, <1>3, <1>4, <1>5 DEF ViewInv, ViewShape, V!TypeOK, V!Functions
<1>7. ViewShape'
  BY <1>1, <1>2, <1>4, <1>6 DEF ViewInv, ViewShape
<1>8. \A s \in V!Slots : saves'[s].st = "put" => saves'[s].rev < stored.rev /\ saves'[s].rev \in Nat
  BY <1>2 DEF ViewInv, ViewRevsOk, ViewShape, ViewSave, ViewDoc
<1>9. ViewRevsOk' /\ ViewWorkOk'
  BY <1>1, <1>2, <1>8 DEF ViewRevsOk, ViewWorkOk, V!WarnedOfUnsavedWork
<1>10. ViewTestOk'
  BY <1>1 DEF ViewTestOk, V!ResultIsOfTheFunction
<1> QED
  BY <1>7, <1>9, <1>10 DEF ViewInv

LEMMA ViewLoading ==
  ASSUME ViewConstants, ViewInv, V!LandFirst \/ \E s \in V!Slots : V!LandReload(s)
  PROVE  ViewInv'
<1>1. UNCHANGED <<stored, fresh, raw, broken, failed, canWrite, mayWrite, testing, edits>>
  BY DEF V!LandFirst, V!LandReload, V!rights
<1>2. ASSUME V!KeepDoc, loading' \in BOOLEAN, loading' => loading, trouble' \in 0 .. MaxTrouble, saves' \in [V!Slots -> ViewSave],
             \A s \in V!Slots : saves'[s] = saves[s] \/ saves'[s].st = "over"
      PROVE  ViewInv'
  <2>1. UNCHANGED <<ddoc, dirty, known, loaded, midway, name, tab, quick, overtaken>>
    BY <1>2 DEF V!KeepDoc
  <2>2. \A s \in V!Slots : saves'[s].st \in {"none", "put", "sync", "load", "over"}
    BY <1>2 DEF ViewSave
  <2>3. ViewShape'
    BY <1>1, <1>2, <2>1, <2>2 DEF ViewInv, ViewShape, V!TypeOK, V!Functions
  <2>4. ViewRevsOk'
    <3>1. \A s \in V!Slots : saves'[s].st \in {"put", "sync", "load"} => saves'[s] = saves[s]
      BY <1>2
    <3> QED
      BY <1>1, <1>2, <2>1, <3>1 DEF ViewInv, ViewRevsOk
  <2>5. ViewWorkOk'
    BY <1>1, <1>2, <2>1 DEF ViewInv, ViewWorkOk, V!WarnedOfUnsavedWork
  <2> QED
    BY <1>1, <2>1, <2>3, <2>4, <2>5, ViewKept DEF ViewInv
<1>3. /\ trouble \in 0 .. MaxTrouble /\ saves \in [V!Slots -> ViewSave] /\ loading \in BOOLEAN
      /\ V!Fail => trouble' \in 0 .. MaxTrouble
  BY DEF ViewInv, ViewShape, V!TypeOK, V!Fail, ViewConstants
<1>4. CASE V!LandFirst
  <2>1. loading /\ loading' = FALSE /\ saves' = saves /\ ddoc.rev < stored.rev
    BY <1>4 DEF V!LandFirst, ViewInv, ViewRevsOk
  <2>2. CASE V!LoadDesignDoc(None) /\ UNCHANGED trouble
    <3>1. \A s \in V!Slots : saves'[s].st \notin {"sync", "load"}
      BY <2>1 DEF ViewInv, ViewRevsOk
    <3> QED
      BY <1>1, <1>3, <2>1, <2>2, <3>1, ViewLoaded
  <2>3. CASE V!Fail /\ V!KeepDoc
    BY <1>2, <1>3, <2>1, <2>3
  <2> QED
    BY <1>4, <2>2, <2>3 DEF V!LandFirst
<1>5. ASSUME NEW s \in V!Slots, V!LandReload(s)
      PROVE  ViewInv'
  <2>1. saves[s].st = "load" /\ saves' = [saves EXCEPT ![s] = [V!NoSave EXCEPT !.st = "over"]] /\ loading' = loading
    BY <1>5 DEF V!LandReload, V!Over
  <2>2. ddoc.rev < stored.rev /\ ~loading /\ saves[s].name \in Names \union {None}
    BY <1>3, <2>1 DEF ViewInv, ViewRevsOk, ViewSave
  <2>3. [V!NoSave EXCEPT !.st = "over"] = [st |-> "over", rev |-> 0, fns |-> V!NoFns, name |-> None]
    BY DEF V!NoSave
  <2>4. saves' \in [V!Slots -> ViewSave] /\ saves'[s].st = "over"
    BY <1>3, <2>1, <2>3, ViewStub DEF ViewSave
  <2>5. \A t \in V!Slots : t # s => saves'[t] = saves[t]
    BY <1>3, <2>1
  <2>6. CASE V!LoadDesignDoc(saves[s].name) /\ UNCHANGED trouble
    <3>1. \A t \in V!Slots : /\ saves'[t].st \notin {"sync", "load"}
                             /\ saves'[t].st = "put" => saves'[t] = saves[t]
      BY <2>1, <2>4, <2>5 DEF ViewInv, ViewRevsOk
    <3>2. loading' = FALSE
      BY <2>1, <2>2, <1>3
    <3> QED
      BY <1>1, <1>3, <2>2, <2>4, <2>6, <3>1, <3>2, ViewLoaded
  <2>7. CASE V!Fail /\ V!KeepDoc
    BY <1>2, <1>3, <2>1, <2>4, <2>5, <2>7
  <2> QED
    BY <1>5, <2>6, <2>7 DEF V!LandReload
<1> QED
  BY <1>4, <1>5

\* A save that is taken is the editor's own revision, and so no other one is on its way back.
LEMMA ViewSaving ==
  ASSUME ViewConstants, ViewInv, NEW s \in V!Slots, V!Save(s) \/ V!LandPut(s) \/ V!LandSync(s)
  PROVE  ViewInv'
<1>1. UNCHANGED <<ddoc, name, tab, raw, broken, canWrite, mayWrite, loading, quick, testing, edits, loaded,
                  midway, overtaken>>
  BY DEF V!Save, V!LandPut, V!LandSync, V!history, V!rights
<1>2. ViewTestOk'
  BY <1>1, ViewKept
<1>3. ASSUME stored' \in ViewDoc, saves' \in [V!Slots -> ViewSave], known' \in ViewFns, fresh' \in BOOLEAN,
             dirty' \in BOOLEAN, failed' \in BOOLEAN, trouble' \in 0 .. MaxTrouble
      PROVE  ViewShape'
  <2>1. V!Functions(stored'.fns) /\ V!Functions(known') /\ stored'.rev \in Nat
    BY <1>3, ViewFnsElim DEF ViewDoc
  <2>2. \A t \in V!Slots : saves'[t].st \in {"none", "put", "sync", "load", "over"}
    BY <1>3 DEF ViewSave
  <2>3. V!TypeOK'
    BY <1>1, <1>3, <2>1, <2>2 DEF ViewInv, ViewShape, V!TypeOK, V!Functions
  <2> QED
    BY <1>1, <1>3, <2>3 DEF ViewInv, ViewShape
<1>4. /\ stored \in ViewDoc /\ saves \in [V!Slots -> ViewSave] /\ known \in ViewFns /\ fresh \in BOOLEAN
      /\ dirty \in BOOLEAN /\ failed \in BOOLEAN /\ trouble \in 0 .. MaxTrouble /\ ddoc \in ViewDoc
      /\ name \in Names \union {None} /\ stored.rev \in Nat /\ ddoc.rev \in Nat
  BY DEF ViewInv, ViewShape, V!TypeOK, ViewDoc
<1>5. CASE V!Save(s)
  <2>1. UNCHANGED <<stored, fresh, dirty, trouble, known>>
    BY <1>5 DEF V!Save, V!history
  <2>2. CASE failed' = TRUE /\ UNCHANGED saves
    BY <1>1, <1>2, <1>3, <1>4, <2>1, <2>2, ViewKept DEF ViewInv
  <2>3. CASE V!Send(s) /\ UNCHANGED failed
    <3> DEFINE new == [st |-> "put", rev |-> ddoc.rev, fns |-> ddoc.fns, name |-> None]
    <3>1. saves' = [saves EXCEPT ![s] = new]
      BY <2>3 DEF V!Send
    <3>2. new \in ViewSave /\ new.st = "put" /\ new.rev = ddoc.rev /\ new.fns = ddoc.fns
      BY <1>4 DEF ViewSave, ViewDoc
    <3> HIDE DEF new
    <3>3. saves' \in [V!Slots -> ViewSave]
      BY <1>4, <3>1, <3>2
    <3>4. saves'[s] = new /\ \A t \in V!Slots : t # s => saves'[t] = saves[t]
      BY <1>4, <3>1
    <3>5. ViewRevsOk'
      BY <1>1, <1>4, <2>1, <3>2, <3>4 DEF ViewInv, ViewRevsOk
    <3>6. ViewWorkOk'
      BY <1>1, <1>4, <2>1, <3>2, <3>4 DEF ViewInv, ViewWorkOk, V!WarnedOfUnsavedWork
    <3> QED
      BY <1>2, <1>3, <1>4, <2>1, <2>3, <3>3, <3>5, <3>6 DEF ViewInv
  <2> QED
    BY <1>5, <2>2, <2>3 DEF V!Save
<1>6. CASE V!LandPut(s)
  <2>1. saves[s].st = "put" /\ saves[s].rev <= ddoc.rev /\ ddoc.rev <= stored.rev
        /\ saves[s].rev \in Nat /\ saves[s].fns \in ViewFns
    BY <1>4, <1>6 DEF V!LandPut, ViewInv, ViewRevsOk, ViewSave
  <2>2. ASSUME V!Accepted(s), stored' = [rev |-> stored.rev + 1, fns |-> saves[s].fns],
               failed' = FALSE, dirty' = FALSE, known' = saves[s].fns, UNCHANGED trouble,
               NEW st \in {"sync", "load"}, saves' = [saves EXCEPT ![s] = [@ EXCEPT !.st = st, !.name = name]],
               fresh' = (fresh /\ saves'[s].st = "sync")
        PROVE  ViewInv'
    <3>1. stored' \in ViewDoc /\ stored'.rev = stored.rev + 1
      BY <1>4, <2>1, <2>2 DEF ViewDoc
    <3>2. saves[s].rev = stored.rev /\ ddoc.rev = stored.rev
      BY <1>4, <2>1, <2>2 DEF V!Accepted
    <3> DEFINE new == [saves[s] EXCEPT !.st = st, !.name = name]
    <3>3. new \in ViewSave /\ new.st = st
      BY <1>4 DEF ViewSave
    <3>4. saves' = [saves EXCEPT ![s] = new]
      BY <2>2
    <3> HIDE DEF new
    <3>5. saves' \in [V!Slots -> ViewSave] /\ saves'[s] = new /\ \A t \in V!Slots : t # s => saves'[t] = saves[t]
      BY <1>4, <3>3, <3>4
    <3>6. fresh' \in BOOLEAN /\ dirty' \in BOOLEAN /\ failed' \in BOOLEAN
      BY <2>2
    <3>7. ViewShape'
      BY <1>3, <1>4, <2>1, <2>2, <3>1, <3>5, <3>6
    <3>8. ~loading /\ \A t \in V!Slots : saves[t].st \notin {"sync", "load"}
      BY <1>4, <3>2 DEF ViewInv, ViewRevsOk
    <3>9. ViewRevsOk'
      <4>1. \A t \in V!Slots : saves'[t].st = "put" => t # s /\ saves[t].st = "put" /\ saves'[t] = saves[t]
        BY <3>3, <3>5
      <4>2. \A t \in V!Slots : saves'[t].st \in {"sync", "load"} => t = s
        BY <3>5, <3>8
      <4> QED
        BY <1>1, <1>4, <3>1, <3>2, <3>8, <4>1, <4>2 DEF ViewInv, ViewRevsOk
    <3>10. ViewWorkOk'
      <4>1. ~midway => saves[s].fns = ddoc.fns
        BY <2>1, <3>2 DEF ViewInv, ViewWorkOk
      <4>2. \A t \in V!Slots : saves'[t].st = "put" => saves'[t].rev # stored'.rev
        <5>1. \A t \in V!Slots : saves[t].rev \in Nat
          BY <1>4 DEF ViewSave
        <5> QED
          BY <1>4, <3>1, <3>2, <3>3, <3>5, <5>1 DEF ViewInv, ViewRevsOk
      <4>3. ddoc'.rev # stored'.rev
        BY <1>1, <1>4, <3>1, <3>2
      <4> QED
        BY <1>1, <2>2, <4>1, <4>2, <4>3 DEF ViewWorkOk, V!WarnedOfUnsavedWork
    <3> QED
      BY <1>2, <3>7, <3>9, <3>10 DEF ViewInv
  <2>3. ASSUME failed' = TRUE, V!Over(s), UNCHANGED <<stored, dirty, known, fresh>>, trouble' = trouble \/ V!Fail
        PROVE  ViewInv'
    <3> DEFINE new == [V!NoSave EXCEPT !.st = "over"]
    <3>1. saves' = [saves EXCEPT ![s] = new]
      BY <2>3 DEF V!Over
    <3>2. new \in ViewSave /\ new.st = "over"
      BY ViewStub DEF ViewSave, V!NoSave
    <3> HIDE DEF new
    <3>3. saves' \in [V!Slots -> ViewSave] /\ saves'[s] = new /\ \A t \in V!Slots : t # s => saves'[t] = saves[t]
      BY <1>4, <3>1, <3>2
    <3>4. trouble' \in 0 .. MaxTrouble
      BY <1>4, <2>3 DEF V!Fail, ViewConstants
    <3>5. ViewShape'
      BY <1>3, <1>4, <2>3, <3>3, <3>4
    <3>6. ViewRevsOk'
      BY <1>1, <2>3, <3>2, <3>3 DEF ViewInv, ViewRevsOk
    <3>7. ViewWorkOk'
      BY <1>1, <2>3, <3>2, <3>3 DEF ViewInv, ViewWorkOk, V!WarnedOfUnsavedWork
    <3> QED
      BY <1>2, <3>5, <3>6, <3>7 DEF ViewInv
  <2> QED
    BY <1>6, <2>2, <2>3 DEF V!LandPut
<1>7. CASE V!LandSync(s)
  <2>1. saves[s].st = "sync" /\ fresh' = FALSE /\ UNCHANGED <<stored, dirty, failed, trouble, known>>
    BY <1>7 DEF V!LandSync, V!history
  <2> DEFINE new == [saves[s] EXCEPT !.st = "load", !.name = name]
  <2>2. saves' = [saves EXCEPT ![s] = new]
    BY <1>7 DEF V!LandSync
  <2>3. new \in ViewSave /\ new.st = "load"
    BY <1>4 DEF ViewSave
  <2> HIDE DEF new
  <2>4. saves' \in [V!Slots -> ViewSave] /\ saves'[s] = new /\ \A t \in V!Slots : t # s => saves'[t] = saves[t]
    BY <1>4, <2>2, <2>3
  <2>5. ViewShape'
    BY <1>3, <1>4, <2>1, <2>4
  <2>6. ViewRevsOk'
    BY <1>1, <2>1, <2>3, <2>4 DEF ViewInv, ViewRevsOk
  <2>7. ViewWorkOk'
    BY <1>1, <2>1, <2>3, <2>4 DEF ViewInv, ViewWorkOk, V!WarnedOfUnsavedWork
  <2> QED
    BY <1>2, <2>5, <2>6, <2>7 DEF ViewInv
<1> QED
  BY <1>5, <1>6, <1>7

\* Somebody else's save makes the editor old.
LEMMA ViewElsewhere == ASSUME ViewConstants, ViewInv, V!Elsewhere PROVE ViewInv'
<1>1. PICK n \in DOMAIN stored.fns :
        stored' = [rev |-> stored.rev + 1, fns |-> [m \in DOMAIN stored.fns \ {n} |-> stored.fns[m]]]
  BY DEF V!Elsewhere
<1>2. UNCHANGED <<ddoc, fresh, name, tab, raw, broken, dirty, failed, canWrite, mayWrite, loading, saves, quick,
                  testing, edits, known, loaded, midway, overtaken>>
  BY DEF V!Elsewhere, V!rights, V!history
<1> DEFINE fns == [m \in DOMAIN stored.fns \ {n} |-> stored.fns[m]]
<1>3. stored.fns \in ViewFns /\ stored.rev \in Nat /\ ddoc.rev \in Nat
  BY DEF ViewInv, ViewShape, ViewDoc
<1>4. fns \in ViewFns
  <2>1. fns \in [DOMAIN stored.fns \ {n} -> V!Sources]
    BY <1>3, ViewFnsElim
  <2> HIDE DEF fns
  <2> QED
    BY <1>3, <2>1, ViewFnsElim, ViewFnsIntro
<1>5. stored' = [rev |-> stored.rev + 1, fns |-> fns]
  BY <1>1
<1> HIDE DEF fns
<1>6. stored' \in ViewDoc /\ stored'.rev = stored.rev + 1 /\ V!Functions(stored'.fns)
  BY <1>3, <1>4, <1>5, ViewFnsElim DEF ViewDoc
<1>7. trouble' \in 0 .. MaxTrouble
  BY DEF V!Elsewhere, V!Fail, ViewInv, ViewShape, V!TypeOK, ViewConstants
<1>8. ViewShape'
  <2>1. V!TypeOK'
    BY <1>2, <1>3, <1>6, <1>7 DEF ViewInv, ViewShape, V!TypeOK, V!Functions
  <2> QED
    BY <1>2, <1>6, <2>1 DEF ViewInv, ViewShape
<1>9. \A s \in V!Slots : saves[s].rev \in Nat
  BY DEF ViewInv, ViewShape, ViewSave
<1>10. ViewRevsOk'
  BY <1>2, <1>3, <1>6 DEF ViewInv, ViewRevsOk
<1>11. ViewWorkOk'
  BY <1>2, <1>3, <1>6, <1>9 DEF ViewInv, ViewRevsOk, ViewWorkOk, V!WarnedOfUnsavedWork
<1> QED
  BY <1>2, <1>8, <1>10, <1>11, ViewKept DEF ViewInv

LEMMA ViewInit == ASSUME ViewConstants, V!Init PROVE ViewInv
<1>1. [n \in Names \ {New} |-> V!Stub] \in ViewFns
  <2> DEFINE fns == [n \in Names \ {New} |-> V!Stub]
  <2>1. fns \in [Names \ {New} -> V!Sources] /\ Names \ {New} \in SUBSET Names
    BY ViewStub
  <2> HIDE DEF fns
  <2>2. fns \in ViewFns
    BY <2>1, ViewFnsIntro
  <2> QED
    BY <2>2 DEF fns
<1>2. /\ stored \in ViewDoc /\ loaded = stored.fns /\ fresh \in BOOLEAN /\ loading = ~fresh
      /\ stored.rev = (IF fresh THEN 0 ELSE 1) /\ stored.fns \in ViewFns
  BY <1>1, ViewStub DEF V!Init, ViewDoc
<1>3. ddoc = [rev |-> 0, fns |-> V!NoFns] /\ known = V!NoFns /\ ddoc \in ViewDoc
  BY ViewStub DEF V!Init, ViewDoc
<1>4. saves = [s \in V!Slots |-> V!NoSave] /\ V!NoSave \in ViewSave /\ V!NoSave.st = "none"
  BY ViewStub DEF V!Init, V!NoSave, ViewSave
<1>5. V!TypeOK
  <2>1. V!Functions(stored.fns) /\ V!Functions(ddoc.fns) /\ V!Functions(known) /\ stored.rev \in Nat /\ ddoc.rev \in Nat
    BY <1>2, <1>3, ViewStub, ViewFnsElim DEF ViewDoc
  <2>2. \A s \in V!Slots : saves[s].st \in {"none", "put", "sync", "load", "over"}
    BY <1>4
  <2>3. /\ fresh \in BOOLEAN /\ loading \in BOOLEAN /\ dirty \in BOOLEAN /\ failed \in BOOLEAN /\ canWrite \in BOOLEAN
        /\ mayWrite \in BOOLEAN \union {None} /\ raw \in BOOLEAN /\ (broken => raw)
    BY <1>2 DEF V!Init
  <2>4. name = None /\ tab = "map" /\ edits = 0 /\ trouble = 0
    BY DEF V!Init
  <2> QED
    BY <2>1, <2>2, <2>3, <2>4 DEF V!TypeOK, ViewConstants
<1>6. ViewShape
  <2>1. saves \in [V!Slots -> ViewSave]
    BY <1>4
  <2> QED
    BY <1>2, <1>3, <1>5, <2>1, ViewStub DEF V!Init, ViewShape
<1>7. ViewRevsOk
  <2>1. ddoc.rev = 0 /\ ddoc.rev <= stored.rev /\ (loading => ddoc.rev < stored.rev)
    <3>1. CASE fresh
      <4>1. ~loading
        BY <1>2, <3>1, Zenon
      <4>2. ddoc.rev = 0 /\ stored.rev = 0
        BY <1>2, <1>3, <3>1
      <4> QED
        BY <4>1, <4>2
    <3>2. CASE ~fresh
      BY <1>2, <1>3, <3>2
    <3> QED
      BY <3>1, <3>2
  <2>2. \A s \in V!Slots : saves[s].st = "none"
    BY <1>4
  <2> QED
    BY <2>1, <2>2 DEF ViewRevsOk
<1>8. ViewWorkOk
  BY <1>2, <1>3, <1>4 DEF ViewWorkOk, V!WarnedOfUnsavedWork
<1>9. ViewTestOk
  BY DEF V!Init, ViewTestOk, V!ResultIsOfTheFunction
<1> QED
  BY <1>6, <1>7, <1>8, <1>9 DEF ViewInv

LEMMA ViewNext == ASSUME ViewConstants, ViewInv, [V!Next]_V!vars PROVE ViewInv'
<1>1. CASE V!Next
  BY <1>1, ViewTyping, ViewNaming, ViewAround, ViewLoading, ViewSaving, ViewElsewhere DEF V!Next
<1>2. CASE UNCHANGED V!vars
  <2>1. ViewShape'
    BY <1>2 DEF V!vars, ViewInv, ViewShape, V!TypeOK, V!Functions
  <2> QED
    BY <1>2, <2>1, ViewKept DEF V!vars, ViewInv
<1> QED
  BY <1>1, <1>2

\* The design-document editor warns of unsaved work (beforeunload), and the result it shows is
\* that of the function on the screen, within what the two properties except.
THEOREM EditorShowsItsWork ==
  ASSUME ViewConstants
  PROVE  V!Spec => [](V!TypeOK /\ V!WarnedOfUnsavedWork /\ V!ResultIsOfTheFunction)
<1>1. ViewInv => V!TypeOK /\ V!WarnedOfUnsavedWork /\ V!ResultIsOfTheFunction
  BY DEF ViewInv, ViewShape, ViewWorkOk, ViewTestOk
<1> QED
  BY <1>1, ViewInit, ViewNext, PTL DEF V!Spec

LEMMA ViewSaveStep == ASSUME ViewConstants, ViewInv, V!Next PROVE V!SaveReplacesWhatWasLoadedStep
<1> SUFFICES ASSUME NEW s \in V!Slots, saves[s].st = "put", stored'.rev # stored.rev,
                    saves'[s].st \in {"sync", "load"}, saves[s].rev = ddoc.rev
             PROVE  stored.fns = loaded
  BY DEF V!SaveReplacesWhatWasLoadedStep
<1>1. saves' # saves /\ stored' # stored /\ saves'[s] # saves[s]
  OBVIOUS
<1>2. \E t \in V!Slots : V!LandPut(t)
  BY <1>1 DEF V!Next, V!Type, V!PickReduce, V!Rename, V!AddFunction, V!DeleteFunction, V!SelectFn,
     V!SwitchTab,
     V!ToggleRaw, V!TypeRaw, V!Still, V!LandRights, V!LandFirst, V!Save, V!LandSync, V!LandReload, V!QuickTest,
     V!LandTest, V!Elsewhere
<1>3. PICK t \in V!Slots : V!LandPut(t)
  BY <1>2
<1>4. saves \in [V!Slots -> ViewSave]
  BY DEF ViewInv, ViewShape
<1>5. V!Accepted(t) /\ \E st \in {"sync", "load"} : saves' = [saves EXCEPT ![t] = [@ EXCEPT !.st = st, !.name = name]]
  BY <1>1, <1>3 DEF V!LandPut
<1>6. t = s
  BY <1>1, <1>4, <1>5
<1> QED
  BY <1>5, <1>6 DEF V!Accepted, ViewInv, ViewWorkOk

\* A save that CouchDB takes replaces the functions its author was shown (_saveDoc with the
\* revision of the document in the editor), however saves, syncs and reloads overlapped.
THEOREM SaveReplacesWhatWasShown == ASSUME ViewConstants PROVE V!Spec => V!SaveReplacesWhatWasLoaded
<1>1. ASSUME ViewInv, [V!Next]_V!vars PROVE [V!SaveReplacesWhatWasLoadedStep]_V!vars
  BY <1>1, ViewSaveStep
<1> QED
  BY <1>1, ViewInit, ViewNext, PTL DEF V!Spec, V!SaveReplacesWhatWasLoaded
----------------------------------------------------------------------------
(* Editing a replication: what the replication service puts in the place of masks, and what *)
(* it writes over.                                                                           *)

R == INSTANCE ReplicationEditor

\* There is a server and a database, a source is an endpoint, and None is no URL.
EditConstants == Hosts # {} /\ Dbs # {} /\ "source" \in Kinds /\ None \notin R!Url(R!Shown)

\* A save under way: what it carries.
SaveType == [pc : {"idle", "reading", "writing", "creating"}, url : [Kinds -> R!Url(R!Shown) \union {None}],
             auth : [Kinds -> R!Real], key : Values \union {R!Absent}, clear : BOOLEAN, rev : Nat,
             read : R!Doc(R!Shown) \union {None}]

\* A credential is that of its server; in the form it may be a mask.
AtHome(u) == u.cred \in {u.host, R!Absent}
InForm(u) == AtHome(u) \/ u.cred = R!Mask

StoredOk ==
  /\ stored \in R!Doc(R!Shown) \union {None} /\ revs \in Nat \ {0} /\ mode \in {"create", "edit", "left"}
  /\ stored # None => stored.rev = revs /\ \A k \in Kinds : AtHome(stored.url[k])

\* Whatever carries the latest revision agrees with the document.
LoadOk(l) ==
  /\ l \in [pc : {"none", "asked", "read"}, doc : R!Doc(R!Shown) \union {None}]
  /\ mode # "edit" => l = [pc |-> "none", doc |-> None]
  /\ l.doc # None =>
       /\ \A k \in Kinds : InForm(l.doc.url[k])
       /\ l.doc.rev <= revs
       /\ l.doc.rev = revs /\ stored # None =>
            l.doc.key = stored.key /\ \A k \in Kinds : l.doc.url[k].host = stored.url[k].host
LoadsOk ==
  /\ loads \in [1 .. 2 -> [pc : {"none", "asked", "read"}, doc : R!Doc(R!Shown) \union {None}]]
  /\ \A i \in 1 .. 2 : LoadOk(loads[i])

FormOk(f) ==
  /\ f \in R!Form /\ f.rev <= revs
  /\ \A k \in Kinds : InForm(f.server[k]) /\ (f.over[k] # None => InForm(f.over[k]))
  /\ mode = "create" => \A k \in Kinds : f.loaded[k] = None
  /\ f.rev = revs /\ stored # None =>
       /\ f.hadKey = (stored.key # R!Absent)
       /\ \A k \in Kinds : f.loaded[k] # None => f.loaded[k].host = stored.url[k].host

CarriedOk(s) ==
  /\ \A k \in Kinds : s.url[k] \in R!Url(R!Shown) /\ InForm(s.url[k])
  /\ s.rev <= revs
  /\ s.rev = revs /\ stored # None =>
       /\ s.key = R!Absent /\ ~s.clear => stored.key = R!Absent
       /\ \A k \in Kinds : s.url[k].cred = R!Mask => s.url[k].host = stored.url[k].host
ReadBackOk(s) ==
  /\ s.read # None /\ s.rev <= s.read.rev /\ s.read.rev <= revs
  /\ \A k \in Kinds : AtHome(s.read.url[k])
  /\ s.read.rev = revs /\ stored # None => s.read = stored
SaveOk(s) ==
  /\ s \in SaveType
  /\ s.pc \in {"reading", "writing"} => CarriedOk(s)
  /\ s.pc = "creating" => mode # "edit" /\ \A k \in Kinds : s.url[k] \in R!Url(R!Shown) /\ AtHome(s.url[k])
  /\ s.pc = "writing" => ReadBackOk(s)

EditInv == StoredOk /\ LoadsOk /\ FormOk(form) /\ SaveOk(saving) /\ R!VerifiedIsCurrent

\* What is served of a document: itself, with masks.
LEMMA MaskedDoc ==
  ASSUME NEW d \in R!Doc(R!Shown), \A k \in Kinds : AtHome(d.url[k])
  PROVE  /\ R!Masked(d) \in R!Doc(R!Shown) /\ R!Masked(d).rev = d.rev /\ R!Masked(d).key = d.key
         /\ \A k \in Kinds : InForm(R!Masked(d).url[k]) /\ R!Masked(d).url[k].host = d.url[k].host
<1>1. \A k \in Kinds : d.url[k] \in R!Url(R!Shown)
  BY DEF R!Doc
<1>2. ASSUME NEW k \in Kinds
      PROVE  /\ R!MaskUrl(d.url[k]) \in R!Url(R!Shown) /\ InForm(R!MaskUrl(d.url[k]))
             /\ R!MaskUrl(d.url[k]).host = d.url[k].host
  BY <1>1 DEF R!MaskUrl, R!Url, R!Shown, InForm, AtHome
<1>3. R!Masked(d).url = [k \in Kinds |-> R!MaskUrl(d.url[k])] /\ R!Masked(d).rev = d.rev /\ R!Masked(d).key = d.key
      /\ R!Masked(d).auth = d.auth
  BY DEF R!Masked, R!Doc
<1>4. R!Masked(d) \in R!Doc(R!Shown)
  <2> DEFINE urls == [k \in Kinds |-> R!MaskUrl(d.url[k])]
  <2>1. urls \in [Kinds -> R!Url(R!Shown)]
    BY <1>2
  <2> HIDE DEF urls
  <2>2. R!Masked(d) = [d EXCEPT !.url = urls]
    BY DEF R!Masked, urls
  <2> QED
    BY <2>1, <2>2 DEF R!Doc
<1> QED
  BY <1>2, <1>3, <1>4

\* Nothing of a screen that stays where it is depends on anything else.
LEMMA ScreenKept ==
  ASSUME EditInv, UNCHANGED <<stored, revs, mode>>
  PROVE  /\ StoredOk'
         /\ UNCHANGED loads => LoadsOk'
         /\ UNCHANGED form => FormOk(form)'
         /\ UNCHANGED saving => SaveOk(saving)'
         /\ UNCHANGED <<form, missing>> => R!VerifiedIsCurrent'
<1>1. StoredOk'
  BY DEF EditInv, StoredOk, AtHome
<1>2. UNCHANGED loads => LoadsOk'
  BY DEF EditInv, LoadsOk, LoadOk
<1>3. UNCHANGED form => FormOk(form)'
  BY DEF EditInv, FormOk
<1>4. UNCHANGED saving => SaveOk(saving)'
  BY DEF EditInv, SaveOk, CarriedOk, ReadBackOk
<1>5. UNCHANGED <<form, missing>> => R!VerifiedIsCurrent'
  BY DEF EditInv, R!VerifiedIsCurrent
<1> QED
  BY <1>1, <1>2, <1>3, <1>4, <1>5

\* A change of the document makes whatever was read of it old.
LEMMA ScreenOld ==
  ASSUME EditInv, revs' = revs + 1, mode' \in {mode, "left"}
  PROVE  /\ UNCHANGED <<loads, mode>> => LoadsOk'
         /\ UNCHANGED form => FormOk(form)'
         /\ UNCHANGED <<saving, mode>> => SaveOk(saving)'
         /\ UNCHANGED <<form, missing>> => R!VerifiedIsCurrent'
<1>0. revs \in Nat
  BY DEF EditInv, StoredOk
<1>2. UNCHANGED <<loads, mode>> => LoadsOk'
  <2> SUFFICES ASSUME UNCHANGED <<loads, mode>>, NEW i \in 1 .. 2 PROVE LoadOk(loads[i])'
    BY DEF EditInv, LoadsOk
  <2>1. LoadOk(loads[i])
    BY DEF EditInv, LoadsOk
  <2> QED
    BY <1>0, <2>1 DEF LoadOk, R!Doc
<1>3. UNCHANGED form => FormOk(form)'
  BY <1>0 DEF EditInv, FormOk, R!Form
<1>4. UNCHANGED <<saving, mode>> => SaveOk(saving)'
  <2> SUFFICES ASSUME UNCHANGED <<saving, mode>> PROVE SaveOk(saving)'
    OBVIOUS
  <2>1. saving.rev \in Nat /\ (saving.read # None => saving.read.rev \in Nat)
    BY DEF EditInv, SaveOk, SaveType, R!Doc
  <2>2. CarriedOk(saving) => CarriedOk(saving)'
    BY <1>0, <2>1 DEF CarriedOk
  <2>3. ReadBackOk(saving) => ReadBackOk(saving)'
    BY <1>0, <2>1 DEF ReadBackOk
  <2> QED
    BY <2>2, <2>3 DEF EditInv, SaveOk
<1>5. UNCHANGED <<form, missing>> => R!VerifiedIsCurrent'
  BY DEF EditInv, R!VerifiedIsCurrent
<1> QED
  BY <1>2, <1>3, <1>4, <1>5

\* What the form would save is a URL, once it is complete.
LEMMA Effective ==
  ASSUME EditInv, NEW k \in Kinds, form.over[k] # None \/ form.db[k] # None
  PROVE  R!EffectiveUrl(k) \in R!Url(R!Shown) /\ InForm(R!EffectiveUrl(k))
BY DEF EditInv, FormOk, R!Form, R!EffectiveUrl, R!Url, InForm, AtHome

LEMMA BlankForm == ASSUME EditConstants PROVE
  /\ R!Blank \in R!Form /\ R!Blank.rev = 0
  /\ \A k \in Kinds : R!Blank.server[k].cred = R!Absent /\ R!Blank.over[k] = None /\ R!Blank.loaded[k] = None
BY DEF EditConstants, R!Blank, R!Form, R!Home, R!Shown, R!Real, R!Ids

LEMMA OpenStep == ASSUME EditConstants, EditInv, NEW m \in {"create", "edit"}, R!Open(m) PROVE EditInv'
<1>1. StoredOk'
  BY DEF R!Open, EditInv, StoredOk, AtHome
<1>2. LoadsOk'
  BY DEF R!Open, LoadsOk, LoadOk, R!NoLoads, R!Unread
<1>4. FormOk(form)'
  BY BlankForm DEF R!Open, EditInv, StoredOk, FormOk, InForm, AtHome
<1>5. SaveOk(saving)'
  BY DEF R!Open, EditInv, SaveOk
<1>6. R!VerifiedIsCurrent'
  BY DEF R!Open, R!VerifiedIsCurrent
<1> QED
  BY <1>1, <1>2, <1>4, <1>5, <1>6 DEF EditInv

LEMMA LeaveStep == ASSUME EditInv, R!Leave PROVE EditInv'
<1>1. StoredOk'
  BY DEF R!Leave, EditInv, StoredOk, AtHome
<1>2. LoadsOk'
  BY DEF R!Leave, LoadsOk, LoadOk, R!NoLoads, R!Unread
<1>3. FormOk(form)'
  BY DEF R!Leave, EditInv, FormOk
<1>4. SaveOk(saving)'
  BY DEF R!Leave, EditInv, SaveOk
<1>5. R!VerifiedIsCurrent'
  BY DEF R!Leave, R!VerifiedIsCurrent
<1> QED
  BY <1>1, <1>2, <1>3, <1>4, <1>5 DEF EditInv

LEMMA ServedStep == ASSUME EditInv, NEW i \in 1 .. 2, R!Served(i) PROVE EditInv'
<1>1. UNCHANGED <<stored, revs, mode, form, saving, missing>>
  BY DEF R!Served
<1>2. StoredOk /\ mode = "edit"
  BY DEF R!Served, EditInv, LoadsOk, LoadOk
<1> DEFINE got == [pc |-> "read", doc |-> IF stored = None THEN None ELSE R!Masked(stored)]
<1>3. LoadOk(got)
  <2>1. CASE stored = None
    BY <1>2, <2>1 DEF LoadOk
  <2>2. CASE stored # None
    BY <1>2, <2>2, MaskedDoc DEF LoadOk, StoredOk
  <2> QED
    BY <2>1, <2>2
<1> HIDE DEF got
<1>4. loads' = [loads EXCEPT ![i] = got]
  BY DEF R!Served, got
<1>5. LoadsOk'
  BY <1>1, <1>3, <1>4 DEF EditInv, LoadsOk, LoadOk
<1> QED
  BY <1>1, <1>5, ScreenKept DEF EditInv

LEMMA LandStep == ASSUME EditInv, NEW i \in 1 .. 2, R!Land(i) PROVE EditInv'
<1>1. UNCHANGED <<stored, revs, mode, saving>>
  BY DEF R!Land
<1>2. LoadsOk'
  <2>1. loads' = [loads EXCEPT ![i] = [pc |-> "none", doc |-> None]]
    BY DEF R!Land
  <2> QED
    BY <1>1, <2>1 DEF EditInv, LoadsOk, LoadOk
<1>3. CASE loads[i].doc = None
  BY <1>1, <1>2, <1>3, ScreenKept DEF R!Land, EditInv
<1>4. CASE loads[i].doc # None
  <2> DEFINE d == loads[i].doc
  <2>1. d \in R!Doc(R!Shown) /\ LoadOk(loads[i]) /\ d # None /\ mode = "edit" /\ revs \in Nat
    BY <1>4 DEF EditInv, LoadsOk, LoadOk, R!Land, StoredOk
  <2>2. form' = R!Populated(d) /\ missing' = None
    BY <1>4 DEF R!Land
  <2>3. FormOk(R!Populated(d))
    <3>1. \A k \in Kinds : d.url[k] \in R!Url(R!Shown) /\ InForm(d.url[k])
      BY <2>1 DEF R!Doc, LoadOk
    <3> HIDE DEF d
    <3>2. R!Populated(d) \in R!Form
      BY <2>1, <3>1 DEF R!Populated, R!Form, R!Doc, R!Url, R!Ids
    <3>3. /\ R!Populated(d).rev = d.rev /\ R!Populated(d).hadKey = (d.key # R!Absent)
          /\ \A k \in Kinds : /\ R!Populated(d).server[k].cred = d.url[k].cred
                              /\ R!Populated(d).server[k].host = d.url[k].host
                              /\ R!Populated(d).over[k] = d.url[k] /\ R!Populated(d).loaded[k] = d.url[k]
      BY DEF R!Populated
    <3>4. \A k \in Kinds : InForm(R!Populated(d).server[k]) /\ InForm(R!Populated(d).over[k])
      BY <3>1, <3>3 DEF InForm, AtHome
    <3>5. d.rev <= revs /\ (d.rev = revs /\ stored # None =>
              d.key = stored.key /\ \A k \in Kinds : d.url[k].host = stored.url[k].host)
      BY <2>1 DEF LoadOk, d
    <3> QED
      BY <2>1, <3>2, <3>3, <3>4, <3>5 DEF FormOk
  <2> HIDE DEF d
  <2>4. FormOk(form)'
    BY <1>1, <2>2, <2>3 DEF FormOk
  <2> QED
    BY <1>1, <1>2, <2>2, <2>4, ScreenKept DEF EditInv, R!VerifiedIsCurrent
<1> QED
  BY <1>3, <1>4

\* Typing into the form: a new form about the same load.
LEMMA EditStep ==
  ASSUME EditInv, NEW f \in R!Form, form' = f, UNCHANGED <<stored, revs, mode, loads, saving>>,
         \A k \in Kinds : InForm(f.server[k]) /\ (f.over[k] # None => InForm(f.over[k])),
         f.rev \in {0, form.rev}, f.hadKey = form.hadKey, f.loaded = form.loaded, R!VerifiedIsCurrent'
  PROVE  EditInv'
<1>1. FormOk(f)
  BY DEF EditInv, FormOk, StoredOk
<1>2. FormOk(form)'
  BY <1>1 DEF FormOk
<1> QED
  BY <1>2, ScreenKept DEF EditInv

LEMMA ChooseServerStep == ASSUME EditInv, NEW k \in Kinds, R!ChooseServer(k) PROVE EditInv'
<1>1. PICK h \in Hosts, c \in R!Real :
        /\ c \in {h, R!Absent} /\ UNCHANGED missing
        /\ R!Edited([form EXCEPT !.server[k] = [host |-> h, cred |-> c], !.over[k] = None])
  BY DEF R!ChooseServer
<1> DEFINE f == [form EXCEPT !.server[k] = [host |-> h, cred |-> c], !.over[k] = None]
<1>2. form \in R!Form /\ FormOk(form)
  BY DEF EditInv, FormOk
<1>3. f \in R!Form /\ f.rev = form.rev /\ f.hadKey = form.hadKey /\ f.loaded = form.loaded
      /\ f.db = form.db /\ f.ids = form.ids
  BY <1>1, <1>2 DEF R!Form, R!Shown
<1>4. \A j \in Kinds : InForm(f.server[j]) /\ (f.over[j] # None => InForm(f.over[j]))
  BY <1>1, <1>2 DEF FormOk, R!Form, InForm, AtHome
<1>5. form' = f /\ UNCHANGED <<stored, revs, mode, loads, saving, missing>>
  BY <1>1 DEF R!Edited
<1> HIDE DEF f
<1>6. R!VerifiedIsCurrent'
  BY <1>3, <1>5 DEF EditInv, R!VerifiedIsCurrent
<1> QED
  BY <1>3, <1>4, <1>5, <1>6, EditStep

LEMMA ChooseDbStep == ASSUME EditConstants, EditInv, NEW k \in Kinds, R!ChooseDb(k) PROVE EditInv'
<1>1. PICK d \in Dbs : R!Edited([form EXCEPT !.db[k] = d, !.over[k] = None])
  BY DEF R!ChooseDb
<1> DEFINE f == [form EXCEPT !.db[k] = d, !.over[k] = None]
<1>2. form \in R!Form /\ FormOk(form)
  BY DEF EditInv, FormOk
<1>3. f \in R!Form /\ f.rev = form.rev /\ f.hadKey = form.hadKey /\ f.loaded = form.loaded
      /\ f.ids = form.ids
      /\ (k # "source" => f.db["source"] = form.db["source"])
  BY <1>1, <1>2 DEF EditConstants, R!Form
<1>4. \A j \in Kinds : InForm(f.server[j]) /\ (f.over[j] # None => InForm(f.over[j]))
  BY <1>1, <1>2 DEF FormOk, R!Form
<1>5. form' = f /\ UNCHANGED <<stored, revs, mode, loads, saving>>
  BY <1>1 DEF R!Edited
<1> HIDE DEF f
<1>6. R!VerifiedIsCurrent'
  BY <1>3, <1>5 DEF EditInv, R!VerifiedIsCurrent, R!ChooseDb
<1> QED
  BY <1>3, <1>4, <1>5, <1>6, EditStep

LEMMA EditAuthStep == ASSUME EditInv, NEW k \in Kinds, R!EditAuth(k) PROVE EditInv'
<1>1. PICK a \in R!Real : R!Edited([form EXCEPT !.auth[k] = a])
  BY DEF R!EditAuth
<1> DEFINE f == [form EXCEPT !.auth[k] = a]
<1>2. form \in R!Form /\ FormOk(form)
  BY DEF EditInv, FormOk
<1>3. f \in R!Form /\ f.rev = form.rev /\ f.hadKey = form.hadKey /\ f.loaded = form.loaded
      /\ f.ids = form.ids /\ f.db = form.db
      /\ f.server = form.server /\ f.over = form.over
  BY <1>1, <1>2 DEF R!Form
<1>4. form' = f /\ UNCHANGED <<stored, revs, mode, loads, saving, missing>>
  BY <1>1 DEF R!Edited, R!EditAuth
<1> HIDE DEF f
<1>5. R!VerifiedIsCurrent'
  BY <1>3, <1>4 DEF EditInv, R!VerifiedIsCurrent
<1> QED
  BY <1>2, <1>3, <1>4, <1>5, EditStep DEF FormOk

LEMMA EditKeyStep == ASSUME EditInv, R!EditKey PROVE EditInv'
<1>1. PICK v \in Values \union {R!Absent} : R!Edited([form EXCEPT !.key = v])
  BY DEF R!EditKey
<1> DEFINE f == [form EXCEPT !.key = v]
<1>2. form \in R!Form /\ FormOk(form)
  BY DEF EditInv, FormOk
<1>3. f \in R!Form /\ f.rev = form.rev /\ f.hadKey = form.hadKey /\ f.loaded = form.loaded
      /\ f.ids = form.ids /\ f.db = form.db
      /\ f.server = form.server /\ f.over = form.over
  BY <1>1, <1>2 DEF R!Form
<1>4. form' = f /\ UNCHANGED <<stored, revs, mode, loads, saving, missing>>
  BY <1>1 DEF R!Edited, R!EditKey
<1> HIDE DEF f
<1>5. R!VerifiedIsCurrent'
  BY <1>3, <1>4 DEF EditInv, R!VerifiedIsCurrent
<1> QED
  BY <1>2, <1>3, <1>4, <1>5, EditStep DEF FormOk

LEMMA EditIdsStep == ASSUME EditInv, R!EditIds PROVE EditInv'
<1>1. PICK n \in R!Ids : R!Edited([form EXCEPT !.ids = n])
  BY DEF R!EditIds
<1> DEFINE f == [form EXCEPT !.ids = n]
<1>2. form \in R!Form /\ FormOk(form)
  BY DEF EditInv, FormOk
<1>3. f \in R!Form /\ f.rev = form.rev /\ f.hadKey = form.hadKey /\ f.loaded = form.loaded
      /\ f.server = form.server /\ f.over = form.over
  BY <1>1, <1>2 DEF R!Form
<1>4. form' = f /\ UNCHANGED <<stored, revs, mode, loads, saving>>
  BY <1>1 DEF R!Edited
<1>5. R!VerifiedIsCurrent'
  BY DEF R!EditIds, R!VerifiedIsCurrent
<1> HIDE DEF f
<1> QED
  BY <1>2, <1>3, <1>4, <1>5, EditStep DEF FormOk

LEMMA ApplySourceStep == ASSUME EditInv, NEW k \in Kinds, R!ApplySource(k) PROVE EditInv'
<1>1. PICK u \in R!Url(R!Shown), v \in Values \union {R!Absent}, keep \in BOOLEAN :
        /\ u.cred \in {u.host, R!Absent, R!Mask}
        /\ R!Edited([form EXCEPT
             !.server[k] = [host |-> u.host, cred |-> u.cred], !.db[k] = u.db,
             !.over = [j \in Kinds |-> IF j = k THEN u ELSE R!EffectiveUrl(j)],
             !.key = v, !.rev = IF keep THEN @ ELSE 0])
  BY DEF R!ApplySource
<1>2. form \in R!Form /\ FormOk(form) /\ \A j \in Kinds : form.db[j] # None
  BY DEF EditInv, FormOk, R!ApplySource
<1> DEFINE newOver == [j \in Kinds |-> IF j = k THEN u ELSE R!EffectiveUrl(j)]
           newRev == IF keep THEN form.rev ELSE 0
           newServer == [form.server EXCEPT ![k] = [host |-> u.host, cred |-> u.cred]]
           newDb == [form.db EXCEPT ![k] = u.db]
           f == [form EXCEPT !.server = newServer, !.db = newDb, !.over = newOver, !.key = v, !.rev = newRev]
<1>3. newOver \in [Kinds -> R!Url(R!Shown)] /\ \A j \in Kinds : InForm(newOver[j])
  BY <1>1, <1>2, Effective DEF InForm, AtHome
<1>4. newServer \in [Kinds -> [host : Hosts, cred : R!Shown]] /\ \A j \in Kinds : InForm(newServer[j])
  <2>1. form.server \in [Kinds -> [host : Hosts, cred : R!Shown]] /\ \A j \in Kinds : InForm(form.server[j])
    BY <1>2 DEF FormOk, R!Form
  <2>2. [host |-> u.host, cred |-> u.cred] \in [host : Hosts, cred : R!Shown] /\ InForm([host |-> u.host, cred |-> u.cred])
    BY <1>1 DEF R!Url, InForm, AtHome
  <2> QED
    BY <2>1, <2>2
<1>5. newDb \in [Kinds -> Dbs \union {None}]
  BY <1>1, <1>2 DEF R!Form, R!Url
<1>6. newRev \in Nat /\ newRev \in {0, form.rev}
  BY <1>2 DEF R!Form
<1>7. form' = f /\ UNCHANGED <<stored, revs, mode, loads, saving>>
  BY <1>1 DEF R!Edited
<1>8. R!VerifiedIsCurrent'
  BY DEF R!ApplySource, R!VerifiedIsCurrent
<1> HIDE DEF newOver, newRev, newServer, newDb
<1>9. f \in R!Form /\ f.rev = newRev /\ f.hadKey = form.hadKey /\ f.loaded = form.loaded
      /\ f.server = newServer /\ f.over = newOver
  BY <1>1, <1>2, <1>3, <1>4, <1>5, <1>6 DEF R!Form
<1> HIDE DEF f
<1> QED
  BY <1>3, <1>4, <1>6, <1>7, <1>8, <1>9, EditStep

LEMMA VerifyStep == ASSUME EditInv, R!VerifyDocs \/ R!VerifyLands PROVE EditInv'
<1>1. UNCHANGED <<stored, revs, mode, form, loads, saving>>
  BY DEF R!VerifyDocs, R!VerifyLands
<1>2. R!VerifiedIsCurrent'
  BY DEF EditInv, R!VerifyDocs, R!VerifyLands, R!VerifiedIsCurrent, R!StillCurrent
<1> QED
  BY <1>1, <1>2, ScreenKept DEF EditInv

LEMMA SubmitStep == ASSUME EditInv, R!Submit PROVE EditInv'
<1>1. UNCHANGED <<stored, revs, mode, form, loads, missing>>
      /\ mode \in {"create", "edit"} /\ StoredOk /\ FormOk(form)
  BY DEF R!Submit, EditInv, StoredOk
<1>0. PICK s : s = saving'
  OBVIOUS
<1>2. /\ s.pc = (IF mode = "edit" THEN "reading" ELSE "creating") /\ s.url = [k \in Kinds |-> R!EffectiveUrl(k)]
      /\ s.auth = form.auth /\ s.key = form.key /\ s.clear = R!Clears /\ s.rev = (IF mode = "edit" THEN form.rev ELSE 0)
      /\ s.read = None
      /\ s = [pc |-> s.pc, url |-> s.url, auth |-> s.auth, key |-> s.key, clear |-> s.clear, rev |-> s.rev, read |-> s.read]
  BY <1>0 DEF R!Submit
<1>3. ASSUME NEW k \in Kinds PROVE /\ s.url[k] = R!EffectiveUrl(k) /\ s.url[k] \in R!Url(R!Shown) /\ InForm(s.url[k])
                                   /\ s.url[k].cred = R!Mask => R!SameOrigin(s.url[k], form.loaded[k])
  BY <1>2, Effective DEF R!Submit, R!Complete, R!MaskHasItsServer
<1>4. form.auth \in [Kinds -> R!Real] /\ form.key \in Values \union {R!Absent} /\ form.rev \in Nat /\ form.rev <= revs
  BY <1>1 DEF FormOk, R!Form
<1>5. s \in SaveType
  <2>1. s.url \in [Kinds -> R!Url(R!Shown) \union {None}]
    BY <1>2, <1>3
  <2>2. s.clear \in BOOLEAN
    BY <1>2, Zenon DEF R!Clears
  <2>3. s.pc \in {"reading", "creating"} /\ s.rev \in Nat /\ s.auth \in [Kinds -> R!Real] /\ s.key \in Values \union {R!Absent}
    BY <1>2, <1>4
  <2> QED
    BY <1>2, <2>1, <2>2, <2>3 DEF SaveType
<1>6. ASSUME mode = "edit" PROVE SaveOk(s)
  <2>1. s.pc = "reading" /\ s.rev = form.rev
    BY <1>2, <1>6
  <2>2. ASSUME s.rev = revs, stored # None, s.key = R!Absent, ~s.clear PROVE stored.key = R!Absent
    BY <1>1, <1>2, <1>6, <2>1, <2>2 DEF R!Clears, FormOk
  <2>3. ASSUME s.rev = revs, stored # None, NEW k \in Kinds, s.url[k].cred = R!Mask PROVE s.url[k].host = stored.url[k].host
    BY <1>1, <1>3, <2>1, <2>3 DEF FormOk, R!SameOrigin
  <2>4. CarriedOk(s)
    BY <1>3, <1>4, <2>1, <2>2, <2>3 DEF CarriedOk
  <2> QED
    BY <1>5, <2>1, <2>4 DEF SaveOk
<1>7. ASSUME mode = "create" PROVE SaveOk(s)
  <2>1. s.pc = "creating" /\ mode # "edit"
    BY <1>2, <1>7
  <2>2. ASSUME NEW k \in Kinds PROVE AtHome(s.url[k])
    BY <1>1, <1>3, <1>7 DEF FormOk, R!SameOrigin, InForm
  <2> QED
    BY <1>3, <1>5, <2>1, <2>2 DEF SaveOk
<1>8. SaveOk(saving)'
  <2>1. SaveOk(s)
    BY <1>1, <1>6, <1>7
  <2> QED
    BY <1>0, <1>1, <2>1 DEF SaveOk, CarriedOk, ReadBackOk
<1> QED
  BY <1>1, <1>8, ScreenKept DEF EditInv

LEMMA IdleOk == R!Idle.pc = "idle" /\ R!Idle \in SaveType
BY DEF R!Idle, SaveType, R!Real

LEMMA ReadBackStep == ASSUME EditInv, R!ReadBack PROVE EditInv'
<1>1. UNCHANGED <<stored, revs, mode, form, loads, missing>> /\ StoredOk /\ SaveOk(saving) /\ saving \in SaveType
  BY DEF R!ReadBack, EditInv, SaveOk
<1>2. SaveOk(saving)'
  <2>1. CASE stored = None
    BY <2>1, IdleOk DEF R!ReadBack, SaveOk
  <2>2. CASE stored # None
    <3> DEFINE s == [saving EXCEPT !.pc = "writing", !.read = stored]
    <3>1. saving' = s /\ CarriedOk(saving)
      BY <1>1, <2>2 DEF R!ReadBack, SaveOk
    <3>2. s \in SaveType /\ s.pc = "writing" /\ s.read = stored /\ s.rev = saving.rev /\ s.url = saving.url
          /\ s.key = saving.key /\ s.clear = saving.clear
      BY <1>1, <2>2 DEF SaveType, StoredOk
    <3> HIDE DEF s
    <3>3. CarriedOk(s) /\ ReadBackOk(s)
      BY <1>1, <2>2, <3>1, <3>2 DEF CarriedOk, ReadBackOk, StoredOk
    <3>4. SaveOk(s)
      BY <3>2, <3>3 DEF SaveOk
    <3> QED
      BY <1>1, <3>1, <3>4 DEF SaveOk, CarriedOk, ReadBackOk
  <2> QED
    BY <2>1, <2>2
<1> QED
  BY <1>1, <1>2, ScreenKept DEF EditInv

\* A credential that stands for the stored one is put where it was stored.
LEMMA ResolveAtHome ==
  ASSUME NEW was \in R!Url(R!Shown), NEW u \in R!Url(R!Shown), AtHome(was), InForm(u)
  PROVE  /\ R!Resolve(was, u) \in R!Url(R!Shown) /\ AtHome(R!Resolve(was, u))
         /\ u.cred # R!Mask \/ (u.host = was.host /\ was # None) =>
              R!Resolve(was, u).host = u.host /\ R!Resolve(was, u).db = u.db
         /\ u.cred = R!Mask /\ u.host = was.host /\ was # None => R!Resolve(was, u).cred = was.cred
<1>1. CASE u.cred # R!Mask
  BY <1>1 DEF R!Resolve, InForm
<1>2. CASE u.cred = R!Mask /\ R!SameOrigin(u, was)
  BY <1>2 DEF R!Resolve, R!SameOrigin, R!Url, AtHome
<1>3. CASE u.cred = R!Mask /\ ~R!SameOrigin(u, was)
  BY <1>3 DEF R!Resolve, R!SameOrigin
<1> QED
  BY <1>1, <1>2, <1>3

LEMMA MergedDoc ==
  ASSUME EditInv, saving.pc = "writing"
  PROVE  /\ R!Merged(saving) \in R!Doc(R!Shown) /\ R!Merged(saving).rev = revs + 1
         /\ \A k \in Kinds : AtHome(R!Merged(saving).url[k])
<1>1. saving \in SaveType /\ CarriedOk(saving) /\ ReadBackOk(saving) /\ saving.read \in R!Doc(R!Shown) /\ revs \in Nat
  BY DEF EditInv, SaveOk, SaveType, ReadBackOk, StoredOk
<1> DEFINE urls == [k \in Kinds |-> R!Resolve(saving.read.url[k], saving.url[k])]
           key == IF saving.key # R!Absent THEN saving.key ELSE IF saving.clear THEN R!Absent ELSE saving.read.key
<1>2. urls \in [Kinds -> R!Url(R!Shown)] /\ \A k \in Kinds : AtHome(urls[k])
  <2>1. \A k \in Kinds : saving.read.url[k] \in R!Url(R!Shown)
    BY <1>1 DEF R!Doc
  <2> QED
    BY <1>1, <2>1, ResolveAtHome DEF CarriedOk, ReadBackOk
<1>3. key \in Values \union {R!Absent} /\ saving.auth \in [Kinds -> R!Real]
  BY <1>1 DEF SaveType, R!Doc
<1>4. R!Merged(saving) = [rev |-> revs + 1, url |-> urls, auth |-> saving.auth, key |-> key]
  BY DEF R!Merged
<1> HIDE DEF urls, key
<1> QED
  BY <1>1, <1>2, <1>3, <1>4 DEF R!Doc

LEMMA PutStep == ASSUME EditInv, R!Put PROVE EditInv'
<1>1. UNCHANGED <<form, missing>> /\ SaveOk(saving)'
  BY IdleOk DEF R!Put, SaveOk
<1>2. CASE stored # None /\ stored.rev = R!SentRev(saving)
  <2>1. stored' = R!Merged(saving) /\ revs' = revs + 1 /\ mode' = "left" /\ loads' = R!NoLoads
      /\ saving.pc = "writing"
    BY <1>2 DEF R!Put
  <2>2. StoredOk'
    BY <2>1, MergedDoc DEF EditInv, StoredOk, AtHome
  <2>3. LoadsOk'
    BY <2>1 DEF LoadsOk, LoadOk, R!NoLoads, R!Unread
  <2> QED
    BY <1>1, <2>1, <2>2, <2>3, ScreenOld DEF EditInv
<1>3. CASE ~(stored # None /\ stored.rev = R!SentRev(saving))
  BY <1>1, <1>3, ScreenKept DEF R!Put, EditInv
<1> QED
  BY <1>2, <1>3

LEMMA CreateStep == ASSUME EditInv, R!Create PROVE EditInv'
<1>1. UNCHANGED <<form, missing, loads>> /\ SaveOk(saving)' /\ revs' = revs + 1 /\ mode' = "left"
  BY IdleOk DEF R!Create, SaveOk
<1>2. saving \in SaveType /\ revs \in Nat
      /\ \A k \in Kinds : saving.url[k] \in R!Url(R!Shown) /\ AtHome(saving.url[k])
  BY DEF EditInv, SaveOk, R!Create, StoredOk
<1>3. StoredOk'
  <2>1. stored' = [rev |-> revs + 1, url |-> saving.url, auth |-> saving.auth, key |-> saving.key]
    BY DEF R!Create
  <2>2. saving.url \in [Kinds -> R!Url(R!Shown)]
    BY <1>2 DEF SaveType
  <2>3. stored' \in R!Doc(R!Shown) /\ stored'.rev = revs + 1 /\ stored'.url = saving.url
    BY <1>2, <2>1, <2>2 DEF R!Doc, SaveType
  <2> QED
    BY <1>1, <1>2, <2>3 DEF StoredOk, AtHome
<1>4. LoadsOk'
  <2>1. mode # "edit"
    BY DEF R!Create, EditInv, SaveOk
  <2> QED
    BY <1>1, <2>1 DEF EditInv, LoadsOk, LoadOk
<1> QED
  BY <1>1, <1>3, <1>4, ScreenOld DEF EditInv

LEMMA OthersStep == ASSUME EditInv, R!Others PROVE EditInv'
<1>1. UNCHANGED <<form, missing, loads, mode, saving>> /\ revs' = revs + 1
  BY DEF R!Others
<1>2. stored \in R!Doc(R!Shown) /\ revs \in Nat \ {0}
      /\ mode \in {"create", "edit", "left"} /\ \A k \in Kinds : AtHome(stored.url[k])
  BY DEF R!Others, EditInv, StoredOk
<1>3. StoredOk'
  <2>1. CASE R!Moved
    <3>1. PICK k \in Kinds, h \in Hosts :
            stored' = [stored EXCEPT !.rev = revs + 1, !.url[k].host = h, !.url[k].cred = h, !.auth[k] = R!Absent]
      BY <2>1 DEF R!Moved
    <3> DEFINE url == [stored.url EXCEPT ![k] = [@ EXCEPT !.host = h, !.cred = h]]
               kept == [stored.auth EXCEPT ![k] = R!Absent]
    <3>2. url \in [Kinds -> R!Url(R!Shown)] /\ \A j \in Kinds : AtHome(url[j])
      <4> DEFINE u == [stored.url[k] EXCEPT !.host = h, !.cred = h]
      <4>1. stored.url \in [Kinds -> R!Url(R!Shown)]
        BY <1>2 DEF R!Doc
      <4>2. u \in R!Url(R!Shown) /\ AtHome(u)
        BY <4>1 DEF R!Url, R!Shown, R!Real, AtHome
      <4>3. url = [stored.url EXCEPT ![k] = u]
        OBVIOUS
      <4> HIDE DEF u, url
      <4> QED
        BY <1>2, <4>1, <4>2, <4>3
    <3>3. kept \in [Kinds -> R!Real]
      BY <1>2 DEF R!Doc, R!Real
    <3>4. stored' = [stored EXCEPT !.rev = revs + 1, !.url = url, !.auth = kept]
      BY <1>2, <3>1 DEF R!Doc, R!Url
    <3> HIDE DEF url, kept
    <3>5. stored' \in R!Doc(R!Shown) /\ stored'.rev = revs + 1 /\ stored'.url = url
      <4> DEFINE r == revs + 1
      <4>1. r \in Nat
        BY <1>2
      <4>2. stored' = [stored EXCEPT !.rev = r, !.url = url, !.auth = kept]
        BY <3>4
      <4> HIDE DEF r
      <4>3. stored' \in R!Doc(R!Shown) /\ stored'.rev = r /\ stored'.url = url
        BY <1>2, <3>2, <3>3, <4>1, <4>2 DEF R!Doc
      <4> QED
        BY <4>3 DEF r
    <3> QED
      BY <1>1, <1>2, <3>2, <3>5 DEF StoredOk, AtHome
  <2>2. CASE R!Rekeyed
    <3>1. PICK v \in Values \union {R!Absent} : stored' = [stored EXCEPT !.rev = revs + 1, !.key = v]
      BY <2>2 DEF R!Rekeyed
    <3> DEFINE r == revs + 1
    <3>2. r \in Nat /\ stored' = [stored EXCEPT !.rev = r, !.key = v]
      BY <1>2, <3>1
    <3> HIDE DEF r
    <3>3. stored' \in R!Doc(R!Shown) /\ stored'.rev = r /\ stored'.url = stored.url
      BY <1>2, <3>2 DEF R!Doc
    <3>4. stored' \in R!Doc(R!Shown) /\ stored'.rev = revs + 1 /\ stored'.url = stored.url
      BY <3>3 DEF r
    <3> QED
      BY <1>1, <1>2, <3>4 DEF StoredOk, AtHome
  <2>3. CASE R!DeleteReplication
    BY <1>1, <1>2, <2>3 DEF R!DeleteReplication, StoredOk
  <2> QED
    BY <2>1, <2>2, <2>3 DEF R!Others
<1> QED
  BY <1>1, <1>3, ScreenOld DEF EditInv

LEMMA EditInit == ASSUME EditConstants PROVE R!Init => EditInv
<1> SUFFICES ASSUME R!Init PROVE EditInv
  OBVIOUS
<1>1. StoredOk
  <2>1. CASE stored = None
    BY <2>1 DEF R!Init, StoredOk
  <2>2. CASE stored # None
    <3>1. PICK h \in Hosts, c \in BOOLEAN, v \in Values \union {R!Absent} :
            stored = [rev |-> 1, key |-> v,
                      url |-> [k \in Kinds |-> [host |-> h, db |-> CHOOSE d \in Dbs : TRUE,
                                                cred |-> IF c THEN h ELSE R!Absent]],
                      auth |-> [k \in Kinds |-> IF c THEN R!Absent ELSE h]]
      BY <2>2, Zenon DEF R!Init
    <3> DEFINE cred == IF c THEN h ELSE R!Absent
               other == IF c THEN R!Absent ELSE h
               base == CHOOSE d \in Dbs : TRUE
    <3>2. cred \in {h, R!Absent} /\ cred \in R!Shown /\ other \in R!Real /\ base \in Dbs
      BY DEF EditConstants, R!Shown, R!Real
    <3> HIDE DEF cred, other, base
    <3>3. stored = [rev |-> 1, key |-> v, url |-> [k \in Kinds |-> [host |-> h, db |-> base, cred |-> cred]],
                    auth |-> [k \in Kinds |-> other]]
      BY <3>1 DEF cred, other, base
    <3>4. stored \in R!Doc(R!Shown) /\ stored.rev = 1 /\ \A k \in Kinds : AtHome(stored.url[k])
      BY <3>2, <3>3 DEF R!Doc, R!Url, AtHome
    <3> QED
      BY <3>4 DEF R!Init, StoredOk
  <2> QED
    BY <2>1, <2>2
<1>2. LoadsOk
  BY DEF R!Init, LoadsOk, LoadOk, R!NoLoads, R!Unread
<1>3. FormOk(form)
  BY BlankForm DEF R!Init, FormOk, InForm, AtHome
<1> QED
  BY <1>1, <1>2, <1>3, IdleOk DEF R!Init, EditInv, SaveOk, R!VerifiedIsCurrent

LEMMA EditNext == ASSUME EditConstants, EditInv, [R!Next]_R!vars PROVE EditInv'
<1>1. CASE \E m \in {"create", "edit"} : R!Open(m)
  BY <1>1, OpenStep
<1>2. CASE \E i \in 1 .. 2 : R!Served(i) \/ R!Land(i)
  BY <1>2, ServedStep, LandStep
<1>3. CASE \E k \in Kinds : R!ChooseServer(k) \/ R!ChooseDb(k) \/ R!EditAuth(k) \/ R!ApplySource(k)
  BY <1>3, ChooseServerStep, ChooseDbStep, EditAuthStep, ApplySourceStep
<1>4. CASE UNCHANGED R!vars
  BY <1>4, ScreenKept DEF R!vars, EditInv
<1> QED
  BY <1>1, <1>2, <1>3, <1>4, LeaveStep, EditKeyStep, EditIdsStep, VerifyStep, SubmitStep, ReadBackStep,
     PutStep,
     CreateStep, OthersStep DEF R!Next

\* A save of the revision that was loaded, once it is taken.
LEMMA SavedAsShown == ASSUME EditConstants, EditInv PROVE R!SaveIsWhatWasShownStep
<1> SUFFICES ASSUME R!Put, saving.rev # 0, stored' # stored
             PROVE  /\ stored.rev = saving.rev /\ stored'.key = saving.key
                    /\ \A k \in Kinds : /\ stored'.url[k].host = saving.url[k].host /\ stored'.url[k].db = saving.url[k].db
                                        /\ saving.url[k].cred = R!Mask => stored'.url[k].cred = stored.url[k].cred
  BY DEF R!SaveIsWhatWasShownStep
<1>1. stored # None /\ stored.rev = saving.rev /\ stored' = R!Merged(saving) /\ saving.pc = "writing"
  BY DEF R!Put, R!SentRev
<1>2. saving \in SaveType /\ CarriedOk(saving) /\ ReadBackOk(saving) /\ stored \in R!Doc(R!Shown)
      /\ stored.rev = revs /\ revs \in Nat
      /\ \A k \in Kinds : AtHome(stored.url[k])
  BY <1>1 DEF EditInv, SaveOk, StoredOk
<1>3. saving.read = stored
  <2>1. saving.read.rev \in Nat /\ saving.rev <= saving.read.rev /\ saving.read.rev <= revs
    BY <1>2 DEF SaveType, ReadBackOk, R!Doc
  <2> QED
    BY <1>1, <1>2, <2>1 DEF ReadBackOk
<1>4. stored'.key = saving.key
  BY <1>1, <1>2, <1>3 DEF R!Merged, CarriedOk
<1>5. ASSUME NEW k \in Kinds
      PROVE  /\ stored'.url[k].host = saving.url[k].host /\ stored'.url[k].db = saving.url[k].db
             /\ saving.url[k].cred = R!Mask => stored'.url[k].cred = stored.url[k].cred
  <2>1. stored'.url[k] = R!Resolve(stored.url[k], saving.url[k])
    BY <1>1, <1>3 DEF R!Merged
  <2>2. saving.url[k].cred = R!Mask => saving.url[k].host = stored.url[k].host
    BY <1>1, <1>2 DEF CarriedOk
  <2>3. stored.url[k] \in R!Url(R!Shown) /\ stored.url[k] # None
      /\ saving.url[k] \in R!Url(R!Shown) /\ InForm(saving.url[k])
    BY <1>2 DEF EditConstants, R!Doc, CarriedOk
  <2> QED
    BY <1>2, <2>1, <2>2, <2>3, ResolveAtHome
<1> QED
  BY <1>1, <1>4, <1>5

LEMMA EditInvHolds == ASSUME EditConstants PROVE R!Spec => []EditInv
BY EditInit, EditNext, PTL DEF R!Spec

\* Editing a replication, for any endpoints, servers, edits and writes by others: no save stores a mask
\* for a credential, none puts a stored credential on the URL of another server, and missing documents
\* are listed for the source database and the ids that the form shows.
THEOREM CredentialsKeepTheirServers ==
  ASSUME EditConstants PROVE R!Spec => [](R!UrlCredentialsStayHome /\ R!VerifiedIsCurrent)
<1>1. EditInv => R!UrlCredentialsStayHome /\ R!VerifiedIsCurrent
  BY DEF EditInv, StoredOk, AtHome, R!UrlCredentialsStayHome
<1> QED
  BY <1>1, EditInvHolds, PTL

(* A save of the revision the form was loaded from stores what the form showed and overwrites nobody.     *)
THEOREM ShownIsSaved == ASSUME EditConstants PROVE R!Spec => R!SaveIsWhatWasShown
<1>1. EditInv /\ [R!Next]_R!vars => [R!SaveIsWhatWasShownStep]_R!vars
  BY SavedAsShown
<1> QED
  BY <1>1, EditInvHolds, PTL DEF R!Spec, R!SaveIsWhatWasShown

----------------------------------------------------------------------------
(* The drawer that links a database: any accounts, repositories and branches, calls that are  *)
(* not matched to what is selected when they answer.                                          *)

G == INSTANCE LinkDrawer

DrawerForms == [branch : Branches \union {None}, path : Paths \union {None}]
DrawerCurrent == [branch : Branches, path : Paths]

\* Every repository is of an account and has a default branch, "/" is a path, None is nothing else.
DrawerConstants ==
  /\ AccountOf \in [Repos -> Accounts] /\ DefaultBranch \in [Repos -> Branches] /\ Root \in Paths
  /\ None \notin Accounts /\ None \notin Repos /\ None \notin Branches /\ None \notin Paths
  /\ None \notin DrawerForms /\ None \notin DrawerCurrent /\ None \notin G!Links
  /\ MaxLoads \in Nat

CallOk(l) ==
  /\ l.kind = "connect" => l.account \in Accounts
  /\ l.kind = "repos" => l.account \in Accounts /\ (l.then = "manage" => l.of \in G!Links)
  /\ l.kind = "branches" =>
       l.repo \in Repos /\ l.then \in {"none", "repos", "both", "manage"} /\ (l.then \in {"both", "manage"} => l.of \in G!Links)
  /\ l.kind = "register" => l.request \in G!Links

DrawerTypes ==
  /\ link \in G!Links \union {None} /\ stored \subseteq Accounts /\ listed \subseteq Accounts
  /\ repos \subseteq Repos /\ repo \in Repos \union {None} /\ account \in Accounts \union {None}
  /\ branches \in Repos \union {None} /\ current \in DrawerCurrent \union {None}
  /\ pending \in DrawerForms \union {None}
  /\ \A l \in loads : CallOk(l)
  /\ prompt # None => prompt.kind = "repos" /\ CallOk(prompt)
CallsFit == IsFiniteSet(loads) /\ Cardinality(loads) <= MaxLoads

\* There is a form where the choice of a repository is shown.
FormIsShown == form \in DrawerForms \union {None} /\ (form # None <=> G!ShowsRepos)

\* Unless calls crossed there is one at a time, which is of the account and the repository that
\* are selected, and so are the offers.
OneCall == ~crossed => (\A l, m \in loads : l = m) /\ (prompt # None => loads = {})
AccountsAgree ==
  ~crossed /\ account # None =>
    /\ repos \subseteq G!ReposOf(account) /\ (repo # None => AccountOf[repo] = account)
    /\ \A l \in loads : (l.kind = "repos" => l.account = account) /\ (l.kind = "register" => l.request.account = account)
    /\ prompt # None => prompt.account = account
ReposAgree ==
  ~crossed /\ repo # None =>
    /\ \A l \in loads : l.kind = "branches" => l.repo = repo
    /\ branches # None => branches = repo \/ \E l \in loads : l.kind = "branches"
RequestsAgree ==
  ~crossed => \A l \in loads : l.kind = "register" => AccountOf[l.request.repo] = l.request.account

DrawerInv ==
  /\ DrawerTypes /\ CallsFit /\ FormIsShown /\ OneCall /\ AccountsAgree /\ ReposAgree /\ RequestsAgree
  /\ G!LinkHoldsTogether

\* The module counts as we do.
LEMMA DrawerCounts == \A S : G!Cardinality(S) = Cardinality(S)
  BY DEF G!Cardinality, Cardinality

LEMMA DrawerIsTrue == DrawerInv => G!TypeOK /\ G!OffersAreOfTheChoice /\ G!LinkHoldsTogether
<1> SUFFICES ASSUME DrawerInv PROVE G!TypeOK /\ G!OffersAreOfTheChoice /\ G!LinkHoldsTogether
  OBVIOUS
<1>1. G!TypeOK
  <2>1. form # None => form.branch \in Branches \union {None}
    BY DEF DrawerInv, FormIsShown, DrawerForms
  <2> QED
    BY <2>1, DrawerCounts DEF DrawerInv, DrawerTypes, CallsFit, G!TypeOK
<1>2. G!OffersAreOfTheChoice
  BY DEF DrawerInv, AccountsAgree, ReposAgree, G!OffersAreOfTheChoice
<1> QED
  BY <1>1, <1>2 DEF DrawerInv

LEMMA DrawerStarts == ASSUME DrawerConstants PROVE G!Init => DrawerInv
<1> SUFFICES ASSUME G!Init PROVE DrawerInv
  OBVIOUS
<1>1. /\ link = None \/ (link \in G!Links /\ AccountOf[link.repo] = link.account)
      /\ repoId = (IF link = None THEN None ELSE link.repo)
      /\ repoAccountId = (IF link = None THEN None ELSE link.account)
  BY DEF G!Init, G!Links, DrawerConstants
<1>2. /\ ~open /\ listed = {} /\ account = None /\ repos = {} /\ repo = None /\ branches = None /\ current = None
      /\ form = None /\ pending = None /\ loads = {} /\ prompt = None /\ stored \subseteq Accounts
  BY DEF G!Init
<1>3. CallsFit
  BY <1>2, FS_EmptySet DEF CallsFit, DrawerConstants
<1>4. FormIsShown
  BY <1>2 DEF FormIsShown, G!ShowsRepos, G!RepoSelection
<1>5. DrawerTypes /\ OneCall /\ AccountsAgree /\ ReposAgree /\ RequestsAgree
  BY <1>1, <1>2 DEF DrawerTypes, OneCall, AccountsAgree, ReposAgree, RequestsAgree
<1>6. G!LinkHoldsTogether
  BY <1>1 DEF G!LinkHoldsTogether
<1> QED
  BY <1>3, <1>4, <1>5, <1>6 DEF DrawerInv

\* The form comes and goes with the choice of a repository.
LEMMA DrawerFormNow ==
  ASSUME DrawerConstants, FormIsShown, G!Rendered, current' \in DrawerCurrent \union {None} PROVE FormIsShown'
<1> DEFINE shows == G!RepoSelection(open', listed', loadingAccounts', showAccountForm', account')
           empty == [branch |-> None, path |-> IF manage' /\ current' # None THEN current'.path ELSE None]
<1>1. G!ShowsRepos' <=> shows
  BY DEF G!ShowsRepos, G!RepoSelection
<1>2. form' = IF ~shows THEN None ELSE IF form # None THEN form ELSE empty
  BY DEF G!Rendered, G!FormNow
<1>3. empty \in DrawerForms
  BY DEF DrawerForms, DrawerCurrent
<1> HIDE DEF shows, empty
<1> QED
  BY <1>1, <1>2, <1>3 DEF FormIsShown, DrawerConstants

\* Adding a call, or putting one in the place of another.
LEMMA DrawerCalls ==
  ASSUME DrawerConstants, CallsFit, NEW l
  PROVE  /\ G!Ask(l) => CallsFit'
         /\ Cardinality(loads) < MaxLoads /\ loads' = loads \union {l} => CallsFit'
         /\ loads' = loads => CallsFit'
         /\ loads' = loads \ {l} => CallsFit'
         /\ \A k \in loads : loads' = (loads \ {k}) \union {l} => CallsFit'
<1>1. IsFiniteSet(loads) /\ Cardinality(loads) \in Nat /\ MaxLoads \in Nat /\ Cardinality(loads) <= MaxLoads
  BY FS_CardinalityType DEF CallsFit, DrawerConstants
<1>2. Cardinality(loads) < MaxLoads /\ loads' = loads \union {l} => CallsFit'
  BY <1>1, FS_AddElement DEF CallsFit
<1>3. G!Ask(l) => CallsFit'
  BY <1>2, DrawerCounts DEF G!Ask
<1>4. loads' = loads => CallsFit'
  BY DEF CallsFit
<1>5. loads' = loads \ {l} => CallsFit'
  BY <1>1, FS_RemoveElement DEF CallsFit
<1>6. ASSUME NEW k \in loads, loads' = (loads \ {k}) \union {l} PROVE CallsFit'
  <2>1. IsFiniteSet(loads \ {k}) /\ Cardinality(loads \ {k}) = Cardinality(loads) - 1
    BY <1>1, FS_RemoveElement
  <2>2. IsFiniteSet(loads') /\ Cardinality(loads') <= Cardinality(loads)
    BY <1>1, <1>6, <2>1, FS_AddElement
  <2>3. Cardinality(loads') \in Nat
    BY <2>2, FS_CardinalityType
  <2> QED
    BY <1>1, <2>2, <2>3 DEF CallsFit
<1> QED
  BY <1>2, <1>3, <1>4, <1>5, <1>6

LEMMA DrawerOnly == ASSUME DrawerConstants, NEW S PROVE G!Only(S) = None \/ G!Only(S) \in S
<1>1. CASE Cardinality(S) = 1
  <2>1. S # {}
    BY <1>1, FS_EmptySet
  <2>2. (CHOOSE s \in S : TRUE) \in S
    BY <2>1, Zenon
  <2> QED
    BY <1>1, <2>2, DrawerCounts DEF G!Only
<1>2. CASE Cardinality(S) # 1
  BY <1>2, DrawerCounts DEF G!Only
<1> QED
  BY <1>1, <1>2

\* What an action keeps, because it leaves alone what the part is about.
LEMMA DrawerKept ==
  ASSUME DrawerConstants, DrawerInv
  PROVE  /\ UNCHANGED <<link, repoId, repoAccountId>> /\ (~crossed' => ~crossed) => G!LinkHoldsTogether'
         /\ UNCHANGED <<open, listed, loadingAccounts, showAccountForm, account, form>> => FormIsShown'
         /\ UNCHANGED <<loads, prompt, crossed>> => OneCall' /\ RequestsAgree'
         /\ UNCHANGED <<loads, prompt, crossed, repos, repo>> /\ account' \in {account, None} => AccountsAgree'
         /\ UNCHANGED <<loads, crossed, repo, branches>> => ReposAgree'
         /\ UNCHANGED <<loads, prompt, link, stored, listed, repos, repo, account, branches, current, pending>> => DrawerTypes'
         /\ UNCHANGED loads => CallsFit'
<1>1. UNCHANGED <<link, repoId, repoAccountId>> /\ (~crossed' => ~crossed) => G!LinkHoldsTogether'
  BY DEF DrawerInv, G!LinkHoldsTogether
<1>2. UNCHANGED <<open, listed, loadingAccounts, showAccountForm, account, form>> => FormIsShown'
  BY DEF DrawerInv, FormIsShown, G!ShowsRepos, G!RepoSelection
<1>3. UNCHANGED <<loads, prompt, crossed>> => OneCall' /\ RequestsAgree'
  BY DEF DrawerInv, OneCall, RequestsAgree
<1>4. UNCHANGED <<loads, prompt, crossed, repos, repo>> /\ account' \in {account, None} => AccountsAgree'
  BY DEF DrawerInv, AccountsAgree
<1>5. UNCHANGED <<loads, crossed, repo, branches>> => ReposAgree'
  BY DEF DrawerInv, ReposAgree
<1>6. UNCHANGED <<loads, prompt, link, stored, listed, repos, repo, account, branches, current, pending>> => DrawerTypes'
  BY DEF DrawerInv, DrawerTypes
<1>7. UNCHANGED loads => CallsFit'
  BY DEF DrawerInv, CallsFit
<1> QED
  BY <1>1, <1>2, <1>3, <1>4, <1>5, <1>6, <1>7

\* A call that is asked for is the only one, or calls have crossed.
LEMMA DrawerAsked ==
  ASSUME DrawerConstants, DrawerInv, NEW l, G!Ask(l), CallOk(l), UNCHANGED prompt
  PROVE  /\ CallsFit' /\ OneCall' /\ \A k \in loads' : CallOk(k)
         /\ ~crossed' => ~crossed /\ loads = {} /\ loads' = {l} /\ prompt = None
<1>1. loads' = loads \union {l} /\ crossed' = (crossed \/ loads # {} \/ prompt # None)
  BY DEF G!Ask
<1>2. CallsFit'
  BY DrawerCalls DEF DrawerInv
<1>3. OneCall' /\ (~crossed' => ~crossed /\ loads = {} /\ loads' = {l} /\ prompt = None)
  BY <1>1 DEF OneCall
<1>4. \A k \in loads' : CallOk(k)
  BY <1>1 DEF DrawerInv, DrawerTypes
<1> QED
  BY <1>2, <1>3, <1>4

\* Opening and closing the drawer, connecting an account, the form and the dialog of an update.
LEMMA DrawerOpens ==
  ASSUME DrawerConstants, DrawerInv, G!openAccountDrawer \/ G!openManageRepoDrawer \/ G!handleAccountConnect PROVE DrawerInv'
<1>1. PICK l : G!Ask(l) /\ CallOk(l) /\ l.kind \in {"accounts", "details", "connect"} /\ UNCHANGED prompt
  <2>1. CASE G!openAccountDrawer
    BY <2>1 DEF G!openAccountDrawer, CallOk
  <2>2. CASE G!openManageRepoDrawer
    BY <2>2 DEF G!openManageRepoDrawer, CallOk
  <2>3. CASE G!handleAccountConnect
    <3>1. PICK x \in Accounts \ stored : G!Ask([kind |-> "connect", account |-> x]) /\ UNCHANGED prompt
      BY <2>3 DEF G!handleAccountConnect
    <3>2. CallOk([kind |-> "connect", account |-> x])
      BY DEF CallOk
    <3> QED
      BY <3>1, <3>2
  <2> QED
    BY <2>1, <2>2, <2>3
<1>2. /\ UNCHANGED <<link, repoId, repoAccountId, stored, listed, repo, branches, pending>>
      /\ (account' = account /\ repos' = repos) \/ (account' = None /\ repos' = {})
      /\ current' \in {current, None}
  BY DEF G!openAccountDrawer, G!openManageRepoDrawer, G!handleAccountConnect, G!link_, G!lists, G!choice
<1>3. /\ CallsFit' /\ OneCall' /\ \A k \in loads' : CallOk(k)
      /\ ~crossed' => ~crossed /\ loads = {} /\ loads' = {l} /\ prompt = None
  BY <1>1, DrawerAsked
<1>4. DrawerTypes'
  BY <1>1, <1>2, <1>3 DEF DrawerInv, DrawerTypes
<1>5. AccountsAgree' /\ ReposAgree' /\ RequestsAgree'
  BY <1>1, <1>2, <1>3 DEF DrawerInv, AccountsAgree, ReposAgree, RequestsAgree
<1>6. FormIsShown'
  <2>1. CASE G!handleAccountConnect
    BY <2>1, DrawerKept DEF G!handleAccountConnect, G!lists, G!choice
  <2>2. CASE ~G!handleAccountConnect
    <3>1. G!Rendered
      BY <2>2 DEF G!openAccountDrawer, G!openManageRepoDrawer
    <3> QED
      BY <1>2, <3>1, DrawerFormNow DEF DrawerInv, DrawerTypes
  <2> QED
    BY <2>1, <2>2
<1> QED
  BY <1>2, <1>3, <1>4, <1>5, <1>6, DrawerKept DEF DrawerInv

LEMMA DrawerTyped ==
  ASSUME DrawerConstants, DrawerInv, G!handleBranchSelect \/ G!TypePath \/ G!handleRepoUpdate \/ G!CancelUpdate
  PROVE  DrawerInv'
<1>1. /\ UNCHANGED <<link, repoId, repoAccountId, open, stored, listed, loadingAccounts, showAccountForm, repos, repo,
                    account, branches, current, loads, prompt, crossed>>
  BY DEF G!handleBranchSelect, G!TypePath, G!handleRepoUpdate, G!CancelUpdate, G!link_, G!lists,
     G!choice
<1>2. G!handleBranchSelect \/ G!TypePath \/ G!handleRepoUpdate => form \in DrawerForms
  BY DEF G!handleBranchSelect, G!TypePath, G!handleRepoUpdate, G!Selected, DrawerInv, FormIsShown
<1>3. FormIsShown'
  <2>1. CASE G!handleBranchSelect
    <3>1. PICK b \in Branches : form' = [form EXCEPT !.branch = b]
      BY <2>1 DEF G!handleBranchSelect
    <3>2. form' \in DrawerForms
      BY <1>2, <2>1, <3>1 DEF DrawerForms
    <3> QED
      BY <1>1, <1>2, <2>1, <3>2 DEF DrawerInv, FormIsShown, G!ShowsRepos, G!RepoSelection,
         DrawerConstants
  <2>2. CASE G!TypePath
    <3>1. PICK b \in Paths : form' = [form EXCEPT !.path = b]
      BY <2>2 DEF G!TypePath
    <3>2. form' \in DrawerForms
      BY <1>2, <2>2, <3>1 DEF DrawerForms
    <3> QED
      BY <1>1, <1>2, <2>2, <3>2 DEF DrawerInv, FormIsShown, G!ShowsRepos, G!RepoSelection,
         DrawerConstants
  <2>3. CASE G!handleRepoUpdate \/ G!CancelUpdate
    BY <1>1, <2>3, DrawerKept DEF G!handleRepoUpdate, G!CancelUpdate
  <2> QED
    BY <2>1, <2>2, <2>3
<1>4. pending' \in DrawerForms \union {None}
  BY <1>2 DEF G!handleBranchSelect, G!TypePath, G!handleRepoUpdate, G!CancelUpdate, DrawerInv,
     DrawerTypes
<1>5. DrawerTypes'
  BY <1>1, <1>4 DEF DrawerInv, DrawerTypes
<1> QED
  BY <1>1, <1>3, <1>5, DrawerKept DEF DrawerInv

LEMMA DrawerLeaves ==
  ASSUME DrawerConstants, DrawerInv, G!AccountsLoaded \/ G!CloseDrawer \/ G!ConnectNewAccount \/ G!ChangeAccount
  PROVE  DrawerInv'
<1>1. /\ UNCHANGED <<link, repoId, repoAccountId, stored, repo, branches, pending, prompt, crossed>>
      /\ listed' \subseteq Accounts /\ current' \in {current, None}
      /\ (account' = account /\ repos' = repos) \/ (account' = None /\ repos' = {})
      /\ loads' = loads \/ loads' = loads \ {[kind |-> "accounts"]}
  BY DEF G!AccountsLoaded, G!CloseDrawer, G!ConnectNewAccount, G!ChangeAccount, G!Hide, G!link_,
     G!choice, G!lists,
         DrawerInv, DrawerTypes
<1>2. CallsFit'
  BY <1>1, DrawerCalls DEF DrawerInv
<1>3. DrawerTypes'
  BY <1>1 DEF DrawerInv, DrawerTypes
<1>4. loads' \subseteq loads /\ \A l \in loads : l.kind = "branches" => l \in loads'
  <2>1. [kind |-> "accounts"].kind = "accounts"
    OBVIOUS
  <2> QED
    BY <1>1, <2>1
<1>5. OneCall' /\ AccountsAgree' /\ ReposAgree' /\ RequestsAgree'
  BY <1>1, <1>4 DEF DrawerInv, OneCall, AccountsAgree, ReposAgree, RequestsAgree
<1>6. FormIsShown'
  <2>1. CASE G!CloseDrawer
    BY <2>1 DEF G!CloseDrawer, G!Hide, FormIsShown, G!ShowsRepos, G!RepoSelection
  <2>2. CASE ~G!CloseDrawer
    <3>1. G!Rendered
      BY <2>2 DEF G!AccountsLoaded, G!ConnectNewAccount, G!ChangeAccount
    <3> QED
      BY <1>1, <3>1, DrawerFormNow DEF DrawerInv, DrawerTypes
  <2> QED
    BY <2>1, <2>2
<1> QED
  BY <1>1, <1>2, <1>3, <1>5, <1>6, DrawerKept DEF DrawerInv

\* The token prompt holds the call that it would repeat.
LEMMA DrawerToken == ASSUME DrawerConstants, DrawerInv, G!TokenRefused \/ G!ConfirmToken PROVE DrawerInv'
<1>1. /\ UNCHANGED <<link, repoId, repoAccountId, open, stored, listed, loadingAccounts, showAccountForm, repos, repo,
                    account, branches, current, form, pending, crossed>>
  BY DEF G!TokenRefused, G!ConfirmToken, G!link_, G!lists, G!choice
<1>2. CASE G!TokenRefused
  <2>1. PICK l \in loads : l.kind = "repos" /\ prompt' = l /\ loads' = loads \ {l}
    BY <1>2 DEF G!TokenRefused
  <2>2. CallsFit'
    BY <2>1, DrawerCalls DEF DrawerInv
  <2>3. DrawerTypes'
    BY <1>1, <2>1 DEF DrawerInv, DrawerTypes
  <2>4. OneCall' /\ AccountsAgree' /\ ReposAgree' /\ RequestsAgree'
    BY <1>1, <2>1 DEF DrawerInv, OneCall, AccountsAgree, ReposAgree, RequestsAgree
  <2> QED
    BY <1>1, <2>2, <2>3, <2>4, DrawerKept DEF DrawerInv
<1>3. CASE G!ConfirmToken
  <2>1. prompt # None /\ Cardinality(loads) < MaxLoads /\ loads' = loads \union {prompt} /\ prompt' = None
    BY <1>3, DrawerCounts DEF G!ConfirmToken
  <2>2. CallsFit'
    BY <2>1, DrawerCalls DEF DrawerInv
  <2>3. DrawerTypes'
    BY <1>1, <2>1 DEF DrawerInv, DrawerTypes
  <2>4. prompt.kind = "repos"
    BY <2>1 DEF DrawerInv, DrawerTypes
  <2>5. OneCall' /\ AccountsAgree' /\ ReposAgree' /\ RequestsAgree'
    BY <1>1, <2>1, <2>4 DEF DrawerInv, OneCall, AccountsAgree, ReposAgree, RequestsAgree
  <2> QED
    BY <1>1, <2>2, <2>3, <2>5, DrawerKept DEF DrawerInv
<1> QED
  BY <1>2, <1>3

\* The repositories of an account are asked for, and what was chosen before goes at once.
LEMMA DrawerStartsRepos ==
  ASSUME DrawerConstants, DrawerInv, NEW x \in Accounts, NEW then, NEW of, NEW rest \in SUBSET loads,
         G!StartRepos(x, then, of, rest), then = "manage" => of \in G!Links,
         ~crossed' => ~crossed /\ rest = {} /\ prompt = None,
         UNCHANGED <<link, current, pending, prompt>>, stored' \subseteq Accounts, listed' \subseteq Accounts
  PROVE  DrawerTypes' /\ CallsFit' /\ OneCall' /\ AccountsAgree' /\ ReposAgree' /\ RequestsAgree'
<1> DEFINE call == [kind |-> "repos", account |-> x, then |-> then, of |-> of]
<1>1. /\ loads' = rest \union {call} /\ Cardinality(loads') <= MaxLoads
      /\ repos' = {} /\ repo' = None /\ branches' = None /\ account' = x
  BY DrawerCounts DEF G!StartRepos
<1>2. CallOk(call) /\ call.kind = "repos" /\ call.account = x
  BY DEF CallOk
<1> HIDE DEF call
<1>3. DrawerTypes'
  BY <1>1, <1>2 DEF DrawerInv, DrawerTypes
<1>4. CallsFit'
  <2>1. IsFiniteSet(rest)
    BY FS_Subset DEF DrawerInv, CallsFit
  <2>2. IsFiniteSet(loads')
    BY <1>1, <2>1, FS_AddElement
  <2> QED
    BY <1>1, <2>2 DEF CallsFit
<1>5. OneCall' /\ RequestsAgree' /\ ReposAgree'
  BY <1>1, <1>2 DEF OneCall, RequestsAgree, ReposAgree
<1>6. AccountsAgree'
  BY <1>1, <1>2 DEF AccountsAgree
<1> QED
  BY <1>3, <1>4, <1>5, <1>6

LEMMA DrawerSelectsAccount ==
  ASSUME DrawerConstants, DrawerInv, G!SelectAccount \/ G!Connected \/ G!DetailsLoaded PROVE DrawerInv'
<1>1. CASE G!SelectAccount
  <2>1. PICK x \in listed : G!StartRepos(x, "pick", None, loads)
    BY <1>1 DEF G!SelectAccount
  <2>2. /\ UNCHANGED <<link, repoId, repoAccountId, stored, listed, current, pending, prompt>> /\ G!Rendered
        /\ crossed' = (crossed \/ loads # {} \/ prompt # None)
    BY <1>1 DEF G!SelectAccount, G!link_, G!lists
  <2>3. x \in Accounts /\ stored' \subseteq Accounts /\ listed' \subseteq Accounts
    BY <2>2 DEF DrawerInv, DrawerTypes
  <2>4. DrawerTypes' /\ CallsFit' /\ OneCall' /\ AccountsAgree' /\ ReposAgree' /\ RequestsAgree'
    BY <2>1, <2>2, <2>3, DrawerStartsRepos
  <2>5. FormIsShown'
    BY <2>2, DrawerFormNow DEF DrawerInv, DrawerTypes
  <2> QED
    BY <2>2, <2>4, <2>5, DrawerKept DEF DrawerInv
<1>2. CASE G!Connected
  <2>1. PICK l \in loads :
          /\ l.kind = "connect"
          /\ \/ /\ stored' = stored \union {l.account} /\ listed' = listed \union {l.account}
                /\ G!StartRepos(l.account, "pick", None, loads \ {l})
                /\ UNCHANGED current /\ G!Rendered
             \/ /\ G!Hide /\ loads' = loads \ {l} /\ UNCHANGED <<stored, listed, repo, branches>>
    BY <1>2 DEF G!Connected
  <2>2. UNCHANGED <<link, repoId, repoAccountId, pending, prompt, crossed>>
    BY <1>2 DEF G!Connected, G!link_
  <2>3. l.account \in Accounts /\ (~crossed => loads \ {l} = {} /\ prompt = None)
    BY <2>1 DEF DrawerInv, DrawerTypes, CallOk, OneCall
  <2>4. CASE G!StartRepos(l.account, "pick", None, loads \ {l}) /\ UNCHANGED current /\ G!Rendered
             /\ stored' = stored \union {l.account} /\ listed' = listed \union {l.account}
    <3>1. stored' \subseteq Accounts /\ listed' \subseteq Accounts
      BY <2>3, <2>4 DEF DrawerInv, DrawerTypes
    <3>2. DrawerTypes' /\ CallsFit' /\ OneCall' /\ AccountsAgree' /\ ReposAgree' /\ RequestsAgree'
      BY <2>2, <2>3, <2>4, <3>1, DrawerStartsRepos
    <3>3. FormIsShown'
      BY <2>4, DrawerFormNow DEF DrawerInv, DrawerTypes
    <3> QED
      BY <2>2, <3>2, <3>3, DrawerKept DEF DrawerInv
  <2>5. CASE G!Hide /\ loads' = loads \ {l} /\ UNCHANGED <<stored, listed, repo, branches>>
    <3>1. ~open' /\ account' = None /\ repos' = {} /\ current' = None /\ form' = None
      BY <2>5 DEF G!Hide
    <3>2. CallsFit'
      BY <2>5, DrawerCalls DEF DrawerInv
    <3>3. FormIsShown'
      BY <3>1 DEF FormIsShown, G!ShowsRepos, G!RepoSelection
    <3>4. DrawerTypes'
      BY <2>2, <2>5, <3>1 DEF DrawerInv, DrawerTypes
    <3>5. OneCall' /\ AccountsAgree' /\ ReposAgree' /\ RequestsAgree'
      BY <2>1, <2>2, <2>5, <3>1 DEF DrawerInv, OneCall, AccountsAgree, ReposAgree, RequestsAgree
    <3> QED
      BY <2>2, <3>2, <3>3, <3>4, <3>5, DrawerKept DEF DrawerInv
  <2> QED
    BY <2>1, <2>4, <2>5
<1>3. CASE G!DetailsLoaded
  <2> DEFINE l == [kind |-> "details"]
  <2>1. /\ l \in loads
        /\ \/ link # None /\ listed' = stored /\ G!StartRepos(link.account, "manage", link, loads \ {l})
           \/ loads' = loads \ {l} /\ UNCHANGED <<listed, account, repos, repo, branches>>
    BY <1>3 DEF G!DetailsLoaded, G!choice
  <2>2. UNCHANGED <<link, repoId, repoAccountId, stored, current, pending, prompt, crossed>> /\ G!Rendered
    BY <1>3 DEF G!DetailsLoaded, G!link_
  <2>3. l.kind = "details" /\ (~crossed => loads \ {l} = {} /\ prompt = None)
    BY <2>1 DEF DrawerInv, OneCall
  <2> HIDE DEF l
  <2>4. FormIsShown'
    BY <2>2, DrawerFormNow DEF DrawerInv, DrawerTypes
  <2>5. CASE link # None /\ listed' = stored /\ G!StartRepos(link.account, "manage", link, loads \ {l})
    <3>1. link \in G!Links /\ link.account \in Accounts /\ stored' \subseteq Accounts /\ listed' \subseteq Accounts
      BY <2>2, <2>5 DEF DrawerInv, DrawerTypes, G!Links
    <3>2. DrawerTypes' /\ CallsFit' /\ OneCall' /\ AccountsAgree' /\ ReposAgree' /\ RequestsAgree'
      BY <2>2, <2>3, <2>5, <3>1, DrawerStartsRepos
    <3> QED
      BY <2>2, <2>4, <3>2, DrawerKept DEF DrawerInv
  <2>6. CASE loads' = loads \ {l} /\ UNCHANGED <<listed, account, repos, repo, branches>>
    <3>1. CallsFit'
      BY <2>6, DrawerCalls DEF DrawerInv
    <3>2. DrawerTypes'
      BY <2>2, <2>6 DEF DrawerInv, DrawerTypes
    <3>3. OneCall' /\ AccountsAgree' /\ ReposAgree' /\ RequestsAgree'
      BY <2>1, <2>2, <2>3, <2>6 DEF DrawerInv, OneCall, AccountsAgree, ReposAgree, RequestsAgree
    <3> QED
      BY <2>2, <2>4, <3>1, <3>2, <3>3, DrawerKept DEF DrawerInv
  <2> QED
    BY <2>1, <2>5, <2>6
<1> QED
  BY <1>1, <1>2, <1>3

LEMMA DrawerBranching ==
  ASSUME DrawerConstants, NEW r \in Repos, NEW then \in {"none", "repos", "both", "manage"}, NEW of,
         then \in {"both", "manage"} => of \in G!Links
  PROVE  CallOk(G!Branching(r, then, of)) /\ G!Branching(r, then, of).kind = "branches" /\ G!Branching(r, then, of).repo = r
  BY DEF CallOk, G!Branching

\* The end of openManageRepoDrawer: the registered repository is selected, and its branches asked for.
LEMMA DrawerGoesOn ==
  ASSUME DrawerConstants, DrawerInv, NEW of \in G!Links, NEW rs \in SUBSET Repos, NEW rest \in SUBSET loads,
         G!ManageGoesOn(of, rs, rest), UNCHANGED <<account, crossed>>, prompt' \in {prompt, None}, rs = {} \/ rest # loads,
         ~crossed => rest = {} /\ prompt' = None,
         ~crossed /\ account # None => rs \subseteq G!ReposOf(account) /\ repos' \subseteq G!ReposOf(account),
         ~crossed /\ repo # None /\ branches' # None => branches' = repo,
         rest = loads \/ \E k \in loads : rest = loads \ {k}
  PROVE  /\ CallsFit' /\ OneCall' /\ AccountsAgree' /\ ReposAgree' /\ RequestsAgree'
         /\ \A k \in loads' : CallOk(k)
         /\ repo' \in Repos \union {None} /\ current' \in DrawerCurrent
<1>1. current' \in DrawerCurrent
  BY DEF G!ManageGoesOn, DrawerCurrent, G!Links
<1>2. CASE of.repo \in rs
  <2> DEFINE call == G!Branching(of.repo, "manage", of)
  <2>1. repo' = of.repo /\ loads' = rest \union {call}
    BY <1>2 DEF G!ManageGoesOn
  <2>2. CallOk(call) /\ call.kind = "branches" /\ call.repo = of.repo /\ of.repo \in Repos
    BY <1>2, DrawerBranching
  <2> HIDE DEF call
  <2>3. CallsFit'
    BY <1>2, <2>1, DrawerCalls DEF DrawerInv
  <2>4. \A k \in loads' : CallOk(k)
    BY <2>1, <2>2 DEF DrawerInv, DrawerTypes
  <2>5. OneCall' /\ RequestsAgree' /\ ReposAgree'
    BY <2>1, <2>2 DEF OneCall, RequestsAgree, ReposAgree
  <2>6. AccountsAgree'
    BY <1>2, <2>1, <2>2 DEF AccountsAgree, G!ReposOf
  <2> QED
    BY <1>1, <2>1, <2>2, <2>3, <2>4, <2>5, <2>6
<1>3. CASE of.repo \notin rs
  <2>1. repo' = repo /\ loads' = rest
    BY <1>3 DEF G!ManageGoesOn
  <2>2. CallsFit'
    BY <2>1, DrawerCalls DEF DrawerInv
  <2>3. (\A k \in loads' : CallOk(k)) /\ repo' \in Repos \union {None}
    BY <2>1 DEF DrawerInv, DrawerTypes
  <2>4. OneCall' /\ RequestsAgree' /\ ReposAgree'
    BY <2>1 DEF OneCall, RequestsAgree, ReposAgree
  <2>5. AccountsAgree'
    BY <2>1 DEF DrawerInv, AccountsAgree
  <2> QED
    BY <1>1, <2>1, <2>2, <2>3, <2>4, <2>5
<1> QED
  BY <1>2, <1>3

\* The list of repositories arrives, or does not.
LEMMA DrawerReposLoaded == ASSUME DrawerConstants, DrawerInv, G!ReposLoaded PROVE DrawerInv'
<1>1. PICK l \in loads :
        LET only == G!Only(G!Owners(G!ReposOf(l.account)))
            one == IF only = None THEN None ELSE G!Only(G!Owned(G!ReposOf(l.account), only))
        IN /\ l.kind = "repos" /\ repos' = G!ReposOf(l.account) /\ branches' = branches
           /\ IF one # None
                THEN /\ repo' = one /\ UNCHANGED current
                     /\ loads' = (loads \ {l}) \union {G!Branching(one, IF l.then = "manage" THEN "both" ELSE "repos", l.of)}
              ELSE IF l.then = "manage" THEN G!ManageGoesOn(l.of, repos', loads \ {l})
              ELSE loads' = loads \ {l} /\ UNCHANGED <<repo, current>>
  BY DEF G!ReposLoaded
<1> DEFINE only == G!Only(G!Owners(G!ReposOf(l.account)))
           one == IF only = None THEN None ELSE G!Only(G!Owned(G!ReposOf(l.account), only))
<1>2. /\ UNCHANGED <<link, repoId, repoAccountId, stored, listed, account, branches, pending, prompt, crossed>>
      /\ repos' = G!ReposOf(l.account) /\ G!Rendered
  BY <1>1 DEF G!ReposLoaded, G!link_
<1>3. /\ l.kind = "repos" /\ l.account \in Accounts /\ (l.then = "manage" => l.of \in G!Links)
      /\ ~crossed => loads \ {l} = {} /\ prompt = None
      /\ ~crossed /\ account # None => l.account = account
      /\ ~crossed /\ repo # None /\ branches # None => branches = repo
  BY <1>1 DEF DrawerInv, DrawerTypes, CallOk, OneCall, AccountsAgree, ReposAgree
<1>4. G!ReposOf(l.account) \in SUBSET Repos
  BY DEF G!ReposOf
<1>5. one = None \/ one \in G!ReposOf(l.account)
  BY DrawerOnly DEF G!Owned
<1>6. CASE one # None
  <2> DEFINE call == G!Branching(one, IF l.then = "manage" THEN "both" ELSE "repos", l.of)
  <2>1. repo' = one /\ UNCHANGED current /\ loads' = (loads \ {l}) \union {call}
    BY <1>1, <1>6
  <2>2. one \in Repos /\ one \in G!ReposOf(l.account)
    BY <1>4, <1>5, <1>6
  <2> HIDE DEF one
  <2>3. CallOk(call) /\ call.kind = "branches" /\ call.repo = one
    BY <1>3, <2>2, DrawerBranching
  <2> HIDE DEF call
  <2>4. CallsFit'
    BY <2>1, DrawerCalls DEF DrawerInv
  <2>5. DrawerTypes'
    BY <1>2, <1>4, <2>1, <2>2, <2>3 DEF DrawerInv, DrawerTypes
  <2>6. OneCall' /\ RequestsAgree' /\ ReposAgree'
    BY <1>2, <1>3, <2>1, <2>3 DEF OneCall, RequestsAgree, ReposAgree
  <2>7. AccountsAgree'
    BY <1>2, <1>3, <2>1, <2>2, <2>3 DEF AccountsAgree, G!ReposOf
  <2>8. FormIsShown'
    BY <1>2, <2>5, DrawerFormNow DEF DrawerInv, DrawerTypes
  <2> QED
    BY <1>2, <2>4, <2>5, <2>6, <2>7, <2>8, DrawerKept DEF DrawerInv
<1>7. CASE one = None /\ l.then = "manage"
  <2>1. G!ManageGoesOn(l.of, repos', loads \ {l})
    BY <1>1, <1>7
  <2> HIDE DEF one
  <2>2. l.of \in G!Links /\ repos' \in SUBSET Repos /\ loads \ {l} \in SUBSET loads
    BY <1>2, <1>3, <1>4, <1>7
  <2>3. /\ CallsFit' /\ OneCall' /\ AccountsAgree' /\ ReposAgree' /\ RequestsAgree'
        /\ \A k \in loads' : CallOk(k)
        /\ repo' \in Repos \union {None} /\ current' \in DrawerCurrent
    BY <1>2, <1>3, <2>1, <2>2, DrawerGoesOn
  <2>4. FormIsShown'
    BY <1>2, <2>3, DrawerFormNow DEF DrawerInv
  <2>5. DrawerTypes'
    BY <1>2, <2>2, <2>3 DEF DrawerInv, DrawerTypes
  <2> QED
    BY <1>2, <2>3, <2>4, <2>5, DrawerKept DEF DrawerInv
<1>8. CASE one = None /\ l.then # "manage"
  <2>1. loads' = loads \ {l} /\ UNCHANGED <<repo, current>>
    BY <1>1, <1>8
  <2> HIDE DEF one
  <2>2. CallsFit'
    BY <2>1, DrawerCalls DEF DrawerInv
  <2>3. DrawerTypes'
    BY <1>2, <1>4, <2>1 DEF DrawerInv, DrawerTypes
  <2>4. OneCall' /\ RequestsAgree' /\ ReposAgree'
    BY <1>2, <1>3, <2>1 DEF OneCall, RequestsAgree, ReposAgree
  <2>5. AccountsAgree'
    BY <1>2, <1>3, <2>1 DEF DrawerInv, AccountsAgree
  <2>6. FormIsShown'
    BY <1>2, <2>1, DrawerFormNow DEF DrawerInv, DrawerTypes
  <2> QED
    BY <1>2, <2>2, <2>3, <2>4, <2>5, <2>6, DrawerKept DEF DrawerInv
<1> QED
  BY <1>6, <1>7, <1>8

LEMMA DrawerReposFail == ASSUME DrawerConstants, DrawerInv, G!ReposFail \/ G!CancelToken PROVE DrawerInv'
<1>1. /\ UNCHANGED <<link, repoId, repoAccountId, stored, listed, account, repos, branches, pending, crossed>> /\ G!Rendered
  BY DEF G!ReposFail, G!CancelToken, G!link_
<1>2. PICK l, rest :
        /\ rest \in {loads, loads \ {l}}
        /\ IF l.then = "manage" THEN G!ManageGoesOn(l.of, {}, rest)
           ELSE loads' = rest /\ UNCHANGED <<repo, current>>
        /\ l.kind = "repos" /\ CallOk(l) /\ prompt' \in {prompt, None}
        /\ ~crossed => rest = {} /\ prompt' = None /\ \A k \in loads : k.kind = "repos"
  <2>1. CASE G!ReposFail
    <3>1. PICK l \in loads :
            /\ IF l.then = "manage" THEN G!ManageGoesOn(l.of, {}, loads \ {l})
               ELSE loads' = loads \ {l} /\ UNCHANGED <<repo, current>>
            /\ l.kind = "repos" /\ UNCHANGED prompt
      BY <2>1 DEF G!ReposFail
    <3>2. CallOk(l) /\ (~crossed => loads \ {l} = {} /\ prompt = None /\ \A k \in loads : k.kind = "repos")
      BY <3>1 DEF DrawerInv, DrawerTypes, OneCall
    <3> QED
      BY <3>1, <3>2
  <2>2. CASE G!CancelToken
    <3>1. /\ prompt # None /\ prompt' = None
          /\ IF prompt.then = "manage" THEN G!ManageGoesOn(prompt.of, {}, loads)
             ELSE loads' = loads /\ UNCHANGED <<repo, current>>
      BY <2>2 DEF G!CancelToken
    <3>2. prompt.kind = "repos" /\ CallOk(prompt) /\ (~crossed => loads = {})
      BY <3>1 DEF DrawerInv, DrawerTypes, OneCall
    <3> QED
      BY <3>1, <3>2
  <2> QED
    BY <2>1, <2>2
<1>3. ~crossed /\ repo # None /\ branches # None => branches = repo
  BY <1>2 DEF DrawerInv, ReposAgree
<1>4. CASE l.then = "manage"
  <2>1. l.of \in G!Links /\ rest \in SUBSET loads /\ G!ManageGoesOn(l.of, {}, rest)
    BY <1>2, <1>4 DEF CallOk
  <2>2. ~crossed /\ account # None => {} \subseteq G!ReposOf(account) /\ repos' \subseteq G!ReposOf(account)
    BY <1>1 DEF DrawerInv, AccountsAgree
  <2>3. rest = loads \/ \E k \in loads : rest = loads \ {k}
    BY <1>2
  <2>4. /\ CallsFit' /\ OneCall' /\ AccountsAgree' /\ ReposAgree' /\ RequestsAgree'
        /\ \A k \in loads' : CallOk(k)
        /\ repo' \in Repos \union {None} /\ current' \in DrawerCurrent
    BY <1>1, <1>2, <1>3, <2>1, <2>2, <2>3, DrawerGoesOn
  <2>5. FormIsShown'
    BY <1>1, <2>4, DrawerFormNow DEF DrawerInv
  <2>6. DrawerTypes'
    BY <1>1, <1>2, <2>4 DEF DrawerInv, DrawerTypes
  <2> QED
    BY <1>1, <2>4, <2>5, <2>6, DrawerKept DEF DrawerInv
<1>5. CASE l.then # "manage"
  <2>1. loads' = rest /\ UNCHANGED <<repo, current>> /\ prompt' \in {prompt, None}
    BY <1>2, <1>5
  <2>2. CallsFit'
    BY <1>2, <2>1, DrawerCalls DEF DrawerInv
  <2>3. DrawerTypes'
    BY <1>1, <1>2, <2>1 DEF DrawerInv, DrawerTypes
  <2>4. OneCall' /\ RequestsAgree' /\ ReposAgree'
    BY <1>1, <1>2, <1>3, <2>1 DEF OneCall, RequestsAgree, ReposAgree
  <2>5. AccountsAgree'
    BY <1>1, <1>2, <2>1 DEF DrawerInv, AccountsAgree
  <2>6. FormIsShown'
    BY <1>1, <2>1, DrawerFormNow DEF DrawerInv, DrawerTypes
  <2> QED
    BY <1>1, <2>2, <2>3, <2>4, <2>5, <2>6, DrawerKept DEF DrawerInv
<1> QED
  BY <1>4, <1>5

\* The branches arrive; with "both" the drawer goes on for the registered repository.
LEMMA DrawerBranchesLoaded == ASSUME DrawerConstants, DrawerInv, G!BranchesLoaded PROVE DrawerInv'
<1>1. PICK l \in loads :
        /\ l.kind = "branches" /\ branches' = l.repo
        /\ \/ loads' = loads \ {l} /\ UNCHANGED <<repo, current>>
           \/ l.then = "both" /\ G!ManageGoesOn(l.of, repos, loads \ {l})
  <2>1. PICK l \in loads :
          /\ l.kind = "branches" /\ branches' = l.repo
          /\ CASE l.then = "none" ->
                    /\ loads' = loads \ {l}
                    /\ UNCHANGED <<owner, repo, loadingRepos, current, loadingAccounts, showAccountForm>>
               [] l.then = "repos" ->
                    /\ loads' = loads \ {l} /\ loadingRepos' = FALSE
                    /\ UNCHANGED <<owner, repo, current, loadingAccounts, showAccountForm>>
               [] l.then = "both" ->
                    G!ManageGoesOn(l.of, repos, loads \ {l}) /\ UNCHANGED owner
               [] l.then = "manage" ->
                    /\ owner' = OwnerOf[l.repo] /\ loadingAccounts' = FALSE /\ showAccountForm' = FALSE
                    /\ loads' = loads \ {l} /\ UNCHANGED <<repo, loadingRepos, current>>
    BY Zenon DEF G!BranchesLoaded
  <2>2. l.then \in {"none", "repos", "both", "manage"}
    BY <2>1 DEF DrawerInv, DrawerTypes, CallOk
  <2> QED
    BY <2>1, <2>2
<1>2. UNCHANGED <<link, repoId, repoAccountId, stored, listed, account, repos, pending, prompt, crossed>> /\ G!Rendered
  BY DEF G!BranchesLoaded, G!link_
<1>3. /\ l.repo \in Repos /\ (l.then = "both" => l.of \in G!Links)
      /\ ~crossed => loads \ {l} = {} /\ prompt = None
      /\ ~crossed /\ repo # None => branches' = repo
  BY <1>1 DEF DrawerInv, DrawerTypes, CallOk, OneCall, ReposAgree
<1>4. CASE loads' = loads \ {l} /\ UNCHANGED <<repo, current>>
  <2>1. CallsFit'
    BY <1>4, DrawerCalls DEF DrawerInv
  <2>2. DrawerTypes'
    BY <1>1, <1>2, <1>3, <1>4 DEF DrawerInv, DrawerTypes
  <2>3. OneCall' /\ RequestsAgree' /\ ReposAgree'
    BY <1>2, <1>3, <1>4 DEF OneCall, RequestsAgree, ReposAgree
  <2>4. AccountsAgree'
    BY <1>2, <1>3, <1>4 DEF DrawerInv, AccountsAgree
  <2>5. FormIsShown'
    BY <1>2, <1>4, DrawerFormNow DEF DrawerInv, DrawerTypes
  <2> QED
    BY <1>2, <2>1, <2>2, <2>3, <2>4, <2>5, DrawerKept DEF DrawerInv
<1>5. CASE l.then = "both" /\ G!ManageGoesOn(l.of, repos, loads \ {l})
  <2>1. /\ l.of \in G!Links /\ repos \in SUBSET Repos /\ loads \ {l} \in SUBSET loads /\ loads \ {l} # loads
        /\ ~crossed /\ account # None => repos \subseteq G!ReposOf(account) /\ repos' \subseteq G!ReposOf(account)
    BY <1>1, <1>2, <1>3, <1>5 DEF DrawerInv, DrawerTypes, AccountsAgree
  <2>2. /\ CallsFit' /\ OneCall' /\ AccountsAgree' /\ ReposAgree' /\ RequestsAgree'
        /\ \A k \in loads' : CallOk(k)
        /\ repo' \in Repos \union {None} /\ current' \in DrawerCurrent
    BY <1>2, <1>3, <1>5, <2>1, DrawerGoesOn
  <2>3. FormIsShown'
    BY <1>2, <2>2, DrawerFormNow DEF DrawerInv
  <2>4. DrawerTypes'
    BY <1>1, <1>2, <1>3, <2>2 DEF DrawerInv, DrawerTypes
  <2> QED
    BY <1>2, <2>2, <2>3, <2>4, DrawerKept DEF DrawerInv
<1> QED
  BY <1>1, <1>4, <1>5

\* An owner or a repository is chosen.
LEMMA DrawerChooses == ASSUME DrawerConstants, DrawerInv, G!handleOwnerSelect \/ G!handleRepoSelect PROVE DrawerInv'
<1>1. /\ UNCHANGED <<link, repoId, repoAccountId, open, stored, listed, loadingAccounts, showAccountForm, account, repos,
                    current, form, pending, prompt>>
  BY DEF G!handleOwnerSelect, G!handleRepoSelect, G!link_, G!lists
<1>2. CASE repo' = None
  <2>1. branches' = None /\ UNCHANGED <<loads, crossed>>
    <3>1. G!handleOwnerSelect
      BY <1>2 DEF G!handleRepoSelect, G!Owned, DrawerInv, DrawerTypes, DrawerConstants
    <3> QED
      BY <1>2, <3>1 DEF G!handleOwnerSelect
  <2>2. DrawerTypes'
    BY <1>1, <1>2, <2>1 DEF DrawerInv, DrawerTypes
  <2>3. AccountsAgree' /\ ReposAgree'
    BY <1>1, <1>2, <2>1 DEF DrawerInv, AccountsAgree, ReposAgree
  <2> QED
    BY <1>1, <2>1, <2>2, <2>3, DrawerKept DEF DrawerInv
<1>3. CASE repo' # None
  <2>1. repo' \in repos /\ branches' \in {branches, None} /\ G!Ask(G!Branching(repo', "none", None))
    <3>1. CASE G!handleRepoSelect
      BY <3>1 DEF G!handleRepoSelect, G!Owned
    <3>2. CASE G!handleOwnerSelect
      <4>1. PICK o : /\ repo' = G!Only(G!Owned(repos, o)) /\ branches' = None
                     /\ G!Ask(G!Branching(repo', "none", None))
        BY <1>3, <3>2 DEF G!handleOwnerSelect
      <4>2. repo' \in G!Owned(repos, o)
        BY <1>3, <4>1, DrawerOnly
      <4> QED
        BY <4>1, <4>2 DEF G!Owned
    <3> QED
      BY <3>1, <3>2
  <2> DEFINE call == G!Branching(repo', "none", None)
  <2>2. repo' \in Repos
    BY <2>1 DEF DrawerInv, DrawerTypes
  <2>3. CallOk(call) /\ call.kind = "branches" /\ call.repo = repo'
    BY <2>2, DrawerBranching
  <2> HIDE DEF call
  <2>4. /\ CallsFit' /\ OneCall' /\ \A k \in loads' : CallOk(k)
        /\ ~crossed' => ~crossed /\ loads = {} /\ loads' = {call} /\ prompt = None
    BY <1>1, <2>1, <2>3, DrawerAsked DEF call
  <2>5. DrawerTypes'
    BY <1>1, <2>1, <2>2, <2>4 DEF DrawerInv, DrawerTypes
  <2>6. AccountsAgree' /\ ReposAgree' /\ RequestsAgree'
    BY <1>1, <2>1, <2>3, <2>4 DEF DrawerInv, AccountsAgree, ReposAgree, RequestsAgree, G!ReposOf
  <2> QED
    BY <1>1, <2>4, <2>5, <2>6, DrawerKept DEF DrawerInv
<1> QED
  BY <1>2, <1>3

\* A registration is sent, and answers.
LEMMA DrawerRegisters == ASSUME DrawerConstants, DrawerInv, G!handleRepoRegister \/ G!confirmRepoUpdate PROVE DrawerInv'
<1>1. /\ UNCHANGED <<link, repoId, repoAccountId, open, stored, listed, loadingAccounts, showAccountForm, account, repos,
                    repo, branches, current, form, prompt>>
  BY DEF G!handleRepoRegister, G!confirmRepoUpdate, G!link_, G!lists, G!choice
<1>2. PICK f \in DrawerForms : G!Ask([kind |-> "register", request |-> G!Request(f)]) /\ pending' \in {pending, None}
  <2>1. CASE G!handleRepoRegister
    <3>1. form \in DrawerForms
      BY <2>1 DEF G!handleRepoRegister, G!Selected, DrawerInv, FormIsShown
    <3> QED
      BY <2>1, <3>1 DEF G!handleRepoRegister
  <2>2. CASE G!confirmRepoUpdate
    <3>1. pending \in DrawerForms
      BY <2>2 DEF G!confirmRepoUpdate, DrawerInv, DrawerTypes
    <3> QED
      BY <2>2, <3>1 DEF G!confirmRepoUpdate
  <2> QED
    BY <2>1, <2>2
<1>3. account \in Accounts /\ repo \in Repos
  <2>1. account # None /\ repo # None
    BY DEF G!handleRepoRegister, G!confirmRepoUpdate, G!Selected, G!ShowsRepos, G!RepoSelection,
       DrawerInv, DrawerTypes,
           DrawerConstants
  <2> QED
    BY <2>1 DEF DrawerInv, DrawerTypes
<1> DEFINE call == [kind |-> "register", request |-> G!Request(f)]
<1>4. G!Request(f) \in G!Links /\ G!Request(f).account = account /\ G!Request(f).repo = repo
  BY <1>3 DEF G!Request, G!Filled, G!Links, DrawerForms, DrawerConstants
<1>5. CallOk(call) /\ call.kind = "register" /\ call.request.account = account /\ call.request.repo = repo
  BY <1>4 DEF CallOk
<1> HIDE DEF call
<1>6. /\ CallsFit' /\ OneCall' /\ \A k \in loads' : CallOk(k)
      /\ ~crossed' => ~crossed /\ loads = {} /\ loads' = {call} /\ prompt = None
  BY <1>1, <1>2, <1>5, DrawerAsked DEF call
<1>7. DrawerTypes'
  BY <1>1, <1>2, <1>6 DEF DrawerInv, DrawerTypes
<1>8. AccountsAgree' /\ ReposAgree'
  BY <1>1, <1>5, <1>6 DEF DrawerInv, AccountsAgree, ReposAgree
<1>9. RequestsAgree'
  BY <1>1, <1>3, <1>5, <1>6 DEF DrawerInv, AccountsAgree, RequestsAgree, DrawerConstants
<1> QED
  BY <1>1, <1>6, <1>7, <1>8, <1>9, DrawerKept DEF DrawerInv

LEMMA DrawerRegistered == ASSUME DrawerConstants, DrawerInv, G!Registered PROVE DrawerInv'
<1>1. PICK l \in loads :
        /\ l.kind = "register" /\ loads' = loads \ {l}
        /\ \/ /\ link' = l.request /\ repoId' = l.request.repo /\ repoAccountId' = account /\ G!Hide
           \/ UNCHANGED <<link, repoId, repoAccountId, open, showAccountForm, account, repos, current, form>>
  BY DEF G!Registered, G!link_
<1>2. UNCHANGED <<stored, listed, loadingAccounts, repo, branches, pending, prompt, crossed>>
  BY DEF G!Registered
<1>3. /\ l.request \in G!Links
      /\ ~crossed => (account # None => l.request.account = account) /\ AccountOf[l.request.repo] = l.request.account
  BY <1>1 DEF DrawerInv, DrawerTypes, CallOk, AccountsAgree, RequestsAgree
<1>4. CallsFit'
  BY <1>1, DrawerCalls DEF DrawerInv
<1>5. CASE UNCHANGED <<link, repoId, repoAccountId, open, showAccountForm, account, repos, current, form>>
  <2>1. DrawerTypes'
    BY <1>1, <1>2, <1>5 DEF DrawerInv, DrawerTypes
  <2>2. OneCall' /\ AccountsAgree' /\ ReposAgree' /\ RequestsAgree'
    BY <1>1, <1>2, <1>5 DEF DrawerInv, OneCall, AccountsAgree, ReposAgree, RequestsAgree
  <2> QED
    BY <1>2, <1>4, <1>5, <2>1, <2>2, DrawerKept DEF DrawerInv
<1>6. CASE link' = l.request /\ repoId' = l.request.repo /\ repoAccountId' = account /\ G!Hide
  <2>1. ~open' /\ account' = None /\ repos' = {} /\ current' = None /\ form' = None
    BY <1>6 DEF G!Hide
  <2>2. DrawerTypes'
    BY <1>1, <1>2, <1>3, <1>6, <2>1 DEF DrawerInv, DrawerTypes
  <2>3. OneCall' /\ AccountsAgree' /\ ReposAgree' /\ RequestsAgree'
    BY <1>1, <1>2, <2>1 DEF DrawerInv, OneCall, AccountsAgree, ReposAgree, RequestsAgree
  <2>4. FormIsShown'
    BY <2>1 DEF FormIsShown, G!ShowsRepos, G!RepoSelection
  <2>5. G!LinkHoldsTogether'
    BY <1>2, <1>3, <1>6 DEF G!LinkHoldsTogether
  <2> QED
    BY <1>4, <2>2, <2>3, <2>4, <2>5 DEF DrawerInv
<1> QED
  BY <1>1, <1>5, <1>6

LEMMA DrawerStep == ASSUME DrawerConstants, DrawerInv, [G!Next]_(G!vars) PROVE DrawerInv'
<1>1. CASE UNCHANGED G!vars
  BY <1>1, DrawerKept DEF G!vars, G!link_, G!lists, G!choice, DrawerInv
<1>2. CASE G!Next
  BY <1>2, DrawerOpens, DrawerTyped, DrawerLeaves, DrawerToken, DrawerSelectsAccount,
     DrawerReposLoaded, DrawerReposFail,
     DrawerBranchesLoaded, DrawerChooses, DrawerRegisters, DrawerRegistered DEF G!Next
<1> QED
  BY <1>1, <1>2

\* As long as no two calls were under way at once, the drawer offers the repositories of the
\* selected account and the branches of the selected repository, and what is registered is a
\* repository of the account it is registered with, as the screen knows it.
THEOREM LinkIsWhatWasChosen ==
  ASSUME DrawerConstants PROVE G!Spec => [](G!TypeOK /\ G!OffersAreOfTheChoice /\ G!LinkHoldsTogether)
<1>1. G!Init => DrawerInv
  BY DrawerStarts
<1>2. DrawerInv /\ [G!Next]_(G!vars) => DrawerInv'
  BY DrawerStep
<1>3. DrawerInv => G!TypeOK /\ G!OffersAreOfTheChoice /\ G!LinkHoldsTogether
  BY DrawerIsTrue
<1> QED
  BY <1>1, <1>2, <1>3, PTL DEF G!Spec

----------------------------------------------------------------------------
(* The two forms for the access lists of a database: any entries, any edits, reads and         *)
(* updates that cross, and the two requests of a creation.                                      *)

A == INSTANCE Access

IsLists(a) == a = [l \in A!Lists |-> a[l]]
\* The lists nobody edited are the ones that were there at first.
Untouched(a) == \A l \in A!Lists \ touched : a[l] = before[l]

AccessShape ==
  /\ IsLists(access) /\ IsLists(db.access) /\ focus \in A!Lists \union {None}
  /\ db = [exists |-> db.exists, partitioned |-> db.partitioned, access |-> db.access]
  /\ load = [phase |-> load.phase, access |-> load.access] /\ IsLists(load.access)
  /\ \A w \in writes : w = [n |-> w.n, access |-> w.access, phase |-> w.phase] /\ IsLists(w.access)

\* A form that reads is not the one that creates.
AccessForms == load.phase # "none" => form # "create" /\ creation.step = "none"

\* Nobody has written what was not read: CouchDB, the read, the form once it has landed, and every
\* update under way agree in the lists that were not edited.
AccessReads ==
  load.phase # "none" /\ ~unread =>
    /\ Untouched(db.access)
    /\ load.phase = "read" => Untouched(load.access)
    /\ load.phase = "landed" => Untouched(access)
    /\ \A w \in writes : load.phase = "landed" /\ Untouched(w.access)

\* A creation asks for what Create was pressed for; once it asks for the lists, the database is there.
AccessCreation ==
  creation.step # "none" =>
    /\ submitting /\ creation.access = asked.access /\ creation.partitioned = asked.partitioned
    /\ creation = [step |-> creation.step, partitioned |-> creation.partitioned, access |-> creation.access]
    /\ IsLists(creation.access) /\ creation.step \in {"db", "security"}
    /\ creation.step = "security" => db.exists /\ db.partitioned = creation.partitioned

AccessInv == AccessShape /\ AccessForms /\ AccessReads /\ AccessCreation

LEMMA AccessStarts == A!Init => AccessInv
<1> SUFFICES ASSUME A!Init PROVE AccessInv
  OBVIOUS
<1>1. PICK a \in {A!Default, A!Nobody, A!Mine}, there \in BOOLEAN :
        db = [exists |-> there, partitioned |-> FALSE, access |-> a]
  <2>1. PICK a \in {A!Default, A!Nobody, A!Mine} : \E there \in IF form = "create" THEN BOOLEAN ELSE {TRUE} :
          db = [exists |-> there, partitioned |-> FALSE, access |-> a]
    BY Zenon DEF A!Init
  <2>2. PICK there \in IF form = "create" THEN BOOLEAN ELSE {TRUE} :
          db = [exists |-> there, partitioned |-> FALSE, access |-> a]
    BY <2>1, Zenon
  <2> QED
    BY <2>2
<1>2. IsLists(A!Default) /\ IsLists(A!Nobody) /\ IsLists(A!Mine)
  BY DEF IsLists, A!Default, A!Nobody, A!Mine
<1>3. db.access = a /\ IsLists(db.access) /\ before = db.access
  BY <1>1, <1>2 DEF A!Init
<1>4. /\ access \in {A!Default, A!Nobody} /\ focus = None /\ writes = {} /\ creation.step = "none"
      /\ load = [phase |-> IF form = "create" THEN "none" ELSE "asked", access |-> A!Nobody]
  BY DEF A!Init
<1>5. AccessShape
  BY <1>1, <1>2, <1>3, <1>4 DEF AccessShape
<1>6. AccessForms /\ AccessReads /\ AccessCreation
  BY <1>3, <1>4 DEF AccessForms, AccessReads, AccessCreation, Untouched
<1> QED
  BY <1>5, <1>6 DEF AccessInv


\* The text of the field that loses the focus goes into the list of that field.
LEMMA AccessBlurs ==
  ASSUME AccessShape
  PROVE  IsLists(A!Blurred) /\ \A l \in A!Lists : (A!Blurs => l # focus) => A!Blurred[l] = access[l]
<1>1. CASE ~A!Blurs
  BY <1>1 DEF A!Blurred, AccessShape
<1>2. CASE A!Blurs
  <2>1. A!Blurred = [access EXCEPT ![focus] = A!Added(focus)[focus]] /\ focus \in A!Lists
    BY <1>2 DEF A!Blurred, A!Added, A!Blurs, AccessShape, IsLists
  <2> HIDE DEF A!Added
  <2>2. access = [l \in A!Lists |-> access[l]]
    BY DEF AccessShape, IsLists
  <2>3. A!Blurred = [l \in A!Lists |-> IF l = focus THEN A!Added(focus)[focus] ELSE access[l]]
    BY <2>1, <2>2
  <2> QED
    BY <1>2, <2>3 DEF IsLists
<1> QED
  BY <1>1, <1>2

\* A change of the fields says which list it edits.
LEMMA AccessEdited ==
  ASSUME AccessInv, IsLists(access'), focus' \in A!Lists \union {None}, touched \subseteq touched',
         \A l \in A!Lists \ touched' : access'[l] = access[l],
         UNCHANGED <<before, db, load, writes, unread>>
  PROVE  AccessShape' /\ AccessReads'
<1>1. AccessShape'
  BY DEF AccessInv, AccessShape, IsLists
<1>2. \A l \in A!Lists \ touched' : l \in A!Lists \ touched
  OBVIOUS
<1>3. AccessReads'
  BY <1>2 DEF AccessInv, AccessReads, Untouched
<1> QED
  BY <1>1, <1>3

LEMMA AccessKept ==
  /\ AccessShape /\ UNCHANGED <<access, focus, db, load, writes>> => AccessShape'
  /\ AccessForms /\ UNCHANGED <<load, form, creation>> => AccessForms'
  /\ AccessReads /\ UNCHANGED <<access, before, touched, db, load, writes, unread>> => AccessReads'
  /\ AccessCreation /\ UNCHANGED <<db, creation, submitting, asked>> => AccessCreation'
<1>1. AccessShape /\ UNCHANGED <<access, focus, db, load, writes>> => AccessShape'
  BY DEF AccessShape, IsLists
<1>2. AccessForms /\ UNCHANGED <<load, form, creation>> => AccessForms'
  BY DEF AccessForms
<1>3. AccessReads /\ UNCHANGED <<access, before, touched, db, load, writes, unread>> => AccessReads'
  BY DEF AccessReads, Untouched
<1>4. AccessCreation /\ UNCHANGED <<db, creation, submitting, asked>> => AccessCreation'
  BY DEF AccessCreation, IsLists
<1> QED
  BY <1>1, <1>2, <1>3, <1>4

\* What is typed, added and removed.
LEMMA AccessFields ==
  ASSUME AccessInv,
         \/ \E l \in A!Lists : A!Focus(l) \/ \E e \in A!ToSet(access[l]) : A!_removeItem(l, e)
         \/ \E text \in A!Texts : A!Type(text)
         \/ A!Enter \/ A!Backspace \/ A!TypeName \/ A!Partition
  PROVE  AccessInv'
<1>1. AccessShape
  BY DEF AccessInv
<1>2. /\ UNCHANGED <<before, db, load, writes, unread, form, creation, submitting, asked>>
      /\ IsLists(access') /\ focus' \in A!Lists \union {None} /\ touched \subseteq touched'
      /\ \A l \in A!Lists \ touched' : access'[l] = access[l]
  <2>1. ASSUME NEW l \in A!Lists, A!Focus(l) 
         PROVE  /\ UNCHANGED <<before, db, load, writes, unread, form, creation, submitting, asked>>
                /\ IsLists(access') /\ focus' \in A!Lists \union {None} /\ touched \subseteq touched'
                /\ \A m \in A!Lists \ touched' : access'[m] = access[m]
    <3>1. /\ UNCHANGED <<before, db, load, writes, unread, form, creation, submitting, asked>>
          /\ focus' = l /\ access' = A!Blurred /\ touched' = touched \union (IF A!Blurs THEN {focus} ELSE {})
      BY <2>1 DEF A!Focus, A!creating, A!updating
    <3> QED
      BY <1>1, <3>1, AccessBlurs
  <2>2. ASSUME NEW l \in A!Lists, NEW e \in A!ToSet(access[l]), A!_removeItem(l, e) 
         PROVE  /\ UNCHANGED <<before, db, load, writes, unread, form, creation, submitting, asked>>
                /\ IsLists(access') /\ focus' \in A!Lists \union {None} /\ touched \subseteq touched'
                /\ \A m \in A!Lists \ touched' : access'[m] = access[m]
    <3> DEFINE rest == [A!Blurred EXCEPT ![l] = A!SelectSeq(A!Blurred[l], LAMBDA f : f # e)]
    <3>1. /\ UNCHANGED <<before, db, load, writes, unread, form, creation, submitting, asked>>
          /\ focus' = None /\ access' = rest
          /\ touched' = touched \union {l} \union (IF A!Blurs THEN {focus} ELSE {})
      BY <2>2 DEF A!_removeItem, A!_handleBlur, A!creating, A!updating
    <3>2. IsLists(rest) /\ \A m \in A!Lists \ {l} : rest[m] = A!Blurred[m]
      BY <1>1, AccessBlurs DEF IsLists
    <3> HIDE DEF rest
    <3> QED
      BY <1>1, <3>1, <3>2, AccessBlurs
  <2>3. ASSUME NEW text \in A!Texts, A!Type(text) 
         PROVE  /\ UNCHANGED <<before, db, load, writes, unread, form, creation, submitting, asked>>
                /\ IsLists(access') /\ focus' \in A!Lists \union {None} /\ touched \subseteq touched'
                /\ \A m \in A!Lists \ touched' : access'[m] = access[m]
    BY <1>1, <2>3 DEF A!Type, A!creating, A!updating, AccessShape
  <2>4. ASSUME A!Enter 
         PROVE  /\ UNCHANGED <<before, db, load, writes, unread, form, creation, submitting, asked>>
                /\ IsLists(access') /\ focus' \in A!Lists \union {None} /\ touched \subseteq touched'
                /\ \A m \in A!Lists \ touched' : access'[m] = access[m]
    <3>1. /\ UNCHANGED <<before, db, load, writes, unread, form, creation, submitting, asked, focus>>
          /\ access' = A!Blurred /\ touched' = touched \union {focus}
      BY <2>4 DEF A!Enter, A!creating, A!updating
    <3> QED
      BY <1>1, <3>1, AccessBlurs DEF AccessShape
  <2>5. ASSUME A!Backspace 
         PROVE  /\ UNCHANGED <<before, db, load, writes, unread, form, creation, submitting, asked>>
                /\ IsLists(access') /\ focus' \in A!Lists \union {None} /\ touched \subseteq touched'
                /\ \A m \in A!Lists \ touched' : access'[m] = access[m]
    <3>1. /\ UNCHANGED <<before, db, load, writes, unread, form, creation, submitting, asked, focus>>
          /\ access' = [access EXCEPT ![focus] = A!Front(access[focus])] /\ touched' = touched \union {focus}
      BY <2>5 DEF A!Backspace, A!creating, A!updating
    <3>2. focus \in A!Lists \union {None} /\ access = [l \in A!Lists |-> access[l]]
      BY <1>1 DEF AccessShape, IsLists
    <3>3. IsLists(access') /\ \A l \in A!Lists \ {focus} : access'[l] = access[l]
      BY <3>1, <3>2 DEF IsLists
    <3> QED
      BY <3>1, <3>2, <3>3
  <2>6. ASSUME A!TypeName \/ A!Partition 
         PROVE  /\ UNCHANGED <<before, db, load, writes, unread, form, creation, submitting, asked>>
                /\ IsLists(access') /\ focus' \in A!Lists \union {None} /\ touched \subseteq touched'
                /\ \A m \in A!Lists \ touched' : access'[m] = access[m]
    <3>1. /\ UNCHANGED <<before, db, load, writes, unread, form, creation, submitting, asked>>
          /\ focus' = None /\ access' = A!Blurred /\ touched' = touched \union (IF A!Blurs THEN {focus} ELSE {})
      BY <2>6 DEF A!TypeName, A!Partition, A!_handleBlur, A!creating, A!updating
    <3> QED
      BY <1>1, <3>1, AccessBlurs
  <2> QED
    BY <2>1, <2>2, <2>3, <2>4, <2>5, <2>6
<1>3. AccessShape' /\ AccessReads'
  BY <1>2, AccessEdited
<1> QED
  BY <1>2, <1>3, AccessKept DEF AccessInv

\* The read of the lists, and its answer.
LEMMA AccessRead == ASSUME AccessInv, A!SecurityRead \/ A!_load PROVE AccessInv'
<1>1. UNCHANGED <<before, db, writes, unread, form, creation, submitting, asked, touched, focus>>
  BY DEF A!SecurityRead, A!_load, A!fields, A!creating
<1>2. AccessForms' /\ AccessCreation'
  <2>1. load.phase # "none"
    BY DEF A!SecurityRead, A!_load
  <2> QED
    BY <1>1, <2>1, AccessKept DEF AccessInv, AccessForms
<1>3. CASE A!SecurityRead
  <2>1. load' = [phase |-> "read", access |-> db.access] /\ load.phase = "asked" /\ UNCHANGED access
    BY <1>3 DEF A!SecurityRead, A!fields
  <2>2. AccessShape'
    BY <1>1, <2>1 DEF AccessInv, AccessShape, IsLists
  <2>3. AccessReads'
    BY <1>1, <2>1 DEF AccessInv, AccessReads, Untouched
  <2> QED
    BY <1>2, <2>2, <2>3 DEF AccessInv
<1>4. CASE A!_load
  <2>1. load = [phase |-> load.phase, access |-> load.access] /\ IsLists(load.access)
    BY DEF AccessInv, AccessShape
  <2>2. \/ load.phase = "read" /\ load'.phase = "landed" /\ load'.access = load.access /\ access' = load.access
        \/ load.phase = "asked" /\ load'.phase = "failed" /\ load'.access = load.access /\ access' = access
    BY <1>4, <2>1 DEF A!_load
  <2>3. load' = [phase |-> load'.phase, access |-> load'.access]
    BY <1>4, <2>1 DEF A!_load
  <2>4. AccessShape'
    BY <1>1, <2>2, <2>3 DEF AccessInv, AccessShape, IsLists
  <2>5. AccessReads'
    BY <1>1, <2>2 DEF AccessInv, AccessReads, Untouched
  <2> QED
    BY <1>2, <2>4, <2>5 DEF AccessInv
<1> QED
  BY <1>3, <1>4

\* Update sends what is on the form; it is written or refused, and the form takes what was written.
LEMMA AccessUpdates ==
  ASSUME AccessInv, A!Update \/ \E w \in writes : A!updateDatabaseAccess(w) \/ A!_updateAccess(w)
  PROVE  AccessInv'
<1>1. AccessShape
  BY DEF AccessInv
<1>2. CASE A!Update
  <2> DEFINE w == [n |-> sent + 1, access |-> A!Blurred, phase |-> "sent"]
  <2>1. /\ UNCHANGED <<before, db, load, form, creation, submitting, asked>>
        /\ focus' = None /\ access' = A!Blurred /\ touched' = touched \union (IF A!Blurs THEN {focus} ELSE {})
        /\ writes' = writes \union {w} /\ unread' = (unread \/ load.phase # "landed")
    BY <1>2 DEF A!Update, A!_handleBlur, A!creating
  <2>2. w = [n |-> w.n, access |-> w.access, phase |-> w.phase] /\ w.access = A!Blurred
    OBVIOUS
  <2> HIDE DEF w
  <2>3. AccessShape'
    BY <1>1, <2>1, <2>2, AccessBlurs DEF AccessShape, IsLists
  <2>4. AccessReads'
    <3>1. SUFFICES ASSUME load.phase = "landed", ~unread PROVE AccessReads'
      BY <2>1 DEF AccessReads
    <3>2. Untouched(db.access) /\ Untouched(access) /\ \A v \in writes : Untouched(v.access)
      BY <3>1 DEF AccessInv, AccessReads
    <3>3. \A l \in A!Lists \ touched' : l \notin touched /\ A!Blurred[l] = access[l]
      BY <1>1, <2>1, AccessBlurs
    <3> QED
      BY <2>1, <2>2, <3>1, <3>2, <3>3 DEF AccessReads, Untouched
  <2> QED
    BY <2>1, <2>3, <2>4, AccessKept DEF AccessInv
<1>3. ASSUME NEW w \in writes, A!updateDatabaseAccess(w) PROVE AccessInv'
  <2>1. /\ UNCHANGED <<before, form, creation, submitting, asked, access, focus, touched, load, unread>>
        /\ db' = db \/ db' = [db EXCEPT !.access = w.access]
        /\ \E p \in {"done", "refused"} : writes' = A!Written(w, p)
    BY <1>3 DEF A!updateDatabaseAccess, A!fields, A!creating
  <2>2. /\ db' = [exists |-> db.exists, partitioned |-> db.partitioned, access |-> db'.access]
        /\ db'.access \in {db.access, w.access} /\ db'.exists = db.exists /\ db'.partitioned = db.partitioned
    BY <1>1, <2>1 DEF AccessShape
  <2>3. \A v \in writes' : \E u \in writes : v = [n |-> u.n, access |-> u.access, phase |-> v.phase]
    BY <1>1, <2>1 DEF AccessShape, A!Written
  <2>4. AccessShape'
    <3>1. \A v \in writes' : v = [n |-> v.n, access |-> v.access, phase |-> v.phase] /\ IsLists(v.access)
      BY <1>1, <2>3 DEF AccessShape
    <3> QED
      BY <1>1, <2>1, <2>2, <3>1 DEF AccessShape, IsLists
  <2>5. AccessReads'
    <3>1. SUFFICES ASSUME load.phase # "none", ~unread PROVE AccessReads'
      BY <2>1 DEF AccessReads
    <3>2. \A v \in writes' : load.phase = "landed" /\ Untouched(v.access)
      BY <2>3, <3>1 DEF AccessInv, AccessReads
    <3>3. Untouched(db'.access)
      BY <2>2, <3>1 DEF AccessInv, AccessReads
    <3> QED
      BY <2>1, <3>1, <3>2, <3>3 DEF AccessInv, AccessReads, Untouched
  <2>6. AccessCreation'
    BY <2>1, <2>2 DEF AccessInv, AccessCreation, IsLists
  <2> QED
    BY <2>1, <2>4, <2>5, <2>6, AccessKept DEF AccessInv
<1>4. ASSUME NEW w \in writes, A!_updateAccess(w) PROVE AccessInv'
  <2>1. /\ UNCHANGED <<before, db, form, creation, submitting, asked, focus, touched, load, unread>>
        /\ writes' = writes \ {w} /\ access' \in {access, w.access}
    BY <1>4 DEF A!_updateAccess, A!creating
  <2>2. AccessShape'
    BY <1>1, <2>1 DEF AccessShape, IsLists
  <2>3. AccessReads'
    BY <2>1 DEF AccessInv, AccessReads, Untouched
  <2> QED
    BY <2>1, <2>2, <2>3, AccessKept DEF AccessInv
<1> QED
  BY <1>2, <1>3, <1>4

\* Create, its two requests, and leaving the form under them.
LEMMA AccessCreates == ASSUME AccessInv, A!_handleCreate \/ A!createDatabase \/ A!Leave PROVE AccessInv'
<1>1. AccessShape
  BY DEF AccessInv
<1>2. CASE A!Leave
  <2>1. UNCHANGED <<access, before, touched, db, load, writes, unread, creation, submitting, asked>> /\ focus' = None
    BY <1>2 DEF A!Leave, A!creating, A!updating
  <2>2. form' = "away"
    BY <1>2 DEF A!Leave
  <2>3. AccessShape' /\ AccessForms'
    BY <2>1, <2>2 DEF AccessInv, AccessShape, AccessForms, IsLists
  <2> QED
    BY <2>1, <2>3, AccessKept DEF AccessInv
<1>3. CASE A!_handleCreate
  <2>1. /\ UNCHANGED <<before, db, load, writes, unread, form>> /\ form = "create" /\ submitting'
        /\ focus' = None /\ access' = A!Blurred /\ touched' = touched \union (IF A!Blurs THEN {focus} ELSE {})
        /\ creation' = [step |-> "db", partitioned |-> partitioned, access |-> A!Blurred]
        /\ asked' = [partitioned |-> partitioned, access |-> A!Blurred]
    BY <1>3 DEF A!_handleCreate, A!_handleBlur
  <2>2. load.phase = "none"
    BY <2>1 DEF AccessInv, AccessForms
  <2>3. AccessShape' /\ AccessReads'
    BY <1>1, <2>1, AccessBlurs, AccessEdited
  <2>4. AccessForms' /\ AccessCreation'
    <3>1. AccessForms'
      BY <2>1, <2>2 DEF AccessForms
    <3>2. /\ creation'.step = "db" /\ creation'.access = A!Blurred /\ creation'.partitioned = partitioned
          /\ asked'.access = A!Blurred /\ asked'.partitioned = partitioned
          /\ creation' = [step |-> creation'.step, partitioned |-> creation'.partitioned, access |-> creation'.access]
      BY <2>1
    <3>3. AccessCreation'
      BY <1>1, <2>1, <3>2, AccessBlurs DEF AccessCreation, IsLists
    <3> QED
      BY <3>1, <3>3
  <2> QED
    BY <2>3, <2>4 DEF AccessInv
<1>4. CASE A!createDatabase
  <2>1. creation.step # "none" /\ UNCHANGED <<access, focus, touched, before, load, writes, unread, asked>>
    BY <1>4 DEF A!createDatabase, A!fields, A!updating
  <2>2. load.phase = "none" /\ AccessCreation
    BY <2>1 DEF AccessInv, AccessForms
  <2>3. AccessForms' /\ AccessReads'
    BY <2>1, <2>2 DEF AccessForms, AccessReads
  <2>4. \/ /\ creation.step = "db" /\ db' = A!Made(creation)
           /\ creation' = [creation EXCEPT !.step = "security"] /\ UNCHANGED submitting
        \/ creation.step = "security" /\ db' = [db EXCEPT !.access = creation.access] /\ creation' = [step |-> "none"]
        \/ creation' = [step |-> "none"] /\ db' = db
        \/ creation' = [step |-> "none"] /\ db' = A!Made(creation)
    BY <1>4 DEF A!createDatabase, A!Stopped
  <2>5. IsLists(creation.access) /\ IsLists(A!Default)
    BY <2>1, <2>2 DEF AccessCreation, IsLists, A!Default
  <2>6. AccessShape'
    BY <1>1, <2>1, <2>4, <2>5 DEF AccessShape, IsLists, A!Made
  <2>7. AccessCreation'
    <3>1. creation = [step |-> creation.step, partitioned |-> creation.partitioned, access |-> creation.access]
      BY <2>1, <2>2 DEF AccessCreation
    <3>2. CASE creation' = [step |-> "none"]
      BY <3>2 DEF AccessCreation
    <3>3. CASE /\ creation.step = "db" /\ db' = A!Made(creation)
               /\ creation' = [creation EXCEPT !.step = "security"] /\ UNCHANGED submitting
      <4>1. creation' = [step |-> "security", partitioned |-> creation.partitioned, access |-> creation.access]
        BY <3>1, <3>3
      <4>2. db'.exists = TRUE /\ db'.partitioned = creation.partitioned
        BY <3>3 DEF A!Made
      <4>3. submitting'
        BY <2>1, <2>2, <3>3, Zenon DEF AccessCreation
      <4> QED
        BY <2>1, <2>2, <4>1, <4>2, <4>3 DEF AccessCreation, IsLists
    <3> QED
      BY <2>4, <3>2, <3>3
  <2> QED
    BY <2>3, <2>6, <2>7 DEF AccessInv
<1> QED
  BY <1>2, <1>3, <1>4

LEMMA AccessStep == ASSUME AccessInv, [A!Next]_(A!vars) PROVE AccessInv'
<1>1. CASE UNCHANGED A!vars
  BY <1>1, AccessKept DEF A!vars, AccessInv
<1>2. CASE A!Next
  BY <1>2, AccessFields, AccessRead, AccessUpdates, AccessCreates DEF A!Next
<1> QED
  BY <1>1, <1>2

LEMMA AccessInvariant == A!Spec => []AccessInv
<1>1. AccessInv /\ [A!Next]_(A!vars) => AccessInv'
  BY AccessStep
<1> QED
  BY <1>1, AccessStarts, PTL DEF A!Spec

\* As long as no update is sent before the lists were read, the lists nobody edited stay in CouchDB
\* as they were, whatever is typed, sent and refused in whatever order (manage-permissions.ts).
THEOREM UntouchedListsStay == A!Spec => []A!UntouchedStays
<1>1. AccessInv => A!UntouchedStays
  BY DEF AccessInv, AccessReads, Untouched, A!UntouchedStays
<1> QED
  BY <1>1, AccessInvariant, PTL

\* The creation form says that the database is there when it has the lists and the partitioning that
\* Create was pressed for, whatever was edited between its two requests (db-create.ts).
THEOREM CreationIsWhatWasAsked == A!Spec => A!CreatedAsAsked
<1>1. ASSUME AccessInv, [A!Next]_(A!vars) PROVE A!CreatedAsAskedStep
  <2>1. SUFFICES ASSUME submitting, ~submitting', ~error' PROVE db'.exists /\ db'.access = asked.access /\ db'.partitioned = asked.partitioned
    BY DEF A!CreatedAsAskedStep
  <2>2. submitting' # submitting
    BY <2>1, Zenon
  <2>3. CASE A!createDatabase
    <3>1. creation.step = "security" /\ db' = [db EXCEPT !.access = creation.access]
      <4>1. ~A!Stopped
        BY <2>1, Zenon DEF A!Stopped
      <4> QED
        BY <2>2, <2>3, <4>1 DEF A!createDatabase
    <3>2. db = [exists |-> db.exists, partitioned |-> db.partitioned, access |-> db.access]
      BY <1>1 DEF AccessInv, AccessShape
    <3>3. db'.exists = db.exists /\ db'.partitioned = db.partitioned /\ db'.access = creation.access
      BY <3>1, <3>2
    <3>4. db.exists /\ db.partitioned = creation.partitioned /\ creation.access = asked.access /\ creation.partitioned = asked.partitioned
      BY <1>1, <3>1, Zenon DEF AccessInv, AccessCreation
    <3> QED
      BY <3>3, <3>4
  <2>4. CASE A!_handleCreate
    BY <2>1, <2>4, Zenon DEF A!_handleCreate
  <2> QED
    <3>1. A!Next
      BY <1>1, <2>2 DEF A!vars
    <3> QED
      BY <2>2, <2>3, <2>4, <3>1
      DEF A!Next, A!Focus, A!_removeItem, A!Type, A!Enter, A!Backspace, A!SecurityRead, A!_load, A!Update,
          A!updateDatabaseAccess, A!_updateAccess, A!TypeName, A!Partition, A!Leave, A!creating
<1>2. AccessInv /\ [A!Next]_(A!vars) => [A!CreatedAsAskedStep]_(A!vars)
  BY <1>1
<1> QED
  BY <1>2, AccessInvariant, PTL DEF A!Spec, A!CreatedAsAsked

----------------------------------------------------------------------------
(* One endpoint of the replication form: its database browser and its filter picker, closed    *)
(* and opened over any number of slow servers.                                                   *)

E == INSTANCE EndpointForm

EndpointRequests ==
  /\ sent \in Nat
  /\ \A q \in requests : q = [n |-> q.n, what |-> q.what, of |-> q.of] /\ q.n \in 1..sent
  /\ \A p, q \in requests : p.n = q.n => p = q

\* The answer the browser waits for is about the server it was opened on.
EndpointBrowser ==
  /\ browser = [phase |-> browser.phase, of |-> browser.of, seq |-> browser.seq, asked |-> browser.asked]
  /\ browser.seq \in 0..sent
  /\ \A q \in requests : q.n = browser.seq => q.what = "databases" /\ q.of = browser.asked
  /\ browser.phase = "list" => browser.of = browser.asked
  /\ browser.phase = "loading" => \E q \in requests : q.what = "databases" /\ q.n = browser.seq

EndpointPicker ==
  /\ picker = [ddocs |-> picker.ddocs, ddoc |-> picker.ddoc, filters |-> picker.filters, filter |-> picker.filter,
               loadingDdocs |-> picker.loadingDdocs, loadingFilters |-> picker.loadingFilters]
  /\ picker.loadingDdocs \in BOOLEAN /\ picker.loadingFilters \in BOOLEAN
  /\ picker.loadingDdocs = TRUE => \E q \in requests : q.what = "ddocs"
  /\ picker.loadingFilters = TRUE => \E q \in requests : q.what = "filters"

EndpointInv == EndpointRequests /\ EndpointBrowser /\ EndpointPicker

LEMMA EndpointStarts == E!Init => EndpointInv
BY DEF E!Init, E!Closed, EndpointInv, EndpointRequests, EndpointBrowser, EndpointPicker

LEMMA EndpointKept ==
  ASSUME EndpointInv, UNCHANGED <<browser, picker, requests, sent>> PROVE EndpointInv'
BY DEF EndpointInv, EndpointRequests, EndpointBrowser, EndpointPicker

\* A request that is sent has a number of its own.
LEMMA EndpointSends ==
  ASSUME EndpointInv, NEW what, NEW of, E!Send(what, of), browser'.seq \in {browser.seq, sent'}
  PROVE  /\ EndpointRequests' /\ sent' \in Nat /\ sent' = sent + 1
         /\ \E q \in requests' : q = [n |-> sent', what |-> what, of |-> of]
         /\ requests \subseteq requests'
         /\ \A q \in requests' : (q \in requests /\ q.n # sent') \/ q = [n |-> sent', what |-> what, of |-> of]
<1> DEFINE new == [n |-> sent', what |-> what, of |-> of]
<1>1. sent' = sent + 1 /\ requests' = requests \union {new} /\ sent \in Nat
  BY DEF E!Send, EndpointInv, EndpointRequests
<1>2. new.n = sent' /\ new = [n |-> new.n, what |-> new.what, of |-> new.of]
  OBVIOUS
<1> HIDE DEF new
<1>3. \A q \in requests : q.n # sent' /\ q.n \in 1..sent'
  BY <1>1 DEF EndpointInv, EndpointRequests
<1>4. EndpointRequests'
  <2>1. \A q \in requests' : q = [n |-> q.n, what |-> q.what, of |-> q.of] /\ q.n \in 1..sent'
    BY <1>1, <1>2, <1>3 DEF EndpointInv, EndpointRequests
  <2>2. \A p, q \in requests' : p.n = q.n => p = q
    BY <1>1, <1>2, <1>3 DEF EndpointInv, EndpointRequests
  <2> QED
    BY <1>1, <2>1, <2>2 DEF EndpointRequests
<1>5. /\ \E q \in requests' : q = new
      /\ \A q \in requests' : (q \in requests /\ q.n # sent') \/ q = new
  BY <1>1, <1>3
<1> QED
  BY <1>1, <1>4, <1>5 DEF new

LEMMA EndpointOpens == ASSUME EndpointInv, E!show \/ E!OpenPicker \/ \E d \in Ddocs : E!_selectDdoc(d) PROVE EndpointInv'
<1>1. CASE E!show
  <2>1. /\ E!Send("databases", serverUrl) /\ UNCHANGED picker
        /\ browser' = [browser EXCEPT !.phase = "loading", !.seq = sent', !.asked = serverUrl]
    BY <1>1 DEF E!show
  <2>2. browser' = [phase |-> "loading", of |-> browser.of, seq |-> sent', asked |-> serverUrl]
    BY <2>1 DEF EndpointInv, EndpointBrowser
  <2>3. /\ EndpointRequests' /\ sent' \in Nat /\ requests \subseteq requests'
        /\ \E q \in requests' : q = [n |-> sent', what |-> "databases", of |-> serverUrl]
        /\ \A q \in requests' : (q \in requests /\ q.n # sent') \/ q = [n |-> sent', what |-> "databases", of |-> serverUrl]
    BY <2>1, <2>2, EndpointSends
  <2>4. EndpointBrowser'
    BY <2>2, <2>3 DEF EndpointBrowser
  <2>5. EndpointPicker'
    BY <2>1, <2>3 DEF EndpointInv, EndpointPicker
  <2> QED
    BY <2>3, <2>4, <2>5 DEF EndpointInv
<1>2. CASE E!OpenPicker
  <2>1. /\ E!Send("ddocs", serverUrl) /\ UNCHANGED browser
        /\ picker' = [picker EXCEPT !.ddoc = None, !.filter = None, !.filters = None, !.loadingDdocs = TRUE]
    BY <1>2 DEF E!OpenPicker
  <2>2. /\ EndpointRequests' /\ sent' \in Nat /\ sent' = sent + 1 /\ requests \subseteq requests'
        /\ \E q \in requests' : q = [n |-> sent', what |-> "ddocs", of |-> serverUrl]
        /\ \A q \in requests' : (q \in requests /\ q.n # sent') \/ q = [n |-> sent', what |-> "ddocs", of |-> serverUrl]
    BY <2>1, EndpointSends
  <2>3. EndpointBrowser'
    BY <2>1, <2>2 DEF EndpointInv, EndpointBrowser, EndpointRequests
  <2>4. picker' = [ddocs |-> picker.ddocs, ddoc |-> None, filters |-> None, filter |-> None, loadingDdocs |-> TRUE, loadingFilters |-> picker.loadingFilters]
    BY <2>1 DEF EndpointInv, EndpointPicker
  <2>5. EndpointPicker'
    BY <2>2, <2>4 DEF EndpointInv, EndpointPicker
  <2> QED
    BY <2>2, <2>3, <2>5 DEF EndpointInv
<1>3. ASSUME NEW d \in Ddocs, E!_selectDdoc(d) PROVE EndpointInv'
  <2>1. /\ E!Send("filters", d) /\ UNCHANGED browser
        /\ picker' = [picker EXCEPT !.ddoc = d, !.filter = None, !.filters = None, !.loadingFilters = TRUE]
    BY <1>3 DEF E!_selectDdoc
  <2>2. /\ EndpointRequests' /\ sent' \in Nat /\ sent' = sent + 1 /\ requests \subseteq requests'
        /\ \E q \in requests' : q = [n |-> sent', what |-> "filters", of |-> d]
        /\ \A q \in requests' : (q \in requests /\ q.n # sent') \/ q = [n |-> sent', what |-> "filters", of |-> d]
    BY <2>1, EndpointSends
  <2>3. EndpointBrowser'
    BY <2>1, <2>2 DEF EndpointInv, EndpointBrowser, EndpointRequests
  <2>4. picker' = [ddocs |-> picker.ddocs, ddoc |-> d, filters |-> None, filter |-> None, loadingDdocs |-> picker.loadingDdocs, loadingFilters |-> TRUE]
    BY <2>1 DEF EndpointInv, EndpointPicker
  <2>5. EndpointPicker'
    BY <2>2, <2>4 DEF EndpointInv, EndpointPicker
  <2> QED
    BY <2>2, <2>3, <2>5 DEF EndpointInv
<1> QED
  BY <1>1, <1>2, <1>3

\* An answer is only shown if it is the one that is waited for.
LEMMA EndpointAnswers ==
  ASSUME EndpointInv, NEW q \in requests, E!Listed(q) \/ E!_loadDdocs(q) \/ E!FiltersLand(q) PROVE EndpointInv'
<1>1. requests' = requests \ {q} /\ UNCHANGED sent
  BY DEF E!Listed, E!_loadDdocs, E!FiltersLand
<1>2. EndpointRequests'
  BY <1>1 DEF EndpointInv, EndpointRequests
<1>3. CASE E!Listed(q)
  <2>1. q.what = "databases" /\ UNCHANGED picker
    BY <1>3 DEF E!Listed
  <2>2. CASE q.n = browser.seq
    <3>1. PICK p \in {"list", "error"} : browser' = [browser EXCEPT !.phase = p, !.of = q.of]
      BY <1>3, <2>2 DEF E!Listed, E!Newest
    <3>2. browser' = [phase |-> p, of |-> q.of, seq |-> browser.seq, asked |-> browser.asked] /\ q.of = browser.asked
      BY <2>2, <3>1 DEF EndpointInv, EndpointBrowser
    <3>3. EndpointBrowser'
      BY <1>1, <3>2 DEF EndpointInv, EndpointBrowser
    <3>4. EndpointPicker'
      BY <1>1, <2>1 DEF EndpointInv, EndpointPicker
    <3> QED
      BY <1>2, <3>3, <3>4 DEF EndpointInv
  <2>3. CASE q.n # browser.seq
    <3>1. browser' = browser
      BY <1>3, <2>3 DEF E!Listed, E!Newest
    <3>2. EndpointBrowser'
      BY <1>1, <2>3, <3>1 DEF EndpointInv, EndpointBrowser
    <3>3. EndpointPicker'
      BY <1>1, <2>1 DEF EndpointInv, EndpointPicker
    <3> QED
      BY <1>2, <3>2, <3>3 DEF EndpointInv
  <2> QED
    BY <2>2, <2>3
<1>4. CASE E!_loadDdocs(q)
  <2>1. PICK ds : picker' = [picker EXCEPT !.ddocs = ds, !.loadingDdocs = FALSE]
    BY <1>4 DEF E!_loadDdocs
  <2>2. q.what = "ddocs" /\ UNCHANGED browser
    BY <1>4 DEF E!_loadDdocs
  <2>3. picker' = [ddocs |-> ds, ddoc |-> picker.ddoc, filters |-> picker.filters, filter |-> picker.filter, loadingDdocs |-> FALSE, loadingFilters |-> picker.loadingFilters]
    BY <2>1 DEF EndpointInv, EndpointPicker
  <2>4. EndpointPicker'
    BY <1>1, <2>2, <2>3 DEF EndpointInv, EndpointPicker
  <2>5. EndpointBrowser'
    BY <1>1, <2>2 DEF EndpointInv, EndpointBrowser
  <2> QED
    BY <1>2, <2>4, <2>5 DEF EndpointInv
<1>5. CASE E!FiltersLand(q)
  <2>1. PICK fs : picker' = [picker EXCEPT !.filters = fs, !.loadingFilters = FALSE]
    BY <1>5 DEF E!FiltersLand
  <2>2. q.what = "filters" /\ UNCHANGED browser
    BY <1>5 DEF E!FiltersLand
  <2>3. picker' = [ddocs |-> picker.ddocs, ddoc |-> picker.ddoc, filters |-> fs, filter |-> picker.filter, loadingDdocs |-> picker.loadingDdocs, loadingFilters |-> FALSE]
    BY <2>1 DEF EndpointInv, EndpointPicker
  <2>4. EndpointPicker'
    BY <1>1, <2>2, <2>3 DEF EndpointInv, EndpointPicker
  <2>5. EndpointBrowser'
    BY <1>1, <2>2 DEF EndpointInv, EndpointBrowser
  <2> QED
    BY <1>2, <2>4, <2>5 DEF EndpointInv
<1> QED
  BY <1>3, <1>4, <1>5

LEMMA EndpointPicks == ASSUME EndpointInv, NEW f, E!SelectFilter(f) PROVE EndpointInv'
<1>1. picker' = [picker EXCEPT !.filter = f] /\ UNCHANGED <<browser, requests, sent>>
  BY DEF E!SelectFilter
<1>2. picker' = [ddocs |-> picker.ddocs, ddoc |-> picker.ddoc, filters |-> picker.filters, filter |-> f,
                 loadingDdocs |-> picker.loadingDdocs, loadingFilters |-> picker.loadingFilters]
  BY <1>1 DEF EndpointInv, EndpointPicker
<1>3. EndpointPicker'
  BY <1>1, <1>2 DEF EndpointInv, EndpointPicker
<1> QED
  BY <1>1, <1>3 DEF EndpointInv, EndpointRequests, EndpointBrowser

\* The fields, the dialog of the credential and the texts leave the browser and the picker alone.
LEMMA EndpointOthers ==
  ASSUME \/ \E u \in Servers : E!EditServer(u) \/ E!Populate(u, <<>>)
         \/ E!openDialog \/ E!closeDialog \/ E!startReplace \/ E!startClear \/ E!confirm \/ E!addRow
         \/ \E m \in E!Modes : E!PickMode(m)
         \/ \E s \in Secrets : E!TypeSecret(s)
         \/ \E row \in E!TypedRows : E!TypeDraft(row) \/ \E i \in 1..2 : E!updateRow(i, row)
         \/ \E i \in 1..2 : E!removeRow(i)
         \/ E!pick \/ E!close \/ E!TypeFilter \/ E!_confirm \/ E!_cancel
  PROVE  UNCHANGED <<browser, picker, requests, sent>>
<1>1. ASSUME E!openDialog \/ E!closeDialog \/ E!confirm \/ E!pick \/ E!close \/ E!TypeFilter \/ E!_confirm \/ E!_cancel
      PROVE  UNCHANGED <<browser, picker, requests, sent>>
  BY <1>1 DEF E!openDialog, E!closeDialog, E!confirm, E!pick, E!close, E!TypeFilter, E!_confirm,
     E!_cancel
<1>2. ASSUME NEW u, E!EditServer(u) \/ E!Populate(u, <<>>) PROVE UNCHANGED <<browser, picker, requests, sent>>
  BY <1>2 DEF E!EditServer, E!Populate
<1>3. ASSUME NEW p, E!Draft(p) PROVE UNCHANGED <<browser, picker, requests, sent>>
  BY <1>3 DEF E!Draft
<1>4. ASSUME NEW p, E!Rows(p) PROVE UNCHANGED <<browser, picker, requests, sent>>
  BY <1>3, <1>4 DEF E!Rows
<1>5. ASSUME E!startReplace \/ E!startClear \/ E!addRow PROVE UNCHANGED <<browser, picker, requests, sent>>
  BY <1>3, <1>4, <1>5 DEF E!startReplace, E!startClear, E!addRow
<1>6. ASSUME NEW x, E!PickMode(x) \/ E!TypeSecret(x) \/ E!TypeDraft(x) \/ E!removeRow(x)
      PROVE  UNCHANGED <<browser, picker, requests, sent>>
  BY <1>3, <1>4, <1>6 DEF E!PickMode, E!TypeSecret, E!TypeDraft, E!removeRow
<1>7. ASSUME NEW i, NEW row, E!updateRow(i, row) PROVE UNCHANGED <<browser, picker, requests, sent>>
  BY <1>4, <1>7 DEF E!updateRow
<1> QED
  BY <1>1, <1>2, <1>5, <1>6, <1>7

LEMMA EndpointStep == ASSUME EndpointInv, [E!Next]_(E!vars) PROVE EndpointInv'
<1>1. CASE UNCHANGED E!vars
  BY <1>1, EndpointKept DEF E!vars
<1>2. CASE E!Next
  BY <1>2, EndpointOthers, EndpointKept, EndpointOpens, EndpointAnswers, EndpointPicks DEF E!Next
<1> QED
  BY <1>1, <1>2

\* The databases to pick from are those of the server the browser was opened on, and a spinner has an
\* answer to wait for, however often the dialogs are closed over a slow server and opened on another
\* (repl-db-browser.ts, repl-filter-picker.ts).
THEOREM BrowserIsOfItsServer == E!Spec => [](E!ListIsOfTheServer /\ E!SpinnersEnd)
<1>1. EndpointInv /\ [E!Next]_(E!vars) => EndpointInv'
  BY EndpointStep
<1>2. ASSUME EndpointInv PROVE E!ListIsOfTheServer /\ E!SpinnersEnd
  <2>1. E!ListIsOfTheServer
    BY <1>2 DEF EndpointInv, EndpointBrowser, E!ListIsOfTheServer
  <2>2. /\ browser.phase = "loading" => \E q \in requests : q.what = "databases" /\ q.n = browser.seq
        /\ picker.loadingDdocs = TRUE => \E q \in requests : q.what = "ddocs"
        /\ picker.loadingFilters = TRUE => \E q \in requests : q.what = "filters"
        /\ picker.loadingDdocs \in {TRUE, FALSE} /\ picker.loadingFilters \in {TRUE, FALSE}
    BY <1>2 DEF EndpointInv, EndpointBrowser, EndpointPicker
  <2> QED
    BY <2>1, <2>2, Zenon DEF E!SpinnersEnd
<1>3. EndpointInv => E!ListIsOfTheServer /\ E!SpinnersEnd
  BY <1>2
<1> QED
  BY <1>1, <1>3, EndpointStarts, PTL DEF E!Spec

----------------------------------------------------------------------------
(* The configuration of the node: any configuration, and reads, saves and the requests of the  *)
(* CORS panel that cross each other.                                                             *)

N == INSTANCE ConfigScreen

\* The answers are numbered as CouchDB gives them, and each is shown once.
OptionReads ==
  /\ clock \in Nat /\ newest \in 0..clock
  /\ \A r \in reads : r = [n |-> r.n, config |-> r.config, at |-> r.at] /\ r.at \in 0..clock
  /\ \A r \in reads : r.at # 0 => r.at # newest
  /\ \A q, r \in reads : q.at = r.at /\ r.at # 0 => q = r

\* Unless an answer was lost, the latest one is of what CouchDB has, or something is under way that
\* ends in another.
OptionsTrue ==
  open /\ ~lost =>
    \/ jobs # {}
    \/ \E r \in reads : r.at = 0 \/ (r.at = clock /\ r.config = config)
    \/ newest = clock /\ shown = config

OptionHeader == header = IF open THEN N!Actions(nodes) ELSE {}
OptionSpinner == loading => reads # {}

OptionInv == OptionReads /\ OptionsTrue /\ OptionHeader /\ OptionSpinner

LEMMA OptionStarts == N!Init => OptionInv
<1> SUFFICES ASSUME N!Init PROVE OptionInv
  OBVIOUS
<1>1. PICK m \in {1, 2} : reads = {N!Asked(i) : i \in 1..m}
  BY DEF N!Init
<1>2. 1 \in 1..m
  OBVIOUS
<1>3. N!Asked(1) \in reads
  BY <1>1, <1>2
<1>4. \A r \in reads : r.at = 0 /\ r = [n |-> r.n, config |-> r.config, at |-> r.at]
  BY <1>1 DEF N!Asked
<1>5. OptionReads
  BY <1>4 DEF OptionReads, N!Init
<1>6. OptionsTrue /\ OptionSpinner
  BY <1>3, <1>4 DEF OptionsTrue, OptionSpinner
<1>7. OptionHeader
  BY DEF OptionHeader, N!Init
<1> QED
  BY <1>5, <1>6, <1>7 DEF OptionInv

LEMMA OptionKept ==
  /\ OptionReads /\ UNCHANGED <<reads, clock, newest>> => OptionReads'
  /\ OptionsTrue /\ UNCHANGED <<open, lost, jobs, reads, config, clock, newest, shown>> => OptionsTrue'
  /\ OptionHeader /\ UNCHANGED <<header, open, nodes>> => OptionHeader'
  /\ OptionSpinner /\ UNCHANGED <<loading, reads>> => OptionSpinner'
<1>1. OptionReads /\ UNCHANGED <<reads, clock, newest>> => OptionReads'
  BY DEF OptionReads
<1>2. OptionsTrue /\ UNCHANGED <<open, lost, jobs, reads, config, clock, newest, shown>> => OptionsTrue'
  BY DEF OptionsTrue
<1>3. OptionHeader /\ UNCHANGED <<header, open, nodes>> => OptionHeader'
  BY DEF OptionHeader, N!Actions
<1>4. OptionSpinner /\ UNCHANGED <<loading, reads>> => OptionSpinner'
  BY Zenon DEF OptionSpinner
<1> QED
  BY <1>1, <1>2, <1>3, <1>4

\* A read that is begun has no answer yet; the one after a write makes the screen true.
LEMMA OptionLoads ==
  ASSUME OptionInv, N!_load, UNCHANGED <<clock, newest>>
  PROVE  OptionReads' /\ OptionSpinner' /\ OptionsTrue'
<1>1. reads' = reads \union {N!Asked(sent + 1)}
  BY DEF N!_load
<1>2. N!Asked(sent + 1).at = 0 /\ N!Asked(sent + 1) = [n |-> N!Asked(sent + 1).n, config |-> N!Asked(sent + 1).config, at |-> N!Asked(sent + 1).at]
  BY DEF N!Asked
<1>3. OptionReads'
  BY <1>1, <1>2 DEF OptionInv, OptionReads
<1>4. \E r \in reads' : r.at = 0
  BY <1>1, <1>2
<1> QED
  BY <1>3, <1>4 DEF OptionsTrue, OptionSpinner

\* The probe, and the screen's end.
LEMMA OptionChrome == ASSUME OptionInv, N!_probeClusterSize \/ N!disconnectedCallback PROVE OptionInv'
<1>1. CASE N!_probeClusterSize
  <2>1. /\ header' = (IF open THEN N!Actions(nodes') ELSE header) /\ UNCHANGED open
        /\ UNCHANGED <<lost, jobs, reads, config, clock, newest, shown, loading>>
    BY <1>1 DEF N!_probeClusterSize, N!_updateHeaderActions, N!view
  <2>2. OptionHeader'
    BY <2>1 DEF OptionInv, OptionHeader, N!Actions
  <2> QED
    BY <2>1, <2>2, OptionKept DEF OptionInv
<1>2. CASE N!disconnectedCallback
  <2>1. ~open' /\ header' = {} /\ reads' = {} /\ UNCHANGED <<clock, newest>>
    BY <1>2, Zenon DEF N!disconnectedCallback
  <2>2. ~loading'
    BY <1>2, Zenon DEF N!disconnectedCallback
  <2>3. OptionReads'
    BY <2>1 DEF OptionInv, OptionReads
  <2>4. OptionsTrue' /\ OptionHeader' /\ OptionSpinner'
    BY <2>1, <2>2, Zenon DEF OptionsTrue, OptionHeader, OptionSpinner
  <2> QED
    BY <2>3, <2>4 DEF OptionInv
<1> QED
  BY <1>1, <1>2

LEMMA OptionAnswers == ASSUME OptionInv, NEW r \in reads, N!Answer(r) PROVE OptionInv'
<1> DEFINE now_ == [r EXCEPT !.config = config, !.at = clock + 1]
<1>1. /\ r.at = 0 /\ clock' = clock + 1 /\ reads' = (reads \ {r}) \union {now_}
      /\ UNCHANGED <<open, lost, jobs, config, newest, shown, loading, header, nodes>>
  BY DEF N!Answer, N!chrome
<1>2. now_ = [n |-> now_.n, config |-> config, at |-> clock + 1] /\ now_.at = clock + 1 /\ now_.config = config
  <2>1. r = [n |-> r.n, config |-> r.config, at |-> r.at]
    BY DEF OptionInv, OptionReads
  <2>2. ASSUME NEW x, NEW a, x = [r EXCEPT !.config = config, !.at = a]
        PROVE  x = [n |-> r.n, config |-> config, at |-> a]
    BY <2>1, <2>2
  <2>3. now_ = [n |-> r.n, config |-> config, at |-> clock + 1]
    BY <2>2
  <2> HIDE DEF now_
  <2> QED
    BY <2>3
<1> HIDE DEF now_
<1>3. clock \in Nat /\ newest \in 0..clock /\ \A q \in reads : q.at \in 0..clock
  BY DEF OptionInv, OptionReads
<1>4. \A q \in reads' : q = [n |-> q.n, config |-> q.config, at |-> q.at] /\ q.at \in 0..clock' /\ (q.at # 0 => q.at # newest')
  BY <1>1, <1>2, <1>3 DEF OptionInv, OptionReads
<1>5. \A p, q \in reads' : p.at = q.at /\ q.at # 0 => p = q
  BY <1>1, <1>2, <1>3 DEF OptionInv, OptionReads
<1>6. OptionReads'
  BY <1>1, <1>3, <1>4, <1>5 DEF OptionReads
<1>7. \E q \in reads' : q.at = clock' /\ q.config = config'
  BY <1>1, <1>2
<1>8. OptionsTrue' /\ OptionSpinner'
  BY <1>7 DEF OptionsTrue, OptionSpinner
<1> QED
  BY <1>1, <1>6, <1>8, OptionKept DEF OptionInv

LEMMA OptionLanded == ASSUME OptionInv, NEW r \in reads, N!_loaded(r) PROVE OptionInv'
<1>1. /\ reads' = reads \ {r} /\ UNCHANGED <<open, config, clock, header, nodes>>
      /\ \/ /\ r.at # 0 /\ shown' = r.config /\ newest' = r.at /\ (r.at < newest => lost')
            /\ jobs # {} => jobs' # {}
         \/ lost' /\ UNCHANGED newest
  <2>1. CASE r.at # 0 /\ shown' = r.config
    BY <2>1 DEF N!_loaded, N!chrome
  <2> QED
    BY <2>1 DEF N!_loaded, N!chrome
<1>2. ~loading'
  BY Zenon DEF N!_loaded
<1>3. lost => lost'
  BY Zenon DEF N!_loaded
<1>4. r.at \in 0..clock /\ clock \in Nat /\ newest \in 0..clock
  BY DEF OptionInv, OptionReads
<1>5. OptionReads'
  BY <1>1, <1>4 DEF OptionInv, OptionReads
<1>6. OptionsTrue'
  <2>1. SUFFICES ASSUME open, ~lost', ~lost, jobs' = {} PROVE OptionsTrue'
    BY <1>1, <1>3, Zenon DEF OptionsTrue
  <2>2. r.at # 0 /\ shown' = r.config /\ newest' = r.at /\ ~(r.at < newest) /\ jobs = {}
    BY <1>1, <2>1
  <2>3. (\E q \in reads : q.at = 0 \/ (q.at = clock /\ q.config = config)) \/ (newest = clock /\ shown = config)
    BY <2>1, <2>2 DEF OptionInv, OptionsTrue
  <2>4. CASE \E q \in reads : q.at = 0
    BY <1>1, <2>2, <2>4 DEF OptionsTrue
  <2>5. CASE \E q \in reads : q.at = clock /\ q.config = config
    <3>1. PICK q \in reads : q.at = clock /\ q.config = config
      BY <2>5
    <3>2. CASE q = r
      BY <1>1, <2>2, <3>1, <3>2 DEF OptionsTrue
    <3>3. CASE q # r
      BY <1>1, <3>1, <3>3 DEF OptionsTrue
    <3> QED
      BY <3>2, <3>3
  <2>6. CASE newest = clock /\ shown = config
    BY <1>4, <2>2, <2>6 DEF OptionInv, OptionReads
  <2> QED
    BY <2>3, <2>4, <2>5, <2>6
<1> QED
  BY <1>1, <1>2, <1>5, <1>6, OptionKept DEF OptionInv, OptionSpinner

\* The dialogs, and what they send.
LEMMA OptionDialogs ==
  ASSUME \/ N!openNew \/ N!_askRestart \/ \E key \in Edited : N!_openEdit(key) \/ N!_askDelete(key)
         \/ \E key \in Edited, value \in Values : N!_updateDraft(key, value)
         \/ N!Cancel \/ N!saveDraft \/ N!runConfirm
  PROVE  UNCHANGED <<open, lost, jobs, reads, config, clock, newest, shown, loading, header, nodes>>
BY DEF N!openNew, N!_askRestart, N!_openEdit, N!_askDelete, N!Ask, N!_updateDraft, N!Cancel,
   N!saveDraft, N!runConfirm,
       N!Confirm, N!chrome, N!view

LEMMA OptionSaved == ASSUME OptionInv, NEW s \in saves, N!Done(s) PROVE OptionInv'
<1>1. UNCHANGED <<open, header, nodes, shown, clock, newest, jobs>>
  BY DEF N!Done, N!chrome
<1>2. CASE N!_load
  BY <1>1, <1>2, OptionLoads, OptionKept DEF OptionInv
<1>3. CASE N!NoLoad /\ (UNCHANGED <<config, lost>> \/ ~open \/ lost')
  <2>1. UNCHANGED <<reads, loading>>
    BY <1>3 DEF N!NoLoad
  <2>2. OptionsTrue'
    BY <1>1, <1>3, <2>1 DEF OptionInv, OptionsTrue
  <2> QED
    BY <1>1, <2>1, <2>2, OptionKept DEF OptionInv
<1>4. N!_load \/ (N!NoLoad /\ (UNCHANGED <<config, lost>> \/ ~open \/ lost'))
  <2>1. CASE s.kind = "restart"
    BY <2>1 DEF N!Done
  <2>2. CASE s.kind # "restart"
    BY <2>2, Zenon DEF N!Done
  <2> QED
    BY <2>1, <2>2
<1> QED
  BY <1>2, <1>3, <1>4

\* The CORS panel.
LEMMA OptionRuns ==
  ASSUME OptionInv,
         \/ N!setEnabled \/ \E m \in {"all", "restrict"} : N!setMode(m)
         \/ \E o \in Origins : N!addOrigin(o) \/ N!removeOrigin(o)
  PROVE  OptionInv'
<1>1. ASSUME NEW todo, NEW seeds, N!run(todo, seeds)
      PROVE  jobs' # {} /\ UNCHANGED <<reads, clock, newest, header, open, nodes, loading>>
  BY <1>1 DEF N!run, N!chrome
<1>2. jobs' # {} /\ UNCHANGED <<reads, clock, newest, header, open, nodes, loading>>
  BY <1>1 DEF N!setEnabled, N!setMode, N!addOrigin, N!removeOrigin
<1>3. OptionsTrue'
  BY <1>2 DEF OptionsTrue
<1> QED
  BY <1>2, <1>3, OptionKept DEF OptionInv

LEMMA OptionPuts == ASSUME OptionInv, NEW j \in jobs, N!put(j) PROVE OptionInv'
<1>1. UNCHANGED <<header, open, nodes, clock, newest, shown>>
  BY DEF N!put, N!chrome
<1>2. CASE N!_load
  BY <1>1, <1>2, OptionLoads, OptionKept DEF OptionInv
<1>3. CASE N!NoLoad /\ (jobs' # {} \/ lost')
  <2>1. UNCHANGED <<reads, loading>>
    BY <1>3 DEF N!NoLoad
  <2>2. OptionsTrue'
    BY <1>3 DEF OptionsTrue
  <2> QED
    BY <1>1, <2>1, <2>2, OptionKept DEF OptionInv
<1>4. N!_load \/ (N!NoLoad /\ (jobs' # {} \/ lost'))
  <2>1. CASE N!Rest(j) # <<>> /\ ~lost'
    BY <2>1 DEF N!put
  <2>2. CASE N!Rest(j) = <<>> /\ ~lost'
    BY <2>2, Zenon DEF N!put
  <2>3. CASE lost'
    BY <2>3, Zenon DEF N!put
  <2> QED
    BY <2>1, <2>2, <2>3
<1> QED
  BY <1>2, <1>3, <1>4

LEMMA OptionStep == ASSUME OptionInv, [N!Next]_(N!vars) PROVE OptionInv'
<1>1. CASE UNCHANGED N!vars
  BY <1>1, OptionKept DEF N!vars, OptionInv
<1>2. CASE N!Next
  <2>1. ASSUME UNCHANGED <<open, lost, jobs, reads, config, clock, newest, shown, loading, header, nodes>>
        PROVE  OptionInv'
    BY <2>1, OptionKept DEF OptionInv
  <2> QED
    BY <1>2, <2>1, OptionChrome, OptionAnswers, OptionLanded, OptionDialogs, OptionSaved, OptionRuns,
       OptionPuts DEF N!Next
<1> QED
  BY <1>1, <1>2

\* Once everything is answered the screen shows what CouchDB has, unless an older read overtook a newer
\* one or an answer was lost; the header's buttons are the screen's as long as it is there, and the
\* spinner waits for something (cca-config.ts, cca-config-cors.ts).
THEOREM ConfigurationIsTheServers ==
  N!Spec => [](N!SettledScreenIsTheServers /\ N!HeaderBelongsToTheScreen /\ N!SpinnerEnds)
<1>1. OptionInv /\ [N!Next]_(N!vars) => OptionInv'
  BY OptionStep
<1>2. OptionInv => N!SettledScreenIsTheServers
  BY DEF OptionInv, OptionsTrue, N!SettledScreenIsTheServers
<1>3. OptionInv => N!HeaderBelongsToTheScreen
  BY DEF OptionInv, OptionHeader, N!HeaderBelongsToTheScreen, N!Actions
<1>4. OptionInv => N!SpinnerEnds
  BY Zenon DEF OptionInv, OptionSpinner, N!SpinnerEnds
<1> QED
  BY <1>1, <1>2, <1>3, <1>4, OptionStarts, PTL DEF N!Spec

----------------------------------------------------------------------------
(* The two forms of an identity provider: any texts, requests that fail where they may, and     *)
(* answers that come when the screen is gone.                                                    *)

F == INSTANCE IdpForm

\* Something can be typed, and None is neither a provider nor a host.
IdpConstants ==
  /\ Texts # {} /\ Clients # {} /\ Claims # {}
  /\ None \notin F!Entry /\ None \notin F!Hosts

IsRequest(p) == p.client \in Clients /\ p.claim \in Claims \union {""} /\ p.only \in BOOLEAN
HasEntry(h) == h \in F!Hosts => stored[h] # None

IdpTypes ==
  /\ route \in {"add", "detail", "list", "away"} /\ header \in {"none", "back", "view", "edit", "theirs"}
  /\ stored \in [F!Hosts -> F!Entry \union {None}] /\ idp \in F!Entry \union {None} /\ draft \in F!Fields
  /\ form \in F!Forms \union {None}
IdpKeys == \A h \in F!Hosts : stored[h] # None => stored[h].keys = h

\* A page registers a provider or looks at one; its requests and its header are of the one kind.
Registering ==
  route \in {"add", "list", "away"} /\ header \in {"none", "theirs"} /\ \A k \in F!Kinds : job[k].step = "none"
Looking == route \in {"detail", "list", "away"} /\ reg.step = "none" /\ blocked = None
IdpWorld == Registering \/ Looking

\* The keys of a registration are those of its URL, except where the URL has a provider already.
IdpReg ==
  /\ reg = [step |-> reg.step, pasted |-> reg.pasted, url |-> reg.url]
  /\ F!submitting => IsRequest(pending) /\ reg.url = pending.url
  /\ reg.step = "document" => reg.pasted = None \/ reg.pasted = F!Head(reg.url) \/ HasEntry(F!Head(reg.url))
  /\ reg.step = "config" => reg.pasted = F!Head(reg.url) \/ HasEntry(F!Head(reg.url))
  /\ reg.step = "write" => reg.pasted = F!Head(reg.url) \/ F!Head(reg.url) \notin F!Hosts
  /\ reg.step = "apply" => HasEntry(F!Head(reg.url))
  /\ blocked # None =>
       IsRequest(pending) /\ (F!submitting \/ blocked = F!Head(pending.url) \/ HasEntry(F!Head(pending.url)))
IdpAsks == confirm => ~F!submitting

IdpJobs ==
  /\ job = [k \in F!Kinds |-> job[k]]
  /\ job["save"].step = "read" => job["save"].entry \in F!Fields
  /\ \A k \in F!Kinds :
       /\ job[k].step = "write" =>
            k \in {"save", "refresh"} /\ job[k].entry \in F!Entry /\ job[k].entry.keys = F!Id
       /\ job[k].step = "landing" => job[k].entry \in F!Entry \union {None}
       /\ job[k].step \in {"load", "landing"} => k \in {"open", "save", "refresh"}
       /\ k # "open" /\ job[k].step # "none" => idp # None
  /\ idp # None => job["open"].step = "none"

IdpHeader ==
  /\ header \in {"view", "edit"} => idp # None
  /\ F!HeaderFollowsTheMode

\* What the screen shows is CouchDB's, or a read of it is under way.
OneWrites == alone = TRUE => ~(F!Busy("save") /\ F!Busy("refresh"))
IdpShown ==
  /\ route = "detail" => stored[F!Id] # None
  /\ alone = TRUE /\ route = "detail" =>
       /\ \A k \in F!Kinds : job[k].step = "landing" => job[k].entry = stored[F!Id]
       /\ idp \in {None, stored[F!Id]} \/ \E k \in {"save", "refresh"} : job[k].step \in {"load", "landing"}

IdpInv ==
  /\ IdpTypes /\ IdpKeys /\ IdpWorld /\ IdpReg /\ IdpAsks
  /\ IdpJobs /\ IdpHeader /\ OneWrites /\ IdpShown

LEMMA IdpIds == ASSUME IdpConstants PROVE F!Id \in F!Hosts /\ F!Default \in Claims /\ F!Blank \in F!Fields
<1>1. \E h : h \in F!Hosts
  BY DEF F!Hosts, IdpConstants
<1>2. F!Id \in F!Hosts
  BY <1>1, Zenon DEF F!Id
<1>3. F!Default \in Claims
  BY Zenon DEF F!Default, IdpConstants
<1>4. (CHOOSE c \in Clients : TRUE) \in Clients
  BY Zenon DEF IdpConstants
<1> QED
  BY <1>2, <1>3, <1>4 DEF F!Blank, F!Fields

LEMMA IdpStarts == ASSUME IdpConstants, F!Init PROVE IdpInv
<1>1. F!Id \in F!Hosts /\ F!Blank \in F!Fields
  BY IdpIds
<1>2. /\ route \in {"add", "detail"} /\ header = "none" /\ idp = None /\ draft = F!Blank /\ form = None
      /\ reg = F!NoRequest /\ blocked = None
  BY DEF F!Init
<1>3. job = [k \in F!Kinds |-> IF k = "open" /\ route = "detail" THEN [F!Idle EXCEPT !.step = "load"] ELSE F!Idle]
  BY DEF F!Init
<1>4. PICK e \in F!Entry :
        /\ e.keys = F!Id
        /\ stored = [h \in F!Hosts |-> IF h = F!Id THEN e ELSE None]
             \/ (route = "add" /\ stored = [h \in F!Hosts |-> None])
  BY DEF F!Init
<1>5. /\ job = [k \in F!Kinds |-> job[k]] /\ "open" \in F!Kinds
      /\ \A k \in F!Kinds :
           /\ job[k].step \in {"none", "load"} /\ (job[k].step = "load" => k = "open" /\ route = "detail")
           /\ k = "open" /\ route = "detail" => job[k].step = "load"
  BY <1>3 DEF F!Idle, F!Kinds
<1>6. IdpTypes /\ IdpKeys
  BY <1>1, <1>2, <1>4 DEF IdpTypes, IdpKeys, IdpConstants
<1>7. IdpWorld /\ IdpReg
  BY <1>2, <1>5 DEF IdpWorld, Registering, Looking, IdpReg, F!NoRequest, F!submitting
<1>8. IdpAsks
  BY <1>2 DEF IdpAsks, F!submitting, F!NoRequest
<1>9. IdpJobs
  BY <1>2, <1>5 DEF IdpJobs, F!Kinds
<1>10. IdpHeader
  BY <1>2, <1>5 DEF IdpHeader, F!HeaderFollowsTheMode, F!Busy
<1>11. OneWrites /\ IdpShown
  BY <1>1, <1>2, <1>4, <1>5 DEF OneWrites, IdpShown, F!Busy, F!Kinds, IdpConstants
<1> QED
  BY <1>6, <1>7, <1>8, <1>9, <1>10, <1>11 DEF IdpInv

LEMMA IdpKept ==
  /\ IdpTypes /\ UNCHANGED <<route, header, stored, idp, draft, form>> => IdpTypes'
  /\ IdpKeys /\ UNCHANGED stored => IdpKeys'
  /\ IdpReg /\ UNCHANGED <<reg, pending, blocked, stored>> => IdpReg'
  /\ IdpAsks /\ UNCHANGED <<confirm, reg>> => IdpAsks'
  /\ IdpJobs /\ UNCHANGED <<job, idp>> => IdpJobs'
  /\ IdpHeader /\ UNCHANGED <<route, header, idp, editing, job>> => IdpHeader'
  /\ OneWrites /\ UNCHANGED <<alone, job>> => OneWrites'
  /\ IdpShown /\ UNCHANGED <<route, stored, idp, job, alone>> => IdpShown'
<1>1. IdpTypes /\ UNCHANGED <<route, header, stored, idp, draft, form>> => IdpTypes'
  BY DEF IdpTypes
<1>2. IdpKeys /\ UNCHANGED stored => IdpKeys'
  BY DEF IdpKeys
<1>3. IdpReg /\ UNCHANGED <<reg, pending, blocked, stored>> => IdpReg'
  BY DEF IdpReg, F!submitting, HasEntry, IsRequest
<1>4. IdpAsks /\ UNCHANGED <<confirm, reg>> => IdpAsks'
  BY Zenon DEF IdpAsks, F!submitting
<1>5. IdpJobs /\ UNCHANGED <<job, idp>> => IdpJobs'
  BY DEF IdpJobs
<1>6. IdpHeader /\ UNCHANGED <<route, header, idp, editing, job>> => IdpHeader'
  <2> SUFFICES ASSUME IdpHeader, UNCHANGED <<route, header, idp, editing, job>> PROVE IdpHeader'
    OBVIOUS
  <2>1. header' \in {"view", "edit"} => idp' # None
    BY DEF IdpHeader
  <2>2. F!Actions(idp', editing') = F!Actions(idp, editing)
    BY Zenon
  <2>3. F!HeaderFollowsTheMode'
    BY <2>2 DEF IdpHeader, F!HeaderFollowsTheMode, F!Busy
  <2> QED
    BY <2>1, <2>3 DEF IdpHeader
<1>7. OneWrites /\ UNCHANGED <<alone, job>> => OneWrites'
  BY Zenon DEF OneWrites, F!Busy
<1>8. IdpShown /\ UNCHANGED <<route, stored, idp, job, alone>> => IdpShown'
  BY DEF IdpShown
<1> QED
  BY <1>1, <1>2, <1>3, <1>4, <1>5, <1>6, <1>7, <1>8

\* The header and the screen of one who registers are not the provider's.
LEMMA IdpApart ==
  ASSUME Registering', UNCHANGED <<idp, job>>, IdpJobs PROVE IdpHeader' /\ OneWrites' /\ IdpShown'
<1>1. \A k \in F!Kinds : job'[k].step = "none"
  BY DEF Registering
<1>2. route' # "detail" /\ header' \notin {"view", "edit"}
  BY DEF Registering
<1>3. IdpHeader'
  BY <1>2, Zenon DEF IdpHeader, F!HeaderFollowsTheMode
<1>4. OneWrites'
  BY <1>1 DEF OneWrites, F!Busy, F!Kinds
<1> QED
  BY <1>2, <1>3, <1>4 DEF IdpShown

\* What is typed and sent.
LEMMA IdpSends ==
  ASSUME IdpConstants, IdpInv, (\E f \in F!Forms : F!Fill(f)) \/ F!handleSubmit \/ F!handleJwksRetry
  PROVE  IdpInv'
<1>1. /\ UNCHANGED <<route, stored, header, idp, draft, job, editing, alone, confirm, blocked>>
      /\ route = "add" /\ ~confirm
  BY DEF F!Fill, F!handleSubmit, F!handleJwksRetry, F!Uncovered, F!node, F!detail
<1>2. Registering /\ Registering' /\ IdpWorld'
  BY <1>1 DEF IdpInv, IdpWorld, Registering, Looking
<1>3. IdpHeader' /\ OneWrites' /\ IdpShown'
  BY <1>1, <1>2, IdpApart DEF IdpInv
<1>4. IdpAsks'
  BY <1>1, Zenon DEF IdpAsks
<1>5. IdpTypes'
  <2>1. form' \in F!Forms \union {None}
    BY DEF F!Fill, F!handleSubmit, F!handleJwksRetry, IdpInv, IdpTypes
  <2> QED
    BY <1>1, <2>1 DEF IdpInv, IdpTypes
<1>6. CASE \E f \in F!Forms : F!Fill(f)
  <2>1. UNCHANGED <<reg, pending, blocked, stored>>
    BY <1>1, <1>6 DEF F!Fill
  <2> QED
    BY <1>1, <1>2, <1>3, <1>4, <1>5, <2>1, IdpKept DEF IdpInv
<1>7. CASE F!handleSubmit
  <2>1. form # None /\ pending' = [form EXCEPT !.url = F!normalizeWellKnownUrl(@)]
    BY <1>7 DEF F!handleSubmit
  <2>2. reg' = [step |-> "document", pasted |-> None, url |-> pending'.url]
    BY <1>7 DEF F!handleSubmit, F!register
  <2>3. form \in F!Forms
    BY <2>1 DEF IdpInv, IdpTypes
  <2>4. pending'.client = form.client /\ pending'.claim = form.claim /\ pending'.only = form.only
    BY <2>1, <2>3 DEF F!Forms
  <2>5. IsRequest(pending')
    BY <2>3, <2>4 DEF IsRequest, F!Forms
  <2>6. IdpReg'
    BY <1>1, <2>2, <2>5 DEF IdpReg, F!submitting, HasEntry
  <2> QED
    BY <1>1, <1>2, <1>3, <1>4, <1>5, <2>6, IdpKept DEF IdpInv
<1>8. CASE F!handleJwksRetry
  <2>1. blocked # None /\ ~F!submitting /\ UNCHANGED pending
    BY <1>8 DEF F!handleJwksRetry
  <2>2. reg' = [step |-> "document", pasted |-> blocked, url |-> pending.url]
    BY <1>8 DEF F!handleJwksRetry, F!register
  <2>3. IsRequest(pending) /\ (blocked = F!Head(pending.url) \/ HasEntry(F!Head(pending.url)))
    BY <2>1 DEF IdpInv, IdpReg
  <2>4. IdpReg'
    BY <1>1, <2>1, <2>2, <2>3 DEF IdpReg, F!submitting, HasEntry, IsRequest
  <2> QED
    BY <1>1, <1>2, <1>3, <1>4, <1>5, <2>4, IdpKept DEF IdpInv
<1> QED
  BY <1>6, <1>7, <1>8

\* What the browser may not read is asked of the operator, for the URL it was asked for.
LEMMA IdpDiscovers == ASSUME IdpConstants, IdpInv, F!discover PROVE IdpInv'
<1>1. /\ UNCHANGED <<route, stored, header, idp, draft, job, editing, alone, confirm, form, pending>>
      /\ reg.step \in {"document", "keys"}
  BY DEF F!discover, F!node, F!detail
<1>2. F!submitting
  BY <1>1 DEF F!submitting
<1>3. Registering /\ Registering' /\ IdpWorld'
  BY <1>1 DEF IdpInv, IdpWorld, Registering, Looking
<1>4. IdpHeader' /\ OneWrites' /\ IdpShown'
  BY <1>1, <1>3, IdpApart DEF IdpInv
<1>5. IdpAsks'
  BY <1>1, <1>2, Zenon DEF IdpAsks, IdpInv
<1> DEFINE h == F!Head(reg.url)
<1>6. \/ /\ reg.step = "document" /\ reg' = [reg EXCEPT !.step = IF reg.pasted = None THEN "keys" ELSE "config"]
         /\ UNCHANGED blocked
      \/ reg.step = "keys" /\ reg' = [reg EXCEPT !.step = "config", !.pasted = h] /\ UNCHANGED blocked
      \/ reg' = F!NoRequest /\ blocked' \in {None, h}
  BY DEF F!discover, F!Refused
<1>7. IsRequest(pending) /\ h = F!Head(pending.url) /\ reg.url = pending.url
  BY <1>2 DEF IdpInv, IdpReg
<1>8. reg = [step |-> reg.step, pasted |-> reg.pasted, url |-> reg.url]
  BY DEF IdpInv, IdpReg
<1> HIDE DEF h
<1>9. IdpReg'
  <2>1. CASE reg.step = "document" /\ reg' = [reg EXCEPT !.step = IF reg.pasted = None THEN "keys" ELSE "config"]
             /\ UNCHANGED blocked
    <3>1. reg' = [step |-> reg'.step, pasted |-> reg.pasted, url |-> reg.url]
          /\ reg'.step = IF reg.pasted = None THEN "keys" ELSE "config"
      BY <1>8, <2>1
    <3>2. reg.pasted = None \/ reg.pasted = F!Head(reg.url) \/ HasEntry(F!Head(reg.url))
      BY <2>1 DEF IdpInv, IdpReg
    <3> QED
      BY <1>1, <1>7, <2>1, <3>1, <3>2 DEF IdpReg, F!submitting, HasEntry, IsRequest
  <2>2. CASE reg.step = "keys" /\ reg' = [reg EXCEPT !.step = "config", !.pasted = h] /\ UNCHANGED blocked
    <3>1. reg' = [step |-> "config", pasted |-> h, url |-> reg.url]
      BY <1>8, <2>2
    <3> QED
      BY <1>1, <1>7, <2>2, <3>1 DEF IdpReg, F!submitting, HasEntry, IsRequest, h
  <2>3. CASE reg' = F!NoRequest /\ blocked' \in {None, h}
    BY <1>1, <1>7, <2>3 DEF IdpReg, F!submitting, HasEntry, IsRequest, F!NoRequest, h
  <2> QED
    BY <1>6, <2>1, <2>2, <2>3
<1> QED
  BY <1>1, <1>3, <1>4, <1>5, <1>9, IdpKept DEF IdpInv

\* The entry is written where there was none, with the keys of its URL.
LEMMA IdpCreates == ASSUME IdpConstants, IdpInv, F!createIdp PROVE IdpInv'
<1>1. /\ UNCHANGED <<route, header, idp, draft, job, editing, alone, confirm, form, pending>>
      /\ reg.step \in {"config", "write"}
  BY DEF F!createIdp, F!detail
<1>2. F!submitting
  BY <1>1 DEF F!submitting
<1>3. Registering /\ Registering' /\ IdpWorld'
  BY <1>1 DEF IdpInv, IdpWorld, Registering, Looking
<1>4. IdpHeader' /\ OneWrites' /\ IdpShown'
  BY <1>1, <1>3, IdpApart DEF IdpInv
<1>5. IdpAsks'
  BY <1>1, <1>2, Zenon DEF IdpAsks, IdpInv
<1> DEFINE h == F!Head(reg.url)
           entry == [client |-> pending.client, claim |-> IF pending.claim = "" THEN F!Default ELSE pending.claim,
                     only |-> pending.only, keys |-> reg.pasted]
<1>6. \/ reg.step = "config" /\ stored[h] = None /\ reg' = [reg EXCEPT !.step = "write"] /\ UNCHANGED <<stored, blocked>>
      \/ reg' = F!NoRequest /\ blocked' = None /\ UNCHANGED stored
      \/ /\ reg.step = "write" /\ stored' = [stored EXCEPT ![h] = entry]
         /\ reg' = [reg EXCEPT !.step = "apply"] /\ UNCHANGED blocked
  BY DEF F!createIdp, F!Refused
<1>7. IsRequest(pending) /\ h = F!Head(pending.url) /\ reg.url = pending.url
  BY <1>2 DEF IdpInv, IdpReg
<1>8. reg = [step |-> reg.step, pasted |-> reg.pasted, url |-> reg.url]
  BY DEF IdpInv, IdpReg
<1>9. entry.keys = reg.pasted /\ (reg.pasted \in F!Hosts => entry \in F!Entry)
  BY <1>7, IdpIds DEF IsRequest, F!Entry
<1>10. stored \in [F!Hosts -> F!Entry \union {None}]
  BY DEF IdpInv, IdpTypes
<1> HIDE DEF h, entry
<1>11. CASE reg.step = "config" /\ stored[h] = None /\ reg' = [reg EXCEPT !.step = "write"] /\ UNCHANGED <<stored, blocked>>
  <2>1. reg' = [step |-> "write", pasted |-> reg.pasted, url |-> reg.url]
    BY <1>8, <1>11
  <2>2. reg.pasted = h \/ h \notin F!Hosts
    BY <1>11 DEF IdpInv, IdpReg, HasEntry, h
  <2>3. IdpReg'
    BY <1>1, <1>7, <1>11, <2>1, <2>2 DEF IdpReg, F!submitting, HasEntry, IsRequest, h
  <2>4. IdpTypes' /\ IdpKeys'
    BY <1>1, <1>11, IdpKept DEF IdpInv
  <2> QED
    BY <1>1, <1>3, <1>4, <1>5, <2>3, <2>4, IdpKept DEF IdpInv
<1>12. CASE reg' = F!NoRequest /\ blocked' = None /\ UNCHANGED stored
  <2>1. IdpReg'
    BY <1>12 DEF IdpReg, F!submitting, F!NoRequest
  <2>2. IdpTypes' /\ IdpKeys'
    BY <1>1, <1>12, IdpKept DEF IdpInv
  <2> QED
    BY <1>1, <1>3, <1>4, <1>5, <2>1, <2>2, IdpKept DEF IdpInv
<1>13. CASE /\ reg.step = "write" /\ stored' = [stored EXCEPT ![h] = entry]
            /\ reg' = [reg EXCEPT !.step = "apply"] /\ UNCHANGED blocked
  <2>1. reg' = [step |-> "apply", pasted |-> reg.pasted, url |-> reg.url]
    BY <1>8, <1>13
  <2>2. reg.pasted = h \/ h \notin F!Hosts
    BY <1>13 DEF IdpInv, IdpReg, h
  <2>3. stored' \in [F!Hosts -> F!Entry \union {None}] /\ IdpKeys'
    <3>1. CASE h \notin F!Hosts
      <4>1. stored' = stored
        BY <1>10, <1>13, <3>1
      <4> QED
        BY <1>10, <4>1 DEF IdpInv, IdpKeys
    <3>2. CASE h \in F!Hosts
      <4>1. entry \in F!Entry /\ entry.keys = h
        BY <1>9, <2>2, <3>2
      <4> QED
        BY <1>10, <1>13, <3>2, <4>1 DEF IdpInv, IdpKeys
    <3> QED
      BY <3>1, <3>2
  <2>4. HasEntry(h)'
    <3>1. ASSUME h \in F!Hosts PROVE stored'[h] # None
      <4>1. entry # None
        BY <1>9, <2>2, <3>1 DEF IdpConstants
      <4> QED
        BY <1>10, <1>13, <3>1, <4>1
    <3>2. h' = h
      BY <1>13, <2>1 DEF h
    <3> QED
      BY <3>1, <3>2 DEF HasEntry
  <2>5. IdpTypes'
    BY <1>1, <2>3 DEF IdpInv, IdpTypes
  <2>6. IdpReg'
    BY <1>1, <1>7, <1>13, <2>1, <2>4 DEF IdpReg, F!submitting, IsRequest, h
  <2> QED
    BY <1>1, <1>3, <1>4, <1>5, <2>3, <2>5, <2>6, IdpKept DEF IdpInv
<1> QED
  BY <1>6, <1>11, <1>12, <1>13

\* The configuration is applied, and the restart asked about and done.
LEMMA IdpRestarts ==
  ASSUME IdpConstants, IdpInv, F!askRestart \/ F!declineRestart \/ F!runRestartConfirm PROVE IdpInv'
<1>1. UNCHANGED <<stored, idp, draft, job, editing, alone, form, pending, blocked>>
  BY DEF F!askRestart, F!declineRestart, F!runRestartConfirm, F!node, F!detail
<1>2. UNCHANGED <<route, header>> \/ (route' = "list" /\ header' = "theirs")
  BY DEF F!askRestart, F!declineRestart, F!runRestartConfirm, F!ToTheList
<1>3. Registering
  BY DEF IdpInv, IdpWorld, Registering, Looking, F!askRestart, F!declineRestart, F!runRestartConfirm
<1>4. Registering' /\ IdpWorld'
  BY <1>1, <1>2, <1>3 DEF IdpWorld, Registering
<1>5. IdpHeader' /\ OneWrites' /\ IdpShown'
  BY <1>1, <1>4, IdpApart DEF IdpInv
<1>6. IdpTypes'
  BY <1>1, <1>2 DEF IdpInv, IdpTypes
<1>7. \/ reg.step \in {"apply", "restart"} /\ reg' = F!NoRequest
      \/ UNCHANGED reg /\ ~confirm'
      \/ confirm /\ reg' = [reg EXCEPT !.step = "restart"]
  BY Zenon DEF F!askRestart, F!declineRestart, F!runRestartConfirm
<1>8. IdpReg' /\ IdpAsks'
  <2>1. CASE reg.step \in {"apply", "restart"} /\ reg' = F!NoRequest
    <3>1. ~F!submitting'
      BY <2>1 DEF F!submitting, F!NoRequest
    <3>2. IdpAsks'
      BY <3>1, Zenon DEF IdpAsks
    <3>3. blocked # None => IsRequest(pending) /\ (blocked = F!Head(pending.url) \/ HasEntry(F!Head(pending.url)))
      BY <2>1 DEF IdpInv, IdpReg, F!submitting
    <3> QED
      BY <1>1, <2>1, <3>1, <3>2, <3>3 DEF IdpReg, F!submitting, F!NoRequest, HasEntry, IsRequest
  <2>2. CASE UNCHANGED reg /\ ~confirm'
    <3>1. IdpAsks'
      BY <2>2, Zenon DEF IdpAsks
    <3> QED
      BY <1>1, <2>2, <3>1, IdpKept DEF IdpInv
  <2>3. CASE confirm /\ reg' = [reg EXCEPT !.step = "restart"]
    <3>1. ~F!submitting
      BY <2>3, Zenon DEF IdpInv, IdpAsks
    <3>2. reg' = [step |-> "restart", pasted |-> reg.pasted, url |-> reg.url]
      BY <2>3 DEF IdpInv, IdpReg
    <3>3. ~F!submitting'
      BY <3>2 DEF F!submitting
    <3>4. IdpAsks'
      BY <3>3, Zenon DEF IdpAsks
    <3> QED
      BY <1>1, <3>1, <3>2, <3>3, <3>4 DEF IdpInv, IdpReg, F!submitting, HasEntry, IsRequest
  <2> QED
    BY <1>7, <2>1, <2>2, <2>3
<1> QED
  BY <1>1, <1>4, <1>5, <1>6, <1>8, IdpKept DEF IdpInv

\* Where the provider is looked at nothing is registered.
LEMMA IdpLooks ==
  ASSUME IdpInv, Looking, UNCHANGED <<form, pending, reg, blocked, confirm>>, route' \in {route, "list"}
  PROVE  IdpWorld' /\ IdpReg' /\ IdpAsks'
<1>1. Looking'
  BY DEF Looking
<1>2. ~F!submitting'
  BY DEF Looking, F!submitting
<1>3. IdpAsks'
  BY <1>2, Zenon DEF IdpAsks
<1>4. IdpReg'
  BY <1>2 DEF Looking, IdpInv, IdpReg, F!submitting
<1> QED
  BY <1>1, <1>3, <1>4 DEF IdpWorld

\* One request goes on: what the parts about requests need of its next step.
LEMMA IdpMoves ==
  ASSUME IdpInv, NEW k \in F!Kinds, NEW r, job' = [job EXCEPT ![k] = r], idp' = idp \/ idp' # None,
         k = "save" /\ r.step = "read" => r.entry \in F!Fields,
         r.step = "write" => k \in {"save", "refresh"} /\ r.entry \in F!Entry /\ r.entry.keys = F!Id,
         r.step = "landing" => r.entry \in F!Entry \union {None},
         r.step \in {"load", "landing"} => k \in {"open", "save", "refresh"},
         k # "open" /\ r.step # "none" => idp # None,
         (k = "open" /\ r.step = "none") \/ (UNCHANGED idp /\ k # "open")
           \/ (k # "open" /\ job["open"].step = "none") \/ (idp = None /\ UNCHANGED idp)
  PROVE  IdpJobs' /\ job'[k] = r /\ \A j \in F!Kinds \ {k} : job'[j] = job[j]
<1>1. job = [j \in F!Kinds |-> job[j]]
  BY DEF IdpInv, IdpJobs
<1>2. job'[k] = r /\ job' = [j \in F!Kinds |-> job'[j]] /\ \A j \in F!Kinds \ {k} : job'[j] = job[j]
  BY <1>1
<1>3. "save" \in F!Kinds /\ "open" \in F!Kinds
  BY DEF F!Kinds
<1>4. idp # None => idp' # None
  OBVIOUS
<1>5. job'["save"].step = "read" => job'["save"].entry \in F!Fields
  BY <1>2, <1>3 DEF IdpInv, IdpJobs
<1>6. idp' # None => job'["open"].step = "none"
  BY <1>2, <1>3 DEF IdpInv, IdpJobs
<1>7. \A j \in F!Kinds :
        /\ job'[j].step = "write" =>
             j \in {"save", "refresh"} /\ job'[j].entry \in F!Entry /\ job'[j].entry.keys = F!Id
        /\ job'[j].step = "landing" => job'[j].entry \in F!Entry \union {None}
        /\ job'[j].step \in {"load", "landing"} => j \in {"open", "save", "refresh"}
        /\ j # "open" /\ job'[j].step # "none" => idp' # None
  BY <1>2, <1>4 DEF IdpInv, IdpJobs
<1> QED
  BY <1>2, <1>5, <1>6, <1>7 DEF IdpJobs

\* Editing: the mode and the header change together.
LEMMA IdpEdits ==
  ASSUME IdpConstants, IdpInv, F!startEdit \/ F!cancelEdit \/ \E d \in F!Fields : F!TypeDraft(d)
  PROVE  IdpInv'
<1>1. UNCHANGED <<route, stored, idp, job, alone, form, pending, reg, blocked, confirm>>
  BY DEF F!startEdit, F!cancelEdit, F!TypeDraft, F!node, F!adding
<1>2. Looking
  BY DEF F!startEdit, F!cancelEdit, F!TypeDraft, IdpInv, IdpWorld, Registering
<1>3. draft' \in F!Fields
  <2>1. CASE F!startEdit
    <3>1. idp \in F!Entry /\ draft' = [client |-> idp.client, claim |-> idp.claim, only |-> idp.only]
      BY <2>1 DEF F!startEdit, IdpInv, IdpTypes
    <3> QED
      BY <3>1 DEF F!Fields, F!Entry
  <2>2. CASE F!cancelEdit
    BY <2>2 DEF F!cancelEdit, IdpInv, IdpTypes
  <2>3. CASE \E d \in F!Fields : F!TypeDraft(d)
    BY <2>3 DEF F!TypeDraft
  <2> QED
    BY <2>1, <2>2, <2>3
<1>4. header' \in {header, "view", "edit"}
  BY DEF F!startEdit, F!cancelEdit, F!TypeDraft
<1>5. IdpTypes'
  BY <1>1, <1>3, <1>4 DEF IdpInv, IdpTypes
<1>6. IdpHeader'
  <2>1. CASE F!startEdit
    <3>1. idp' # None /\ editing' = TRUE /\ header' = "edit"
      BY <1>1, <2>1 DEF F!startEdit
    <3>2. F!Actions(idp', TRUE) = "edit"
      BY <3>1 DEF F!Actions
    <3> QED
      BY <3>1, <3>2 DEF IdpHeader, F!HeaderFollowsTheMode
  <2>2. CASE F!cancelEdit
    <3>1. idp' # None /\ editing' = FALSE /\ header' = "view"
      BY <1>1, <2>2 DEF F!cancelEdit, IdpInv, IdpHeader
    <3>2. F!Actions(idp', FALSE) = "view"
      BY <3>1 DEF F!Actions
    <3> QED
      BY <3>1, <3>2 DEF IdpHeader, F!HeaderFollowsTheMode
  <2>3. CASE \E d \in F!Fields : F!TypeDraft(d)
    <3>1. UNCHANGED <<header, editing>>
      BY <2>3 DEF F!TypeDraft
    <3> QED
      BY <1>1, <3>1, IdpKept DEF IdpInv
  <2> QED
    BY <2>1, <2>2, <2>3
<1> QED
  BY <1>1, <1>2, <1>5, <1>6, IdpLooks, IdpKept DEF IdpInv

\* A request that is begun, of a provider that is there.
LEMMA IdpBegins ==
  ASSUME IdpConstants, IdpInv, F!saveEdit \/ \E k \in F!Kinds : F!Press(k) PROVE IdpInv'
<1>1. UNCHANGED <<route, stored, header, idp, draft, editing, form, pending, reg, blocked, confirm>>
  BY DEF F!saveEdit, F!Press, F!node, F!adding
<1>2. header \in {"view", "edit"}
  BY DEF F!saveEdit, F!Press
<1>3. Looking /\ idp # None
  BY <1>2 DEF IdpInv, IdpWorld, Registering, IdpHeader
<1>11. \E k \in F!Kinds : \E r :
        /\ k # "open" /\ job' = [job EXCEPT ![k] = r] /\ r.step = "read" /\ (k = "save" => r.entry \in F!Fields)
        /\ job[k].step = "none"
        /\ (k \in {"save", "refresh"} => F!Overlaps) /\ (k \notin {"save", "refresh"} => UNCHANGED alone)
        /\ (k = "save" => header = "edit") /\ (k # "save" => header = "view")
  <2>1. CASE F!saveEdit
    <3> DEFINE r == [step |-> "read", entry |-> draft]
    <3>1. job' = [job EXCEPT !["save"] = r] /\ header = "edit" /\ F!Overlaps /\ ~F!Busy("save")
      BY <2>1 DEF F!saveEdit
    <3>2. r.step = "read" /\ r.entry \in F!Fields /\ "save" \in F!Kinds /\ job["save"].step = "none"
      BY <3>1 DEF IdpInv, IdpTypes, F!Kinds, F!Busy
    <3> HIDE DEF r
    <3> QED
      BY <3>1, <3>2
  <2>2. ASSUME NEW k \in F!Kinds, F!Press(k)
        PROVE  \E q \in F!Kinds : \E r :
                 /\ q # "open" /\ job' = [job EXCEPT ![q] = r] /\ r.step = "read"
                 /\ (q = "save" => r.entry \in F!Fields) /\ job[q].step = "none"
                 /\ (q \in {"save", "refresh"} => F!Overlaps) /\ (q \notin {"save", "refresh"} => UNCHANGED alone)
                 /\ (q = "save" => header = "edit") /\ (q # "save" => header = "view")
    <3> DEFINE r == [step |-> "read", entry |-> None]
    <3>1. /\ k \in {"refresh", "apply", "restart", "delete"} /\ job' = [job EXCEPT ![k] = r] /\ header = "view"
          /\ (k = "refresh" => F!Overlaps) /\ (k # "refresh" => UNCHANGED alone) /\ job[k].step = "none"
      BY <2>2 DEF F!Press, F!Begin, F!Busy
    <3>2. r.step = "read"
      OBVIOUS
    <3> HIDE DEF r
    <3> QED
      BY <3>1, <3>2
  <2> QED
    BY <2>1, <2>2
<1>12. PICK k \in F!Kinds : \E r :
        /\ k # "open" /\ job' = [job EXCEPT ![k] = r] /\ r.step = "read" /\ (k = "save" => r.entry \in F!Fields)
        /\ job[k].step = "none"
        /\ (k \in {"save", "refresh"} => F!Overlaps) /\ (k \notin {"save", "refresh"} => UNCHANGED alone)
        /\ (k = "save" => header = "edit") /\ (k # "save" => header = "view")
  BY <1>11
<1>4. PICK r :
        /\ k # "open" /\ job' = [job EXCEPT ![k] = r] /\ r.step = "read" /\ (k = "save" => r.entry \in F!Fields)
        /\ job[k].step = "none"
        /\ (k \in {"save", "refresh"} => F!Overlaps) /\ (k \notin {"save", "refresh"} => UNCHANGED alone)
        /\ (k = "save" => header = "edit") /\ (k # "save" => header = "view")
  BY <1>12
<1>5. IdpJobs' /\ job'[k] = r /\ \A j \in F!Kinds \ {k} : job'[j] = job[j]
  BY <1>1, <1>3, <1>4, IdpMoves DEF IdpInv, IdpJobs
<1>6. IdpHeader'
  <2>1. header' \in {"view", "edit"} => idp' # None
    BY <1>1, <1>3
  <2>2. CASE k = "save"
    BY <1>4, <1>5, <2>1, <2>2 DEF IdpHeader, F!HeaderFollowsTheMode, F!Busy
  <2>3. CASE k # "save"
    <3>1. ~F!Busy("open")' /\ ~F!Busy("save")' => ~F!Busy("open") /\ ~F!Busy("save")
      BY <1>4, <1>5, <2>3 DEF F!Busy, F!Kinds
    <3>2. F!Actions(idp', editing') = F!Actions(idp, editing)
      BY <1>1, Zenon
    <3> QED
      BY <1>1, <2>1, <3>1, <3>2 DEF IdpInv, IdpHeader, F!HeaderFollowsTheMode
  <2> QED
    BY <2>2, <2>3
<1>7. alone' = TRUE => alone = TRUE
  BY <1>4, Zenon DEF F!Overlaps
<1>8. OneWrites'
  <2>1. CASE k \in {"save", "refresh"}
    <3>1. alone' = TRUE => ~F!Busy("save") /\ ~F!Busy("refresh")
      BY <1>4, <2>1, Zenon DEF F!Overlaps
    <3> QED
      BY <1>5, <2>1, <3>1 DEF OneWrites, F!Busy, F!Kinds
  <2>2. CASE k \notin {"save", "refresh"}
    BY <1>5, <1>7, <2>2 DEF IdpInv, OneWrites, F!Busy, F!Kinds
  <2> QED
    BY <2>1, <2>2
<1>9. IdpShown'
  BY <1>1, <1>4, <1>5, <1>7 DEF IdpInv, IdpShown, F!Kinds
<1>10. IdpTypes' /\ IdpKeys'
  BY <1>1, IdpKept DEF IdpInv
<1> QED
  BY <1>1, <1>3, <1>5, <1>6, <1>8, <1>9, <1>10, IdpLooks DEF IdpInv

\* What a save or a refresh has read, and what it writes.
LEMMA IdpReads == ASSUME IdpConstants, IdpInv, NEW k \in F!Kinds, F!Read(k) PROVE IdpInv'
<1>1. UNCHANGED <<route, stored, header, idp, draft, editing, alone, form, pending, reg, blocked, confirm>>
  BY DEF F!Read, F!node, F!adding
<1>2. k \in {"save", "refresh"} /\ job[k].step = "read" /\ stored[F!Id] # None
  BY DEF F!Read
<1>3. Looking
  BY <1>2 DEF IdpInv, IdpWorld, Registering
<1>4. F!Id \in F!Hosts
  BY IdpIds
<1>5. stored[F!Id] \in F!Entry /\ stored[F!Id].keys = F!Id
  BY <1>2, <1>4 DEF IdpInv, IdpTypes, IdpKeys
<1> DEFINE r == [step |-> "write", entry |-> F!Merged(k)]
<1>6. F!Merged(k) \in F!Entry /\ F!Merged(k).keys = F!Id
  <2>1. CASE k = "refresh"
    BY <1>5, <2>1 DEF F!Merged
  <2>2. CASE k # "refresh"
    <3>1. job.save.entry \in F!Fields
      BY <1>2, <2>2 DEF IdpInv, IdpJobs
    <3>2. F!Merged(k) = [stored[F!Id] EXCEPT !.client = job.save.entry.client,
                           !.claim = IF job.save.entry.claim = "" THEN @ ELSE job.save.entry.claim,
                           !.only = job.save.entry.only]
      BY <2>2 DEF F!Merged
    <3> QED
      BY <1>5, <3>1, <3>2 DEF F!Entry, F!Fields
  <2> QED
    BY <2>1, <2>2
<1>7. r.step = "write" /\ r.entry = F!Merged(k) /\ job' = [job EXCEPT ![k] = r]
  BY DEF F!Read
<1> HIDE DEF r
<1>8. idp # None /\ job["open"].step = "none"
  BY <1>2 DEF IdpInv, IdpJobs
<1>9. IdpJobs' /\ job'[k] = r /\ \A j \in F!Kinds \ {k} : job'[j] = job[j]
  BY <1>1, <1>2, <1>6, <1>7, <1>8, IdpMoves
<1>10. \A j \in F!Kinds : F!Busy(j)' <=> F!Busy(j)
  BY <1>2, <1>7, <1>9 DEF F!Busy
<1>11. "open" \in F!Kinds /\ "save" \in F!Kinds /\ "refresh" \in F!Kinds
  BY DEF F!Kinds
<1>12. IdpHeader'
  <2>1. header' \in {"view", "edit"} => idp' # None
    BY <1>1 DEF IdpInv, IdpHeader
  <2>2. F!Actions(idp', editing') = F!Actions(idp, editing)
    BY <1>1, Zenon
  <2> QED
    BY <1>1, <1>10, <1>11, <2>1, <2>2 DEF IdpInv, IdpHeader, F!HeaderFollowsTheMode
<1>13. OneWrites'
  BY <1>1, <1>10, <1>11, Zenon DEF IdpInv, OneWrites
<1>14. IdpShown'
  BY <1>1, <1>2, <1>7, <1>9 DEF IdpInv, IdpShown, F!Kinds
<1>15. IdpTypes' /\ IdpKeys'
  BY <1>1, IdpKept DEF IdpInv
<1> QED
  BY <1>1, <1>3, <1>9, <1>12, <1>13, <1>14, <1>15, IdpLooks DEF IdpInv

LEMMA IdpWrites == ASSUME IdpConstants, IdpInv, NEW k \in F!Kinds, F!Write(k) PROVE IdpInv'
<1>1. UNCHANGED <<route, header, idp, draft, alone, form, pending, reg, blocked, confirm>>
  BY DEF F!Write, F!adding
<1>2. job[k].step = "write" /\ stored' = [stored EXCEPT ![F!Id] = job[k].entry]
  BY DEF F!Write
<1>3. Looking
  BY <1>2 DEF IdpInv, IdpWorld, Registering
<1>4. F!Id \in F!Hosts
  BY IdpIds
<1>5. k \in {"save", "refresh"} /\ job[k].entry \in F!Entry /\ job[k].entry.keys = F!Id
  BY <1>2 DEF IdpInv, IdpJobs
<1>6. stored'[F!Id] = job[k].entry /\ stored'[F!Id] # None
  BY <1>2, <1>4, <1>5 DEF IdpInv, IdpTypes, IdpConstants
<1> DEFINE r == [step |-> "load", entry |-> None]
<1>7. r.step = "load" /\ job' = [job EXCEPT ![k] = r]
  BY DEF F!Write
<1> HIDE DEF r
<1>8. idp # None /\ job["open"].step = "none"
  BY <1>2, <1>5 DEF IdpInv, IdpJobs
<1>9. IdpJobs' /\ job'[k] = r /\ \A j \in F!Kinds \ {k} : job'[j] = job[j]
  BY <1>1, <1>5, <1>7, <1>8, IdpMoves
<1>10. \A j \in F!Kinds : F!Busy(j)' <=> F!Busy(j)
  BY <1>2, <1>7, <1>9 DEF F!Busy
<1>11. "open" \in F!Kinds /\ "save" \in F!Kinds /\ "refresh" \in F!Kinds
  BY DEF F!Kinds
<1>12. IdpHeader'
  <2>1. header' \in {"view", "edit"} => idp' # None
    BY <1>1 DEF IdpInv, IdpHeader
  <2>2. CASE k = "save"
    <3>1. F!Busy("save")'
      BY <1>2, <1>10, <1>11, <2>2 DEF F!Busy
    <3> QED
      BY <2>1, <3>1 DEF IdpHeader, F!HeaderFollowsTheMode
  <2>3. CASE k # "save"
    <3>1. editing' = editing
      BY <2>3 DEF F!Write
    <3>2. F!Actions(idp', editing') = F!Actions(idp, editing)
      BY <1>1, <3>1, Zenon
    <3> QED
      BY <1>1, <1>10, <1>11, <2>1, <3>2 DEF IdpInv, IdpHeader, F!HeaderFollowsTheMode
  <2> QED
    BY <2>2, <2>3
<1>13. OneWrites'
  BY <1>1, <1>10, <1>11, Zenon DEF IdpInv, OneWrites
<1>14. IdpShown'
  <2>1. ASSUME alone = TRUE, NEW j \in F!Kinds PROVE job'[j].step # "landing"
    <3>1. CASE j = k
      BY <1>7, <1>9, <3>1
    <3>2. CASE j # k /\ j \in {"save", "refresh"}
      BY <1>2, <1>5, <1>9, <2>1, <3>2 DEF IdpInv, OneWrites, F!Busy
    <3>3. CASE j \notin {"save", "refresh"}
      BY <1>5, <1>8, <1>9, <3>3 DEF IdpInv, IdpJobs
    <3> QED
      BY <3>1, <3>2, <3>3
  <2> QED
    BY <1>1, <1>5, <1>6, <1>7, <1>9, <2>1 DEF IdpShown
<1>15. IdpTypes' /\ IdpKeys'
  BY <1>1, <1>2, <1>4, <1>5 DEF IdpInv, IdpTypes, IdpKeys
<1> QED
  BY <1>1, <1>3, <1>9, <1>12, <1>13, <1>14, <1>15, IdpLooks DEF IdpInv

\* A save or a refresh that failed, and a read that is answered.
LEMMA IdpErrs == ASSUME IdpConstants, IdpInv, NEW k \in F!Kinds, F!Error(k) PROVE IdpInv'
<1>1. UNCHANGED <<route, stored, idp, draft, editing, alone, form, pending, reg, blocked, confirm>>
  BY DEF F!Error, F!node, F!adding
<1>2. k \in {"save", "refresh"} /\ job[k].step \in {"read", "write"}
  BY DEF F!Error
<1>3. Looking
  BY <1>2 DEF IdpInv, IdpWorld, Registering
<1>4. job' = [job EXCEPT ![k] = F!Idle] /\ F!Idle.step = "none"
  BY DEF F!Error, F!Ended, F!Idle
<1>5. idp # None /\ job["open"].step = "none"
  BY <1>2 DEF IdpInv, IdpJobs
<1>6. IdpJobs' /\ job'[k] = F!Idle /\ \A j \in F!Kinds \ {k} : job'[j] = job[j]
  BY <1>1, <1>2, <1>4, <1>5, IdpMoves
<1>7. "open" \in F!Kinds /\ "save" \in F!Kinds /\ "refresh" \in F!Kinds
  BY DEF F!Kinds
<1>8. header' = header \/ header' \in {"back", "edit", "view"}
  BY DEF F!Error, F!updateHeaderActions, F!Actions
<1>9. IdpTypes' /\ IdpKeys'
  BY <1>1, <1>8 DEF IdpInv, IdpTypes, IdpKeys
<1>10. IdpHeader'
  <2>1. header' \in {"view", "edit"} => idp' # None
    BY <1>1, <1>5
  <2>2. CASE k = "save"
    BY <2>1, <2>2 DEF F!Error, F!updateHeaderActions, IdpHeader, F!HeaderFollowsTheMode
  <2>3. CASE k # "save"
    <3>1. header' = header
      BY <2>3 DEF F!Error
    <3>2. F!Actions(idp', editing') = F!Actions(idp, editing)
      BY <1>1, Zenon
    <3>3. (F!Busy("open")' <=> F!Busy("open")) /\ (F!Busy("save")' <=> F!Busy("save"))
      BY <1>2, <1>6, <1>7, <2>3 DEF F!Busy
    <3> QED
      BY <1>1, <2>1, <3>1, <3>2, <3>3 DEF IdpInv, IdpHeader, F!HeaderFollowsTheMode
  <2> QED
    BY <2>2, <2>3
<1>11. OneWrites'
  BY <1>1, <1>2, <1>4, <1>6, <1>7 DEF IdpInv, OneWrites, F!Busy
<1>12. IdpShown'
  BY <1>1, <1>2, <1>4, <1>6 DEF IdpInv, IdpShown, F!Kinds
<1> QED
  BY <1>1, <1>3, <1>6, <1>9, <1>10, <1>11, <1>12, IdpLooks DEF IdpInv

LEMMA IdpGets == ASSUME IdpConstants, IdpInv, NEW k \in F!Kinds, F!getIdp(k) PROVE IdpInv'
<1>1. UNCHANGED <<route, stored, header, idp, draft, editing, alone, form, pending, reg, blocked, confirm>>
  BY DEF F!getIdp, F!node, F!adding
<1>2. job[k].step = "load"
  BY DEF F!getIdp
<1>3. Looking /\ k \in {"open", "save", "refresh"}
  BY <1>2 DEF IdpInv, IdpWorld, Registering, IdpJobs
<1> DEFINE r == [step |-> "landing", entry |-> stored[F!Id]]
<1>4. r.step = "landing" /\ r.entry = stored[F!Id] /\ job' = [job EXCEPT ![k] = r]
  BY DEF F!getIdp
<1>5. r.entry \in F!Entry \union {None}
  BY IdpIds DEF IdpInv, IdpTypes
<1> HIDE DEF r
<1>6. (k # "open" => idp # None /\ job["open"].step = "none") /\ (k = "open" => idp = None)
  BY <1>2 DEF IdpInv, IdpJobs
<1>7. IdpJobs' /\ job'[k] = r /\ \A j \in F!Kinds \ {k} : job'[j] = job[j]
  BY <1>1, <1>3, <1>4, <1>5, <1>6, IdpMoves
<1>8. \A j \in F!Kinds : F!Busy(j)' <=> F!Busy(j)
  BY <1>2, <1>4, <1>7 DEF F!Busy
<1>9. "open" \in F!Kinds /\ "save" \in F!Kinds /\ "refresh" \in F!Kinds
  BY DEF F!Kinds
<1>10. IdpHeader'
  <2>1. header' \in {"view", "edit"} => idp' # None
    BY <1>1 DEF IdpInv, IdpHeader
  <2>2. F!Actions(idp', editing') = F!Actions(idp, editing)
    BY <1>1, Zenon
  <2> QED
    BY <1>1, <1>8, <1>9, <2>1, <2>2 DEF IdpInv, IdpHeader, F!HeaderFollowsTheMode
<1>11. OneWrites'
  BY <1>1, <1>8, <1>9, Zenon DEF IdpInv, OneWrites
<1>12. IdpShown'
  <2>1. \A j \in {"save", "refresh"} : job[j].step \in {"load", "landing"} => job'[j].step \in {"load", "landing"}
    BY <1>4, <1>7, <1>9
  <2> QED
    BY <1>1, <1>4, <1>7, <2>1 DEF IdpInv, IdpShown
<1>13. IdpTypes' /\ IdpKeys'
  BY <1>1, IdpKept DEF IdpInv
<1> QED
  BY <1>1, <1>3, <1>7, <1>10, <1>11, <1>12, <1>13, IdpLooks DEF IdpInv

LEMMA IdpLoads == ASSUME IdpConstants, IdpInv, NEW k \in F!Kinds, F!load(k) PROVE IdpInv'
<1>1. UNCHANGED <<route, stored, draft, editing, form, pending, reg, blocked, confirm>>
  BY DEF F!load, F!node, F!adding
<1>2. \/ job[k].step = "landing" /\ idp' = (IF job[k].entry = None THEN idp ELSE job[k].entry) /\ alone' = alone
      \/ job[k].step = "load" /\ idp' = idp /\ alone' = FALSE
  BY DEF F!load
<1>3. Looking /\ k \in {"open", "save", "refresh"}
  BY <1>2 DEF IdpInv, IdpWorld, Registering, IdpJobs
<1>4. job' = [job EXCEPT ![k] = F!Idle] /\ F!Idle.step = "none"
  BY DEF F!load, F!Ended, F!Idle
<1>5. (k # "open" => idp # None /\ job["open"].step = "none") /\ (idp' = idp \/ idp' # None)
  BY <1>2 DEF IdpInv, IdpJobs
<1>6. IdpJobs' /\ job'[k] = F!Idle /\ \A j \in F!Kinds \ {k} : job'[j] = job[j]
  BY <1>3, <1>4, <1>5, IdpMoves
<1>7. "open" \in F!Kinds /\ "save" \in F!Kinds /\ "refresh" \in F!Kinds
  BY DEF F!Kinds
<1>8. idp' \in F!Entry \union {None}
  BY <1>2 DEF IdpInv, IdpTypes, IdpJobs
<1>9. IF k = "refresh" THEN header' = header ELSE header' = F!Actions(idp', editing')
  BY DEF F!load, F!updateHeaderActions
<1>10. header' = header \/ header' \in {"back", "edit", "view"}
  BY <1>9 DEF F!Actions
<1>11. IdpTypes' /\ IdpKeys'
  BY <1>1, <1>8, <1>10 DEF IdpInv, IdpTypes, IdpKeys
<1>12. IdpHeader'
  <2>1. CASE k = "refresh"
    <3>1. idp # None /\ idp' # None /\ header' = header
      BY <1>5, <1>9, <2>1
    <3>2. F!Actions(idp', editing') = F!Actions(idp, editing)
      BY <1>1, <3>1, Zenon DEF F!Actions
    <3>3. (F!Busy("open")' <=> F!Busy("open")) /\ (F!Busy("save")' <=> F!Busy("save"))
      BY <1>6, <1>7, <2>1 DEF F!Busy
    <3> QED
      BY <1>1, <3>1, <3>2, <3>3 DEF IdpInv, IdpHeader, F!HeaderFollowsTheMode
  <2>2. CASE k # "refresh"
    <3>1. header' = F!Actions(idp', editing')
      BY <1>9, <2>2
    <3>2. header' \in {"view", "edit"} => idp' # None
      BY <3>1 DEF F!Actions
    <3> QED
      BY <3>1, <3>2 DEF IdpHeader, F!HeaderFollowsTheMode
  <2> QED
    BY <2>1, <2>2
<1>13. alone' = TRUE => alone = TRUE /\ job[k].step = "landing" /\ idp' = (IF job[k].entry = None THEN idp ELSE job[k].entry)
  BY <1>2
<1>14. OneWrites'
  BY <1>3, <1>4, <1>6, <1>7, <1>13 DEF IdpInv, OneWrites, F!Busy
<1>15. IdpShown'
  <2>1. ASSUME alone' = TRUE, route = "detail" PROVE idp' = stored[F!Id]
    BY <1>13, <2>1 DEF IdpInv, IdpShown
  <2> QED
    BY <1>1, <1>4, <1>6, <1>13, <2>1 DEF IdpInv, IdpShown
<1> QED
  BY <1>1, <1>3, <1>6, <1>11, <1>12, <1>14, <1>15, IdpLooks DEF IdpInv

\* The requests that only report, and a deletion, which goes to the list.
LEMMA IdpDone == ASSUME IdpConstants, IdpInv, NEW k \in F!Kinds, F!Done(k) PROVE IdpInv'
<1>1. UNCHANGED <<idp, draft, editing, alone, form, pending, reg, blocked, confirm>>
  BY DEF F!Done, F!adding
<1>2. k \in {"apply", "restart", "delete"} /\ job[k].step = "read"
  BY DEF F!Done
<1>3. Looking
  BY <1>2 DEF IdpInv, IdpWorld, Registering
<1>4. /\ stored' = stored \/ (k = "delete" /\ stored' = [stored EXCEPT ![F!Id] = None])
      /\ IF k = "delete" THEN route' = "list" /\ header' = "theirs" ELSE UNCHANGED <<route, header>>
  BY Zenon DEF F!Done, F!ToTheList
<1>5. job' = [job EXCEPT ![k] = F!Idle] /\ F!Idle.step = "none"
  BY DEF F!Done, F!Ended, F!Idle
<1>6. idp # None /\ job["open"].step = "none"
  BY <1>2 DEF IdpInv, IdpJobs
<1>7. IdpJobs' /\ job'[k] = F!Idle /\ \A j \in F!Kinds \ {k} : job'[j] = job[j]
  BY <1>1, <1>2, <1>5, <1>6, IdpMoves
<1>8. "open" \in F!Kinds /\ "save" \in F!Kinds /\ "refresh" \in F!Kinds
  BY DEF F!Kinds
<1>9. stored' \in [F!Hosts -> F!Entry \union {None}] /\ IdpKeys'
  BY <1>4, IdpIds DEF IdpInv, IdpTypes, IdpKeys
<1>10. IdpTypes'
  BY <1>1, <1>4, <1>9 DEF IdpInv, IdpTypes
<1>11. \A j \in {"open", "save", "refresh"} : job'[j] = job[j]
  BY <1>2, <1>7, <1>8
<1>12. IdpHeader'
  <2>1. CASE k = "delete"
    BY <1>4, <2>1 DEF IdpHeader, F!HeaderFollowsTheMode
  <2>2. CASE k # "delete"
    <3>1. F!Actions(idp', editing') = F!Actions(idp, editing)
      BY <1>1, Zenon
    <3> QED
      BY <1>1, <1>4, <1>11, <2>2, <3>1 DEF IdpInv, IdpHeader, F!HeaderFollowsTheMode, F!Busy
  <2> QED
    BY <2>1, <2>2
<1>13. OneWrites'
  BY <1>1, <1>11 DEF IdpInv, OneWrites, F!Busy
<1>14. IdpShown'
  BY <1>1, <1>4, <1>5, <1>7, <1>11 DEF IdpInv, IdpShown
<1> QED
  BY <1>1, <1>3, <1>4, <1>7, <1>9, <1>10, <1>12, <1>13, <1>14, IdpLooks DEF IdpInv

LEMMA IdpLeaves == ASSUME IdpConstants, IdpInv, F!Leave PROVE IdpInv'
<1>1. UNCHANGED <<stored, idp, draft, editing, alone, job, form, pending, reg, blocked, confirm>>
  BY DEF F!Leave, F!node, F!detail, F!adding
<1>2. route' \in {"list", "away"} /\ header' = "theirs"
  BY DEF F!Leave
<1>3. IdpWorld'
  BY <1>1, <1>2 DEF IdpInv, IdpWorld, Registering, Looking
<1>4. IdpTypes'
  BY <1>1, <1>2 DEF IdpInv, IdpTypes
<1>5. IdpHeader' /\ IdpShown'
  BY <1>2 DEF IdpHeader, F!HeaderFollowsTheMode, IdpShown
<1> QED
  BY <1>1, <1>3, <1>4, <1>5, IdpKept DEF IdpInv

LEMMA IdpStep == ASSUME IdpConstants, IdpInv, [F!Next]_(F!vars) PROVE IdpInv'
<1>1. CASE UNCHANGED F!vars
  <2>1. UNCHANGED <<route, stored, header, idp, draft, editing, alone, job, form, pending, reg, blocked, confirm>>
    BY <1>1 DEF F!vars
  <2>2. IdpWorld'
    BY <2>1 DEF IdpInv, IdpWorld, Registering, Looking
  <2> QED
    BY <2>1, <2>2, IdpKept DEF IdpInv
<1>2. CASE F!Next
  BY <1>2, IdpSends, IdpDiscovers, IdpCreates, IdpRestarts, IdpEdits, IdpBegins, IdpReads, IdpWrites,
     IdpErrs,
     IdpGets, IdpLoads, IdpDone, IdpLeaves DEF F!Next
<1> QED
  BY <1>1, <1>2

\* However the form is edited while its request runs, no provider has the keys of another; the detail screen
\* has the buttons of its mode, and at rest shows what CouchDB has (idp-add.ts, idp-detail.ts).
THEOREM IdpScreensAreHonest ==
  ASSUME IdpConstants
  PROVE  F!Spec => [](F!KeysAreTheirs /\ F!HeaderFollowsTheMode /\ F!SettledIsTheServers)
<1>1. F!Init => IdpInv
  BY IdpStarts
<1>2. IdpInv /\ [F!Next]_(F!vars) => IdpInv'
  BY IdpStep
<1>3. ASSUME IdpInv PROVE F!KeysAreTheirs /\ F!HeaderFollowsTheMode /\ F!SettledIsTheServers
  <2>1. F!KeysAreTheirs
    BY <1>3 DEF F!KeysAreTheirs, IdpInv, IdpKeys
  <2>2. F!HeaderFollowsTheMode
    BY <1>3, Zenon DEF IdpInv, IdpHeader
  <2>3. F!SettledIsTheServers
    <3> SUFFICES ASSUME route = "detail", alone, idp # None, stored[F!Id] # None, \A k \in F!Kinds : ~F!Busy(k)
                 PROVE  idp = stored[F!Id]
      BY Zenon DEF F!SettledIsTheServers
    <3>1. \A k \in {"save", "refresh"} : job[k].step = "none"
      BY DEF F!Busy, F!Kinds
    <3> QED
      BY <1>3, <3>1 DEF IdpInv, IdpShown
  <2> QED
    BY <2>1, <2>2, <2>3
<1>4. IdpInv => F!KeysAreTheirs /\ F!HeaderFollowsTheMode /\ F!SettledIsTheServers
  BY <1>3
<1> QED
  BY <1>1, <1>2, <1>4, PTL DEF F!Spec

=============================================================================
