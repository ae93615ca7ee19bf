----------------------------- MODULE DocEditor -----------------------------
(***************************************************************************)
(* The document editor and its attachments                                 *)
(* (src/src/plugins/db-mgmt/doc-editor.ts, src/src/services/attachments.ts *)
(* and saveDocument of src/src/services/db-mgmt-service.ts).               *)
(*                                                                         *)
(* The buffer is the whole document as text, its _rev and its attachment   *)
(* stubs included.  Every attachment change makes a new revision on the    *)
(* server, so the editor refuses one while the buffer differs from what    *)
(* was loaded, and reads the document again after one.  Other people       *)
(* change the document as well.                                            *)
(***************************************************************************)
EXTENDS Naturals, FiniteSets

CONSTANTS
  Names,       \* attachment names
  Bodies,      \* what a document says besides; Default is the empty one
  Default,
  None,
  MaxRevs,     \* bound: revisions of the document
  MaxTrouble   \* bound: requests that fail on their way

VARIABLES
  doc,         \* the document on the server, or None when it was deleted
  revs,        \* the revisions made so far
  screen,      \* "open" or "left"
  buffer,      \* the text in the editor
  loaded,      \* _editorValue: the text of the last load
  loadedRev,   \* _loadedRev; 0 before a load
  listed,      \* _attachments: the names in the panel
  dirty,       \* _dirty
  loading,     \* a read of the document: "none", "asked"
  op,          \* the attachment change under way; see NoOp
  dialog,      \* the name the overwrite dialog asks about, or None
  saving,      \* the text being saved, or None
  unread,      \* ghost: the read after the last attachment change failed
  trouble

vars == <<doc, revs, screen, buffer, loaded, loadedRev, listed, dirty,
          loading, op, dialog, saving, unread, trouble>>

\* A document and its text: revision, body, and per attachment the revision
\* it was stored with, 0 for none.
Text == [rev : Nat, body : Bodies, atts : [Names -> Nat]]
Bare == [rev |-> 0, body |-> Default, atts |-> [n \in Names |-> 0]]

NoOp == [kind |-> "none", name |-> None, rev |-> 0, asked |-> FALSE]

Has(t, n) == t.atts[n] # 0

TypeOK ==
  /\ doc \in Text \cup {None} /\ revs \in 1 .. MaxRevs
  /\ screen \in {"open", "left"}
  /\ buffer \in Text /\ loaded \in Text
  /\ loadedRev \in Nat /\ listed \subseteq Names /\ dirty \in BOOLEAN
  /\ loading \in {"none", "asked"}
  /\ op \in [kind : {"none", "upload", "remove", "reload"}, name : Names \cup {None},
             rev : Nat, asked : BOOLEAN]
  /\ dialog \in Names \cup {None}
  /\ saving \in Text \cup {None}
  /\ unread \in BOOLEAN /\ trouble \in 0 .. MaxTrouble

\* connectedCallback of an edit: the default body, and a read.
Init ==
  /\ \E a \in [Names -> {0, 1}] :
       doc = [rev |-> 1, body |-> Default, atts |-> a]
  /\ revs = 1 /\ screen = "open"
  /\ buffer = Bare /\ loaded = Bare /\ loadedRev = 0 /\ listed = {}
  /\ dirty = FALSE /\ loading = "asked" /\ op = NoOp /\ dialog = None
  /\ saving = None /\ unread = FALSE /\ trouble = 0

Server == <<doc, revs>>
Editor == <<buffer, loaded, loadedRev, listed, dirty>>
Open   == screen = "open"
Idle   == op.kind = "none"

Trouble == trouble < MaxTrouble /\ trouble' = trouble + 1
Fine    == trouble' = trouble

-----------------------------------------------------------------------------
(* Loading and typing.                                                     *)

\* "The buffer is now, by definition, the document again."
Cleared == FALSE

\* _loadForEdit's answer: text, stubs, revision and flag in one go, over
\* whatever was typed while it was under way.
Shows(d) ==
  /\ buffer' = d /\ loaded' = d /\ loadedRev' = d.rev
  /\ listed' = {n \in Names : Has(d, n)}
  /\ dirty' = Cleared

Loaded ==
  /\ Open /\ loading = "asked" /\ loading' = "none"
  /\ op' = NoOp
  /\ \/ /\ doc # None /\ Shows(doc) /\ unread' = FALSE /\ Fine
     \/ /\ \/ doc = None /\ Fine
           \/ Trouble
        /\ UNCHANGED Editor
        /\ unread' = (op.kind = "reload")
  /\ UNCHANGED <<screen, dialog, saving>> /\ UNCHANGED Server

\* _differsFromLoaded.
Differs(t) == t # loaded

\* The user changes the body, or brings it back; the dialogs are modal.
Type == \E b \in Bodies :
  /\ Open /\ dialog = None /\ buffer.body # b
  /\ buffer' = [buffer EXCEPT !.body = b]
  /\ dirty' = Differs([buffer EXCEPT !.body = b])
  /\ UNCHANGED <<screen, loaded, loadedRev, listed, loading, op, dialog, saving,
                 unread, trouble>>
  /\ UNCHANGED Server

-----------------------------------------------------------------------------
(* Attachments.                                                            *)

\* _attachmentBlockReason.
Blocked == dirty \/ loadedRev = 0

Begin(kind, n, asked) ==
  op' = [kind |-> kind, name |-> n, rev |-> loadedRev, asked |-> asked]

Taken(n) == n \in listed

\* _onFileChosen: a name that is taken asks first.
ChooseFile(n) ==
  /\ Open /\ Idle /\ dialog = None /\ ~Blocked
  /\ IF Taken(n) THEN dialog' = n /\ UNCHANGED op
                 ELSE Begin("upload", n, FALSE) /\ UNCHANGED dialog
  /\ UNCHANGED <<screen, loading, saving, unread, trouble>>
  /\ UNCHANGED Server /\ UNCHANGED Editor

Confirm ==
  /\ Open /\ dialog # None /\ dialog' = None
  /\ Begin("upload", dialog, TRUE)
  /\ UNCHANGED <<screen, loading, saving, unread, trouble>>
  /\ UNCHANGED Server /\ UNCHANGED Editor

Cancel ==
  /\ dialog # None /\ dialog' = None
  /\ UNCHANGED <<screen, loading, op, saving, unread, trouble>>
  /\ UNCHANGED Server /\ UNCHANGED Editor

\* _deleteAttachment, its dialog confirmed.
Remove(n) ==
  /\ Open /\ Idle /\ dialog = None /\ ~Blocked /\ n \in listed
  /\ Begin("remove", n, TRUE)
  /\ UNCHANGED <<screen, loading, dialog, saving, unread, trouble>>
  /\ UNCHANGED Server /\ UNCHANGED Editor

\* The current revision, 0 for a document that is gone.
CurrentRev == IF doc = None THEN 0 ELSE doc.rev

Writable(rev) == doc # None /\ CurrentRev = rev /\ revs < MaxRevs
New(d) == doc' = [d EXCEPT !.rev = revs + 1] /\ revs' = revs + 1

\* The PUT or DELETE of the attachment arrives: it is taken at the current
\* revision only.  The editor adopts the new one and reads again.
Changed ==
  /\ op.kind \in {"upload", "remove"}
  /\ \/ /\ Writable(op.rev) /\ (op.kind = "remove" => Has(doc, op.name))
        /\ New([doc EXCEPT !.atts[op.name] =
                  IF op.kind = "upload" THEN revs + 1 ELSE 0])
        /\ IF Open
           THEN /\ loadedRev' = revs + 1 /\ loading' = "asked"
                /\ op' = [op EXCEPT !.kind = "reload"]
           ELSE op' = NoOp /\ UNCHANGED <<loadedRev, loading>>
        /\ Fine
     \/ /\ \/ Fine /\ CurrentRev # op.rev
           \/ Trouble
        /\ op' = NoOp /\ UNCHANGED <<doc, revs, loadedRev, loading>>
  /\ UNCHANGED <<screen, buffer, loaded, listed, dirty, dialog, saving, unread>>

-----------------------------------------------------------------------------
(* Saving, leaving, and the others.                                        *)

\* _save: what the editor holds; the button is off while it saves or loads.
Save ==
  /\ Open /\ saving = None /\ loading = "none" /\ dialog = None
  /\ saving' = buffer
  /\ UNCHANGED <<screen, loading, op, dialog, unread, trouble>>
  /\ UNCHANGED Server /\ UNCHANGED Editor

\* The body as it stands in the text, its _rev included.
SentRev(t) == t.rev

\* The PUT of the document: with the current revision, or with none for a
\* document that is gone.  A save that succeeds leaves the screen.
Saved ==
  /\ saving # None /\ saving' = None
  /\ \/ /\ revs < MaxRevs
        /\ SentRev(saving) = CurrentRev
        /\ New(saving) /\ screen' = "left" /\ Fine
     \/ /\ \/ Trouble
           \/ Fine /\ SentRev(saving) # CurrentRev
        /\ UNCHANGED <<doc, revs, screen>>
  /\ UNCHANGED <<loading, op, dialog, unread>> /\ UNCHANGED Editor

Leave ==
  /\ Open /\ dialog = None /\ screen' = "left"
  /\ UNCHANGED <<loading, op, dialog, saving, unread, trouble>>
  /\ UNCHANGED Server /\ UNCHANGED Editor

Elsewhere ==
  /\ doc # None /\ revs < MaxRevs
  /\ \/ \E b \in Bodies : New([doc EXCEPT !.body = b])
     \/ \E n \in Names : New([doc EXCEPT !.atts[n] = revs + 1])
     \/ doc' = None /\ revs' = revs + 1
  /\ UNCHANGED <<screen, loading, op, dialog, saving, unread, trouble>>
  /\ UNCHANGED Editor

Next ==
  \/ Loaded \/ Type \/ Confirm \/ Cancel \/ Changed
  \/ Save \/ Saved \/ Leave \/ Elsewhere
  \/ \E n \in Names : ChooseFile(n) \/ Remove(n)

Spec == Init /\ [][Next]_vars

-----------------------------------------------------------------------------
\* Text that differs from the document it was loaded from is known to: no
\* order of typing, loading and attachment changes makes the editor take
\* unsaved work for the stored document, or the other way round.
DirtyIsTrue == dirty = (buffer # loaded)

\* A save takes nothing back that somebody else, or an upload of this very
\* screen, stored since the text was loaded: neither the body nor an
\* attachment.
SaveTakesNothingBackStep ==
  Saved /\ doc' # doc /\ doc # None => doc.rev = saving.rev /\ doc'.atts = doc.atts
SaveTakesNothingBack == [][SaveTakesNothingBackStep]_vars

\* An attachment is replaced only after the dialog asked, unless the panel
\* could not be read again after the change before.
NothingReplacedUnaskedStep ==
  Changed /\ op.kind = "upload" /\ doc' # doc /\ Has(doc, op.name)
     => op.asked \/ unread
NothingReplacedUnasked == [][NothingReplacedUnaskedStep]_vars
=============================================================================
