------------------------------- MODULE IdpForm -------------------------------
(* The two forms of an identity provider: the one that registers it (idp-add.ts), with the *)
(* box for keys the browser may not fetch and the question about the restart, and its       *)
(* detail screen (idp-detail.ts), whose header carries the buttons of the mode it is in.     *)
(* What the requests do to the configuration, key by key, is IdpConfig's; here each of        *)
(* IdpService's calls reads and then writes, and an answer may come when the user is gone.     *)
EXTENDS Naturals, Sequences, FiniteSets, SequencesExt

CONSTANTS
  Texts,         \* what is typed for a .well-known URL: sequences that begin with a host
  Reaches,       \* what of each host the browser may read: "all", "document" (no keys), "nothing"
  Clients,       \* client ids, and None
  Claims,        \* names of roles claims
  None,
  MaxEdits,      \* bound: forms filled in, drafts typed
  MaxSends,      \* bound: requests begun by hand
  MaxTrouble     \* bound: requests that fail

VARIABLES
  route,         \* "add", "detail", "list", or "away", some other screen
  reach, stored, \* the identity providers' hosts, and the registered providers, by host
  applied, live, \* the node is configured for JWTs, and was restarted since
  header,        \* whose buttons the header has: "none", "back", "view", "edit", or "theirs"
  idp, loading, editing, draft,   \* the detail screen
  job,           \* its requests, one of a kind: [step, entry]
  form, pending, reg,             \* the registration: what is typed, pendingRequest, its request
  error, blocked, confirm,        \* error, jwksBlockedUrl, restartConfirm
  alone,         \* history: no save overlapped a refresh
  edits, sent, trouble

vars == <<route, reach, stored, applied, live, header, idp, loading, editing, draft, job, form,
          pending, reg, error, blocked, confirm, alone, edits, sent, trouble>>
detail == <<idp, loading, editing, draft, job, alone>>
adding == <<form, pending, reg, error, blocked, confirm>>
node == <<reach, stored, applied, live>>

Hosts == {Head(t) : t \in Texts}
Fields == [client : Clients, claim : Claims \union {""}, only : BOOLEAN]
Entry == [client : Clients, claim : Claims, only : BOOLEAN, keys : Hosts]
Forms == [client : Clients, claim : Claims \union {""}, only : BOOLEAN, url : Texts]
Kinds == {"open", "save", "refresh", "apply", "restart", "delete"}
Idle == [step |-> "none", entry |-> None]
Busy(k) == job[k].step # "none"
NoRequest == [step |-> "none", pasted |-> None, url |-> None]
submitting == reg.step \notin {"none", "restart"}
Default == CHOOSE c \in Claims : TRUE

TypeOK ==
  /\ route \in {"add", "detail", "list", "away"}
  /\ \A h \in Hosts : stored[h] = None \/ stored[h] \in Entry
  /\ applied \in BOOLEAN /\ live \in BOOLEAN /\ header \in {"none", "back", "view", "edit", "theirs"}
  /\ idp = None \/ idp \in Entry
  /\ loading \in BOOLEAN /\ editing \in BOOLEAN /\ draft \in Fields
  /\ \A k \in Kinds : job[k].step \in {"none", "read", "write", "load", "landing"}
  /\ reg.step \in {"none", "document", "keys", "config", "write", "apply", "restart"}
  /\ error \in BOOLEAN /\ blocked \in Hosts \union {None} /\ confirm \in BOOLEAN
  /\ alone \in BOOLEAN /\ edits \in 0..MaxEdits /\ sent \in 0..MaxSends /\ trouble \in 0..MaxTrouble

Blank == [client |-> CHOOSE c \in Clients : TRUE, claim |-> "", only |-> FALSE]
Id == CHOOSE h \in Hosts : TRUE    \* the provider whose detail screen it is

Init ==
  /\ route \in {"add", "detail"} /\ reach \in Reaches
  /\ \E e \in Entry :
       /\ e.keys = Id /\ e.client # None
       /\ stored \in {[h \in Hosts |-> IF h = Id THEN e ELSE None]}
            \union (IF route = "add" THEN {[h \in Hosts |-> None]} ELSE {})
  /\ applied = FALSE /\ live = FALSE /\ header = "none"
  /\ idp = None /\ loading = TRUE /\ editing = FALSE /\ draft = Blank
  /\ job = [k \in Kinds |-> IF k = "open" /\ route = "detail" THEN [Idle EXCEPT !.step = "load"] ELSE Idle]
  /\ form = None /\ pending = None /\ reg = NoRequest /\ error = FALSE /\ blocked = None
  /\ confirm = FALSE /\ alone = TRUE /\ edits = 0 /\ sent = 0 /\ trouble = 0

Fail == trouble < MaxTrouble /\ trouble' = trouble + 1
MayFail == UNCHANGED trouble \/ Fail

------------------------------------------------------------------------------
(* normalizeWellKnownUrl: one trailing slash goes, and what is missing of the path is added. *)
WELL_KNOWN == <<"/", ".well-known">>
DOCUMENT == WELL_KNOWN \o <<"/", "openid-configuration">>
normalizeWellKnownUrl(t) ==
  LET base == IF Last(t) = "/" THEN Front(t) ELSE t
  IN  CASE IsSuffix(DOCUMENT, base) -> base
        [] ~IsSuffix(DOCUMENT, base) /\ IsSuffix(WELL_KNOWN, base) -> base \o <<"/", "openid-configuration">>
        [] OTHER -> base \o DOCUMENT

------------------------------------------------------------------------------
(* Registering. *)
Uncovered == route = "add" /\ ~confirm    \* the question, while it is open, covers the form

Fill(f) ==
  /\ Uncovered /\ edits < MaxEdits /\ form # f
  /\ form' = f /\ edits' = edits + 1
  /\ UNCHANGED <<route, node, header, detail, pending, reg, error, blocked, confirm, sent, trouble>>

register(request, pasted) ==
  /\ error' = FALSE
  /\ reg' = [step |-> "document", pasted |-> pasted, url |-> request.url]

handleSubmit ==
  /\ Uncovered /\ ~submitting /\ form # None /\ sent < MaxSends /\ sent' = sent + 1
  /\ pending' = [form EXCEPT !.url = normalizeWellKnownUrl(@)]
  /\ register(pending', None)
  /\ UNCHANGED <<route, node, header, detail, form, blocked, confirm, edits, trouble>>

(* The operator pastes the keys of the URL that the box names; other text is refused at once. *)
handleJwksRetry ==
  /\ Uncovered /\ ~submitting /\ blocked # None /\ sent < MaxSends /\ sent' = sent + 1
  /\ register(pending, blocked)
  /\ UNCHANGED <<route, node, header, detail, form, pending, blocked, confirm, edits, trouble>>

Refused(box) == reg' = NoRequest /\ blocked' = box /\ error' = (box = None)

discover ==
  LET h == Head(reg.url) IN
  /\ \/ /\ reg.step = "document" /\ reach[h] # "nothing"
        /\ reg' = [reg EXCEPT !.step = IF reg.pasted = None THEN "keys" ELSE "config"]
        /\ UNCHANGED <<error, blocked, trouble>>
     \/ /\ reg.step = "keys" /\ reach[h] = "all"
        /\ reg' = [reg EXCEPT !.step = "config", !.pasted = h] /\ UNCHANGED <<error, blocked, trouble>>
     \/ /\ (reg.step = "document" /\ reach[h] = "nothing") \/ (reg.step = "keys" /\ reach[h] = "document")
        /\ Refused(h) /\ UNCHANGED trouble
     \/ reg.step \in {"document", "keys"} /\ Fail /\ Refused(None)
  /\ UNCHANGED <<route, node, header, detail, form, pending, confirm, edits, sent>>

createIdp ==
  LET h == Head(reg.url)
      entry == [client |-> pending.client, claim |-> IF pending.claim = "" THEN Default ELSE pending.claim,
                only |-> pending.only, keys |-> reg.pasted]
  IN
  /\ \/ /\ reg.step = "config" /\ stored[h] = None
        /\ reg' = [reg EXCEPT !.step = "write"] /\ UNCHANGED <<stored, error, blocked, trouble>>
     \/ /\ reg.step = "config" /\ stored[h] # None
        /\ Refused(None) /\ UNCHANGED <<stored, trouble>>
     \/ /\ reg.step = "write" /\ stored' = [stored EXCEPT ![h] = entry]
        /\ reg' = [reg EXCEPT !.step = "apply"] /\ UNCHANGED <<error, blocked, trouble>>
     \/ reg.step \in {"config", "write"} /\ Fail /\ Refused(None) /\ UNCHANGED stored
  /\ UNCHANGED <<route, reach, applied, live, header, detail, form, pending, confirm, edits, sent>>

(* router.navigate("/idp"), wherever the user is by now; a mounted screen takes its buttons along. *)
ToTheList ==
  /\ route' = "list" /\ header' = "theirs"

askRestart ==
  /\ reg.step = "apply" /\ reg' = NoRequest
  /\ \/ applied' = TRUE /\ confirm' = TRUE /\ UNCHANGED <<route, header, trouble>>
     \/ Fail /\ ToTheList /\ applied' \in {applied, TRUE} /\ UNCHANGED confirm
  /\ UNCHANGED <<reach, stored, live, detail, form, pending, error, blocked, edits, sent>>

declineRestart ==
  /\ route = "add" /\ confirm /\ confirm' = FALSE /\ ToTheList
  /\ UNCHANGED <<node, detail, form, pending, reg, error, blocked, edits, sent, trouble>>

runRestartConfirm ==
  /\ \/ /\ route = "add" /\ confirm /\ confirm' = FALSE /\ reg' = [reg EXCEPT !.step = "restart"]
        /\ UNCHANGED <<route, header, live, trouble>>
     \/ /\ reg.step = "restart" /\ reg' = NoRequest /\ ToTheList /\ UNCHANGED confirm
        /\ \/ live' = applied /\ UNCHANGED trouble
           \/ Fail /\ UNCHANGED live
  /\ UNCHANGED <<reach, stored, applied, detail, form, pending, error, blocked, edits, sent>>

------------------------------------------------------------------------------
(* The detail screen. *)
Actions(entry, mode) == IF entry = None THEN "back" ELSE IF mode THEN "edit" ELSE "view"
updateHeaderActions == header' = Actions(idp', editing')

Begin(k) == job' = [job EXCEPT ![k] = [step |-> "read", entry |-> None]]
Ended(k) == job' = [job EXCEPT ![k] = Idle]
Overlaps == alone' = (alone /\ ~Busy("save") /\ ~Busy("refresh"))

startEdit ==
  /\ header = "view" /\ idp # None
  /\ draft' = [client |-> idp.client, claim |-> idp.claim, only |-> idp.only] /\ editing' = TRUE
  /\ header' = "edit"
  /\ UNCHANGED <<route, node, idp, loading, job, alone, adding, edits, sent, trouble>>

cancelEdit ==
  /\ header = "edit" /\ editing' = FALSE /\ header' = "view"
  /\ UNCHANGED <<route, node, idp, loading, draft, job, alone, adding, edits, sent, trouble>>

TypeDraft(d) ==
  /\ route = "detail" /\ editing /\ ~loading /\ edits < MaxEdits /\ draft # d
  /\ draft' = d /\ edits' = edits + 1
  /\ UNCHANGED <<route, node, header, idp, loading, editing, job, alone, adding, sent, trouble>>

saveEdit ==
  /\ header = "edit" /\ ~Busy("save") /\ idp # None /\ sent < MaxSends /\ sent' = sent + 1
  /\ job' = [job EXCEPT !.save = [step |-> "read", entry |-> draft]] /\ Overlaps
  /\ UNCHANGED <<route, node, header, idp, loading, editing, draft, adding, edits, trouble>>

Press(k) ==
  /\ k \in {"refresh", "apply", "restart", "delete"} /\ header = "view" /\ ~Busy(k)
  /\ sent < MaxSends /\ sent' = sent + 1
  /\ Begin(k) /\ IF k = "refresh" THEN Overlaps ELSE UNCHANGED alone
  /\ UNCHANGED <<route, node, header, idp, loading, editing, draft, adding, edits, trouble>>

(* updateIdp merges into what it has read (an empty claim keeps the old one), refreshIdp writes *)
(* it back with new keys; neither has a revision to guard it.                                     *)
Merged(k) ==
  IF k = "refresh" THEN stored[Id]
  ELSE LET d == job.save.entry
       IN  [stored[Id] EXCEPT !.client = d.client, !.claim = IF d.claim = "" THEN @ ELSE d.claim,
                              !.only = d.only]

Read(k) ==
  /\ k \in {"save", "refresh"} /\ job[k].step = "read" /\ stored[Id] # None
  /\ job' = [job EXCEPT ![k] = [step |-> "write", entry |-> Merged(k)]]
  /\ UNCHANGED <<route, node, header, idp, loading, editing, draft, alone, adding, edits, sent, trouble>>

Write(k) ==
  /\ job[k].step = "write"
  /\ stored' = [stored EXCEPT ![Id] = job[k].entry]
  /\ job' = [job EXCEPT ![k] = [step |-> "load", entry |-> None]]
  /\ editing' = (IF k = "save" THEN FALSE ELSE editing) /\ loading' = TRUE
  /\ UNCHANGED <<route, reach, applied, live, header, idp, draft, alone, adding, edits, sent, trouble>>

Error(k) ==
  /\ k \in {"save", "refresh"} /\ job[k].step \in {"read", "write"}
  /\ Fail \/ (job[k].step = "read" /\ stored[Id] = None /\ UNCHANGED trouble)
  /\ Ended(k) /\ UNCHANGED <<route, node, idp, loading, editing, draft, alone, adding, edits, sent>>
  /\ IF k = "save" THEN updateHeaderActions ELSE UNCHANGED header

(* The reads: the screen's own, and those that follow a save or a refresh. *)
getIdp(k) ==
  /\ job[k].step = "load"
  /\ job' = [job EXCEPT ![k] = [step |-> "landing", entry |-> stored[Id]]]
  /\ UNCHANGED <<route, node, header, idp, loading, editing, draft, alone, adding, edits, sent, trouble>>

load(k) ==
  /\ \/ /\ job[k].step = "landing" /\ idp' = (IF job[k].entry = None THEN idp ELSE job[k].entry)
        /\ UNCHANGED <<alone, trouble>>
     \/ job[k].step = "load" /\ Fail /\ alone' = FALSE /\ UNCHANGED idp
  /\ Ended(k) /\ loading' = FALSE
  /\ UNCHANGED <<route, node, editing, draft, adding, edits, sent>>
  /\ IF k = "refresh" THEN UNCHANGED header ELSE updateHeaderActions

(* These three report what failed, and do not throw: a deletion that failed is called done too. *)
Done(k) ==
  /\ k \in {"apply", "restart", "delete"} /\ job[k].step = "read" /\ Ended(k) /\ MayFail
  /\ LET ok == trouble' = trouble IN
     /\ applied' = (applied \/ (k = "apply" /\ ok /\ stored[Id] # None))
     /\ live' = (IF k = "restart" /\ ok THEN applied ELSE live)
     /\ stored' = (IF k = "delete" /\ ok THEN [stored EXCEPT ![Id] = None] ELSE stored)
  /\ IF k = "delete" THEN ToTheList ELSE UNCHANGED <<route, header>>
  /\ UNCHANGED <<reach, idp, loading, editing, draft, alone, adding, edits, sent>>

(* Cancel, Back, the navigation: the screen goes, its requests do not. *)
Leave ==
  /\ route \in {"add", "detail"} /\ ~confirm
  /\ route' \in {"list", "away"} /\ header' = "theirs"
  /\ UNCHANGED <<node, detail, adding, edits, sent, trouble>>

------------------------------------------------------------------------------
Next ==
  \/ \E f \in Forms : Fill(f)
  \/ handleSubmit \/ handleJwksRetry \/ discover \/ createIdp \/ askRestart \/ declineRestart
  \/ runRestartConfirm \/ startEdit \/ cancelEdit \/ saveEdit \/ Leave
  \/ \E d \in Fields : TypeDraft(d)
  \/ \E k \in Kinds : Press(k) \/ Read(k) \/ Write(k) \/ Error(k) \/ getIdp(k) \/ load(k) \/ Done(k)

Spec == Init /\ [][Next]_vars

------------------------------------------------------------------------------
(* idp-add.ts: an operator who pastes the keys of the URL that the box names never gives a  *)
(* provider the keys of another one, whatever the form says by then.                         *)
KeysAreTheirs == \A h \in Hosts : stored[h] # None => stored[h].keys = h

(* idp-detail.ts: the header has the buttons of the mode the screen is in - once the        *)
(* provider is there, and no save is under way.                                               *)
HeaderFollowsTheMode ==
  (route = "detail" /\ ~Busy("open") /\ ~Busy("save")) => header = Actions(idp, editing)

(* With nothing under way, the screen shows the provider as CouchDB has it, as long as no   *)
(* save overlapped a refresh and no read failed.                                               *)
SettledIsTheServers ==
  (route = "detail" /\ alone /\ idp # None /\ stored[Id] # None /\ \A k \in Kinds : ~Busy(k)) =>
    idp = stored[Id]

(* normalizeWellKnownUrl: whatever part of it was typed, the request is for the document. *)
AsksForTheDocument ==
  pending # None => pending.url = <<Head(pending.url)>> \o DOCUMENT

(* Does not hold of the code: buttons on a screen are that screen's.  A read or a save that  *)
(* is answered after the screen was left puts this provider's, Delete among them, on the      *)
(* next one (connectedCallback, saveEdit).                                                     *)
HeaderStaysHome == route \in {"list", "away"} => header = "theirs"

(* Does not hold of the code: no answer takes the user from the screen he has gone to. *)
AnswersStayStep == route = "away" => route' = "away"
AnswersStay == [][AnswersStayStep]_vars

(* Does not hold of the code: the box for the keys is offered where pasting them can help.   *)
(* The document itself may be what the browser was refused (discover).                         *)
PasteHelps == blocked # None => reach[blocked] # "nothing"
==============================================================================
