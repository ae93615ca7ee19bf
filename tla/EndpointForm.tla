------------------------------ MODULE EndpointForm ------------------------------
(* One endpoint of the replication form: its server and database, the dialog of its       *)
(* credential (repl-auth-panel.ts, and the table of cca-http-headers-table.ts in it), the  *)
(* database browser (repl-db-browser.ts), and the filter with its picker                   *)
(* (repl-filter-section.ts, repl-filter-picker.ts).  Dialogs are modal: one at a time.     *)
(* What becomes of the endpoint afterwards is ReplicationEditor's.                          *)
EXTENDS Naturals, Sequences, FiniteSets, FiniteSetsExt, SequencesExt

CONSTANTS
  Servers,       \* what the server field may hold
  Secrets,       \* tokens and passwords
  Ddocs,         \* design documents of the source database
  FiltersOf,     \* their filter functions
  Names,         \* what is typed as the name of a design document or a function
  None,
  MaxEdits,      \* bound: changes of the fields
  MaxLoads       \* bound: requests sent

VARIABLES
  serverUrl,
  auth,          \* headers: a function of header names
  dialog,        \* the one open: "auth", "browse", "filter", or "none"
  panel,         \* the draft: [mode, basic, token, rows, stored, revealed]
  draftRow,      \* the row typed below the table and not added yet, or None
  typed,         \* history: the secrets typed since the dialog opened
  browser,       \* [phase, of, seq]; asked is history: the server of the latest show()
  picker,        \* [ddocs, ddoc, filters, filter, loadingDdocs, loadingFilters]
  filterFn,      \* its parts between the slashes
  requests,      \* [n, what, of] under way
  sent, edits

vars == <<serverUrl, auth, dialog, panel, draftRow, typed, browser, picker, filterFn,
          requests, sent, edits>>
endpoint == <<serverUrl, auth>>
credential == <<panel, draftRow, typed>>

Modes == {"none", "basic", "bearer", "custom"}
\* The value of a header: a scheme, and what follows it.
Value(scheme, secret) == [scheme |-> scheme, secret |-> secret]
Values == [scheme : {"basic", "bearer", "other"}, secret : Secrets \union {None}]
Blank == [enabled |-> TRUE, key |-> "", value |-> None]
Closed == [ddocs |-> {}, ddoc |-> None, filters |-> None, filter |-> None,
           loadingDdocs |-> FALSE, loadingFilters |-> FALSE]
NoDraft == [mode |-> "none", basic |-> None, token |-> None, rows |-> <<Blank>>,
            stored |-> FALSE, revealed |-> TRUE]

TypeOK ==
  /\ serverUrl \in Servers /\ dialog \in {"none", "auth", "browse", "filter"}
  /\ \A k \in DOMAIN auth : k \in {"authorization", "other"} /\ auth[k] \in Values
  /\ panel.mode \in Modes /\ typed \subseteq Secrets
  /\ browser.phase \in {"idle", "loading", "list", "error"} /\ browser.seq \in 0..MaxLoads
  /\ picker.ddocs \subseteq Ddocs /\ Len(filterFn) \in 0..3
  /\ sent \in 0..MaxLoads /\ edits \in 0..MaxEdits

\* A stored replication with a credential, or a new one.
Init ==
  /\ serverUrl \in Servers
  /\ auth \in {<<>>} \union {[k \in {"authorization"} |-> Value("bearer", s)] : s \in Secrets}
  /\ dialog = "none" /\ panel = NoDraft /\ draftRow = None /\ typed = {}
  /\ browser = [phase |-> "idle", of |-> None, seq |-> 0, asked |-> None]
  /\ picker = Closed /\ filterFn = <<>> /\ requests = {} /\ sent = 0 /\ edits = 0

Edit == edits < MaxEdits /\ edits' = edits + 1

EditServer(u) ==
  /\ dialog = "none" /\ u # serverUrl /\ Edit /\ serverUrl' = u
  /\ UNCHANGED <<auth, dialog, credential, browser, picker, filterFn, requests, sent>>

\* The editor reads its document twice: the second answer sets the fields again.
Populate(u, a) ==
  /\ Edit /\ serverUrl' = u /\ auth' = a
  /\ UNCHANGED <<dialog, credential, browser, picker, filterFn, requests, sent>>

-------------------------------------------------------------------------------
(* repl-auth-panel.ts: what the headers say, and the dialog.                        *)

hasAuthorizationContent(v) == v.scheme \in {"basic", "bearer"} => v.secret # None
Active(a) == {k \in DOMAIN a : k = "authorization" => hasAuthorizationContent(a[k])}
deriveMode(a) ==
  IF Active(a) = {} THEN "none"
  ELSE IF Active(a) # {"authorization"} \/ a["authorization"].scheme = "other" THEN "custom"
  ELSE a["authorization"].scheme

seedDraft ==
  [NoDraft EXCEPT !.mode = deriveMode(auth), !.stored = (deriveMode(auth) # "none"),
                  !.revealed = (deriveMode(auth) = "none")]
openDialog ==
  /\ dialog = "none" /\ dialog' = "auth" /\ panel' = seedDraft /\ draftRow' = None /\ typed' = {}
  /\ UNCHANGED <<endpoint, browser, picker, filterFn, requests, sent, edits>>
closeDialog ==
  /\ dialog = "auth" /\ dialog' = "none"
  /\ UNCHANGED <<endpoint, credential, browser, picker, filterFn, requests, sent, edits>>

Draft(p) ==
  /\ dialog = "auth" /\ panel' = p
  /\ UNCHANGED <<endpoint, dialog, browser, picker, filterFn, requests, sent>>
Protected == panel.stored /\ ~panel.revealed
startReplace == Protected /\ Draft([panel EXCEPT !.revealed = TRUE]) /\ UNCHANGED <<draftRow, typed, edits>>
startClear ==
  /\ Protected /\ Draft([panel EXCEPT !.mode = "none", !.revealed = TRUE])
  /\ UNCHANGED <<draftRow, typed, edits>>
\* The table is put up anew with the mode: the row below it is lost.
PickMode(m) ==
  /\ ~Protected /\ m # panel.mode /\ Edit /\ Draft([panel EXCEPT !.mode = m])
  /\ draftRow' = None /\ UNCHANGED typed
TypeSecret(s) ==
  /\ ~Protected /\ Edit
  /\ \/ panel.mode = "basic" /\ Draft([panel EXCEPT !.basic = s])
     \/ panel.mode = "bearer" /\ Draft([panel EXCEPT !.token = s])
  /\ typed' = typed \union {s} /\ UNCHANGED draftRow

(* cca-http-headers-table.ts: the rows, one of them below the table.  A row for the      *)
(* content type is dropped from whatever is told.                                          *)
sanitizeHeaders(rows) == SelectSeq(rows, LAMBDA row : row.key # "content-type")
TypedRow(k, w) == [enabled |-> TRUE, key |-> k, value |-> w]
Tabled == ~Protected /\ panel.mode = "custom"
Rows(rows) == Tabled /\ Draft([panel EXCEPT !.rows = sanitizeHeaders(rows)])
SecretIn(w) == IF w = None THEN {} ELSE {w.secret} \ {None}
updateRow(i, row) ==
  /\ i \in DOMAIN panel.rows /\ row # panel.rows[i] /\ Edit
  /\ Rows([panel.rows EXCEPT ![i] = row])
  /\ typed' = typed \union SecretIn(row.value) /\ UNCHANGED draftRow
removeRow(i) ==
  /\ i \in DOMAIN panel.rows /\ Edit /\ Rows(RemoveAt(panel.rows, i)) /\ UNCHANGED <<draftRow, typed>>
TypeDraft(row) ==
  /\ Tabled /\ row # draftRow /\ Edit /\ Draft(panel) /\ draftRow' = row
  /\ typed' = typed \union SecretIn(row.value)
addRow ==
  /\ draftRow # None /\ Len(panel.rows) < 2 /\ Rows(Append(panel.rows, draftRow))
  /\ draftRow' = None /\ UNCHANGED <<typed, edits>>

Complete(row) == row.enabled /\ row.key # "" /\ row.value # None
CompiledRows(rows) ==
  LET live == SelectSeq(rows, Complete)
      Of(k) == {i \in DOMAIN live : live[i].key = k}
  IN [k \in {live[i].key : i \in DOMAIN live} |-> live[Max(Of(k))].value]
Sole(v) == [k \in {"authorization"} |-> v]
compileDraft ==
  CASE ~panel.revealed -> auth
    [] panel.revealed /\ panel.mode = "none" -> <<>>
    [] panel.revealed /\ panel.mode = "bearer" -> Sole(Value("bearer", panel.token))
    [] panel.revealed /\ panel.mode = "basic" -> Sole(Value("basic", panel.basic))
    [] panel.revealed /\ panel.mode = "custom" -> CompiledRows(panel.rows)
isDraftIncomplete ==
  /\ panel.revealed
  /\ \/ panel.mode = "basic" /\ panel.basic = None
     \/ panel.mode = "bearer" /\ panel.token = None
     \/ panel.mode = "custom" /\ \A i \in DOMAIN panel.rows : ~Complete(panel.rows[i])
confirm ==
  /\ dialog = "auth" /\ ~isDraftIncomplete /\ auth' = compileDraft /\ dialog' = "none"
  /\ UNCHANGED <<serverUrl, credential, browser, picker, filterFn, requests, sent, edits>>

-------------------------------------------------------------------------------
(* The database browser: what is shown is of its latest show().                     *)

Send(what, of) ==
  /\ sent < MaxLoads /\ sent' = sent + 1
  /\ requests' = requests \union {[n |-> sent', what |-> what, of |-> of]}
show ==
  /\ dialog = "none" /\ dialog' = "browse" /\ Send("databases", serverUrl)
  /\ browser' = [browser EXCEPT !.phase = "loading", !.seq = sent', !.asked = serverUrl]
  /\ UNCHANGED <<endpoint, credential, picker, filterFn, edits>>
Newest(q) == q.n = browser.seq
Listed(q) ==
  /\ q \in requests /\ q.what = "databases" /\ requests' = requests \ {q}
  /\ browser' \in IF Newest(q)
                  THEN {[browser EXCEPT !.phase = p, !.of = q.of] : p \in {"list", "error"}}
                  ELSE {browser}
  /\ UNCHANGED <<endpoint, dialog, credential, picker, filterFn, sent, edits>>
pick ==
  /\ dialog = "browse" /\ browser.phase = "list" /\ dialog' = "none"
  /\ UNCHANGED <<endpoint, credential, browser, picker, filterFn, requests, sent, edits>>
close ==
  /\ dialog = "browse" /\ dialog' = "none"
  /\ UNCHANGED <<endpoint, credential, browser, picker, filterFn, requests, sent, edits>>

-------------------------------------------------------------------------------
(* The filter: a name made of a design document's and a function's.                 *)

getFilterDesignDoc == IF Len(filterFn) = 2 THEN filterFn[1] ELSE None
getFilterFunctionName == IF Len(filterFn) = 2 THEN filterFn[2] ELSE None
Joined(d, f) == IF d = None /\ f = None THEN <<>> ELSE <<d, f>>
setFilter(d, f) == filterFn' = Joined(d, f)
\* A name with a slash in it makes three parts of the two.
TypeFilter ==
  /\ dialog = "none" /\ Edit
  /\ \/ \E d \in Names \union {None} : setFilter(d, getFilterFunctionName)
     \/ \E f \in Names \union {None} : setFilter(getFilterDesignDoc, f)
     \/ \E f \in Names : filterFn' = <<getFilterDesignDoc, f, f>>
  /\ UNCHANGED <<endpoint, dialog, credential, browser, picker, requests, sent>>

OpenPicker ==
  /\ dialog = "none" /\ dialog' = "filter" /\ Send("ddocs", serverUrl)
  /\ picker' = [picker EXCEPT !.ddoc = None, !.filter = None, !.filters = None, !.loadingDdocs = TRUE]
  /\ UNCHANGED <<endpoint, credential, browser, filterFn, edits>>
_loadDdocs(q) ==
  /\ q \in requests /\ q.what = "ddocs" /\ requests' = requests \ {q}
  /\ picker' \in {[picker EXCEPT !.ddocs = ds, !.loadingDdocs = FALSE] : ds \in {Ddocs, {}}}
  /\ UNCHANGED <<endpoint, dialog, credential, browser, filterFn, sent, edits>>
Choosing == dialog = "filter" /\ ~picker.loadingDdocs /\ picker.ddocs # {}
_selectDdoc(d) ==
  /\ Choosing /\ d \in picker.ddocs /\ d # picker.ddoc /\ Send("filters", d)
  /\ picker' = [picker EXCEPT !.ddoc = d, !.filter = None, !.filters = None, !.loadingFilters = TRUE]
  /\ UNCHANGED <<endpoint, dialog, credential, browser, filterFn, edits>>
\* An answer for a design document that is no longer the selected one is shown as well.
FiltersLand(q) ==
  /\ q \in requests /\ q.what = "filters" /\ requests' = requests \ {q}
  /\ picker' \in {[picker EXCEPT !.filters = fs, !.loadingFilters = FALSE] : fs \in {FiltersOf[q.of], picker.filters}}
  /\ UNCHANGED <<endpoint, dialog, credential, browser, filterFn, sent, edits>>
SelectFilter(f) ==
  /\ Choosing /\ ~picker.loadingFilters /\ picker.filters # None /\ f \in picker.filters
  /\ picker' = [picker EXCEPT !.filter = f]
  /\ UNCHANGED <<endpoint, dialog, credential, browser, filterFn, requests, sent, edits>>
_confirm ==
  /\ dialog = "filter" /\ picker.ddoc # None /\ picker.filter # None
  /\ setFilter(picker.ddoc, picker.filter) /\ dialog' = "none"
  /\ UNCHANGED <<endpoint, credential, browser, picker, requests, sent, edits>>
_cancel ==
  /\ dialog = "filter" /\ dialog' = "none"
  /\ UNCHANGED <<endpoint, credential, browser, picker, filterFn, requests, sent, edits>>

TypedValues == {Value("bearer", None)} \union {Value("other", s) : s \in Secrets}
TypedRows ==
  {TypedRow("", w) : w \in TypedValues} \union {TypedRow("authorization", None)}
  \union {TypedRow(k, w) : k \in {"authorization", "other", "content-type"}, w \in TypedValues}

Next ==
  \/ \E u \in Servers : EditServer(u) \/ Populate(u, <<>>)
  \/ openDialog \/ closeDialog \/ startReplace \/ startClear \/ confirm \/ addRow
  \/ \E m \in Modes : PickMode(m)
  \/ \E s \in Secrets : TypeSecret(s)
  \/ \E row \in TypedRows : TypeDraft(row) \/ \E i \in 1..2 : updateRow(i, row)
  \/ \E i \in 1..2 : removeRow(i)
  \/ show \/ pick \/ close \/ TypeFilter \/ OpenPicker \/ _confirm \/ _cancel
  \/ \E q \in requests : Listed(q) \/ _loadDdocs(q) \/ FiltersLand(q)
  \/ \E d \in Ddocs : _selectDdoc(d)
  \/ \E f \in UNION {FiltersOf[d] : d \in Ddocs} : SelectFilter(f)

Spec == Init /\ [][Next]_vars

-------------------------------------------------------------------------------
(* An Apply that keeps what is stored keeps its very bytes; one that puts a credential in   *)
(* its place was typed since this dialog opened - not in one that was cancelled, nor in     *)
(* the field of another mode - and one that leaves none was asked to (repl-auth-panel.ts:   *)
(* 55-60, 241-271).                                                                         *)
Stored(a) == UNION {SecretIn(a[k]) : k \in DOMAIN a}
OnlyWhatWasTypedStep ==
  (dialog = "auth" /\ dialog' = "none") =>
    \/ auth' = auth
    \/ panel.revealed /\ Stored(auth') \subseteq typed
       /\ (Stored(auth') = {} => panel.mode \in {"none", "custom"})
OnlyWhatWasTyped == [][OnlyWhatWasTypedStep]_vars

(* The databases one may pick are those of the server that was in the field when the         *)
(* dialog was opened, however often it was closed over a slow server and opened for another   *)
(* (repl-db-browser.ts).                                                                       *)
ListIsOfTheServer == browser.phase = "list" => browser.of = browser.asked

(* A spinner has a request to wait for.                                                       *)
SpinnersEnd ==
  /\ browser.phase = "loading" => \E q \in requests : q.what = "databases" /\ q.n = browser.seq
  /\ picker.loadingDdocs => \E q \in requests : q.what = "ddocs"
  /\ picker.loadingFilters => \E q \in requests : q.what = "filters"

(* repl-auth-panel.ts: 291-298, "a Replace-then-Apply with blank fields cannot overwrite a    *)
(* real stored credential with that garbage value": a row of the table may.                    *)
NoGarbageStep == (auth' # auth /\ dialog = "auth") => (DOMAIN auth' = {} \/ deriveMode(auth') # "none")
NoGarbage == [][NoGarbageStep]_vars

(* The filters to pick from are those of the design document chosen.                          *)
FiltersAreOfTheDdoc ==
  (picker.filters # None /\ picker.ddoc # None) => picker.filters = FiltersOf[picker.ddoc]

(* Neither field of the filter changes under the other.                                        *)
FieldsKeep == Len(filterFn) \in {0, 2}
===============================================================================
