----------------------------- MODULE ConfigScreen -----------------------------
(* The configuration of the node (cca-config.ts): the table with its dialogs, the CORS     *)
(* panel (cca-config-cors.ts), which is another element with the screen's snapshot of the   *)
(* configuration and is unmounted whenever the screen reads it again, the requests of        *)
(* config-service.ts, and the probe of the cluster that decides on the header's actions.     *)
EXTENDS Naturals, Sequences, FiniteSets, SequencesExt, FiniteSetsExt

CONSTANTS
  Origins,       \* what is typed as an origin
  Values,        \* what is typed as a value
  Edited,        \* bound: the options that are edited in the table
  Stored,        \* configurations that CouchDB may have: functions from keys to lists of words
  MaxSends,      \* bound: reads at the start and requests that write
  MaxTrouble     \* bound: requests that fail

VARIABLES
  config,        \* in CouchDB; a key that nobody set is not in its domain
  open, header,  \* the screen is the one shown; the actions in the header
  nodes,         \* _nodeCount, or "asked"
  shown, loading,  \* _config, _loading
  reads,         \* getConfig under way: [n, config, at]; at is 0 until CouchDB answers
  dialog,        \* [kind, key, value]; kind is "none", "new", "edit", "delete", "restart"
  saves,         \* requests of the dialogs under way: [n, kind, key, value]
  panel, saving, \* the CORS panel: which one it is, _saving
  jobs,          \* its requests: [n, todo, seeds, panel, origins]
  clock, newest, \* reads answered; the one on the screen
  lost,          \* history: an answer came too late, came to nobody, or not at all
  sent, wrote, trouble

vars == <<config, open, header, nodes, shown, loading, reads, dialog, saves, panel,
          saving, jobs, clock, newest, lost, sent, wrote, trouble>>
counts == <<sent, wrote>>
chrome == <<open, header, nodes>>
view == <<shown, loading, reads, panel, saving, clock, newest>>

Keys == {"enable_cors", "origins", "credentials"}
Defaults == <<<<"origins", <<"*">>>>, <<"credentials", <<"true">>>>>>
Get(c, key) == IF key \in DOMAIN c THEN c[key] ELSE <<>>
Set(c, key, value) == [k \in DOMAIN c \union {key} |-> IF k = key THEN value ELSE c[k]]
Unset(c, key) == [k \in DOMAIN c \ {key} |-> c[k]]
NoDialog == [kind |-> "none", key |-> "origins", value |-> <<>>]
Asked(n) == [n |-> n, config |-> <<>>, at |-> 0]

TypeOK ==
  /\ DOMAIN config \subseteq Keys /\ DOMAIN shown \subseteq Keys
  /\ open \in BOOLEAN /\ header \subseteq {"add", "compare", "restart"} /\ nodes \in {"asked", "one", "many"}
  /\ loading \in BOOLEAN /\ saving \in BOOLEAN /\ lost \in BOOLEAN
  /\ \A r \in reads : r.at \in 0..clock
  /\ dialog.kind \in {"none", "new", "edit", "delete", "restart"} /\ dialog.key \in Keys
  /\ \A j \in jobs : j.panel \in 0..panel /\ \A i \in DOMAIN j.todo : j.todo[i][1] \in Keys
  /\ newest \in 0..clock /\ sent \in 0..2 * MaxSends /\ wrote \in 0..MaxSends /\ trouble \in 0..MaxTrouble

Actions(n) == {"add", "restart"} \union (IF n = "many" THEN {"compare"} ELSE {})

(* connectedCallback and the first update read the configuration, each of them; only the   *)
(* second does where the address named no server.                                            *)
Init ==
  /\ config \in Stored
  /\ open = TRUE /\ header = Actions("asked") /\ nodes = "asked"
  /\ shown = <<>> /\ loading = TRUE
  /\ \E n \in {1, 2} : reads = {Asked(i) : i \in 1..n} /\ sent = n /\ wrote = n
  /\ dialog = NoDialog /\ saves = {} /\ panel = 0 /\ saving = FALSE /\ jobs = {}
  /\ clock = 0 /\ newest = 0 /\ lost = FALSE /\ trouble = 0

------------------------------------------------------------------------------
Fail == trouble < MaxTrouble /\ trouble' = trouble + 1

(* The header is everybody's: an answer that finds the screen gone leaves it alone. *)
_updateHeaderActions == header' = (IF open THEN Actions(nodes') ELSE header)
_probeClusterSize ==
  /\ nodes = "asked"
  /\ \/ nodes' \in {"one", "many"} /\ UNCHANGED trouble
     \/ Fail /\ nodes' = "one"
  /\ _updateHeaderActions
  /\ UNCHANGED <<config, open, view, dialog, saves, jobs, lost, counts>>

(* The screen goes.  Its requests do not, but what it reads from now on nobody sees: these   *)
(* reads are left out.                                                                         *)
disconnectedCallback ==
  /\ open /\ open' = FALSE /\ header' = {} /\ dialog' = NoDialog
  /\ reads' = {} /\ shown' = <<>> /\ loading' = FALSE /\ panel' = panel + 1 /\ saving' = FALSE
  /\ UNCHANGED <<config, nodes, clock, newest, saves, jobs, lost, counts, trouble>>

------------------------------------------------------------------------------
(* _load: the tabs, and the panel in them, are there only while nothing is loading. *)
_load ==
  /\ reads' = reads \union {Asked(sent + 1)} /\ sent' = sent + 1
  /\ loading' = TRUE
  /\ panel' = (IF loading THEN panel ELSE panel + 1)
NoLoad == UNCHANGED <<reads, loading, panel, sent>>

Answer(r) ==
  /\ r.at = 0 /\ clock' = clock + 1
  /\ reads' = (reads \ {r}) \union {[r EXCEPT !.config = config, !.at = clock + 1]}
  /\ UNCHANGED <<config, chrome, shown, loading, panel, saving, newest, dialog, saves, jobs, lost,
                 counts, trouble>>

_loaded(r) ==
  /\ reads' = reads \ {r} /\ loading' = FALSE
  /\ \/ /\ r.at # 0 /\ shown' = r.config /\ newest' = r.at
        /\ jobs' = {IF j.panel = panel /\ ~loading THEN [j EXCEPT !.origins = Get(r.config, "origins")] ELSE j :
                     j \in jobs}
        /\ lost' = (lost \/ r.at < newest) /\ UNCHANGED trouble
     \/ /\ r.at = 0 /\ Fail /\ lost' = TRUE /\ UNCHANGED <<shown, newest, jobs>>
  /\ saving' = (saving /\ ~loading)
  /\ UNCHANGED <<config, chrome, panel, clock, dialog, saves, counts>>

------------------------------------------------------------------------------
(* The table's dialogs; they outlive a reload of the table under them. *)
Ask(kind, key) ==
  /\ open /\ dialog.kind = "none"
  /\ kind \in {"edit", "delete"} => ~loading /\ key \in DOMAIN shown
  /\ dialog' = [kind |-> kind, key |-> key, value |-> Get(shown, key)]
  /\ UNCHANGED <<config, chrome, view, saves, jobs, lost, counts, trouble>>
_openEdit(key) == Ask("edit", key)
_askDelete(key) == Ask("delete", key)
openNew == Ask("new", "origins")
_askRestart == Ask("restart", "origins")

_updateDraft(key, value) ==
  /\ dialog.kind \in {"new", "edit"} /\ dialog.kind = "edit" => key = dialog.key
  /\ dialog.value # value
  /\ dialog' = [dialog EXCEPT !.key = key, !.value = value]
  /\ UNCHANGED <<config, chrome, view, saves, jobs, lost, counts, trouble>>

Cancel ==
  /\ dialog.kind # "none" /\ dialog' = NoDialog
  /\ UNCHANGED <<config, chrome, view, saves, jobs, lost, counts, trouble>>

\* An open draft stays until its PUT is answered; a confirmation closes at once.
Confirm ==
  /\ dialog.kind # "none" /\ wrote < MaxSends /\ wrote' = wrote + 1 /\ sent' = sent + 1
  /\ saves' = saves \union {[n |-> sent + 1, kind |-> dialog.kind, key |-> dialog.key, value |-> dialog.value]}
  /\ dialog' = (IF dialog.kind \in {"new", "edit"} THEN dialog ELSE NoDialog)
  /\ UNCHANGED <<config, chrome, view, jobs, lost, trouble>>
saveDraft == dialog.kind \in {"new", "edit"} /\ Confirm
runConfirm == dialog.kind \in {"delete", "restart"} /\ Confirm

Done(s) ==
  /\ saves' = saves \ {s}
  /\ \/ /\ config' = (CASE s.kind \in {"new", "edit"} -> Set(config, s.key, s.value)
                        [] s.kind = "delete" -> Unset(config, s.key)
                        [] s.kind = "restart" -> config)
        /\ dialog' = (IF s.kind \in {"new", "edit"} /\ dialog.kind \in {"new", "edit"} THEN NoDialog ELSE dialog)
        /\ IF s.kind = "restart" \/ ~open THEN NoLoad ELSE _load
        /\ UNCHANGED <<lost, trouble>>
     \/ Fail /\ lost' = TRUE /\ NoLoad /\ UNCHANGED <<config, dialog>>
  /\ saving' = (saving /\ ~loading')
  /\ UNCHANGED <<chrome, shown, clock, newest, wrote, jobs>>

------------------------------------------------------------------------------
(* The CORS panel: every control writes what it makes of the snapshot it shows. *)
Panel == open /\ ~loading /\ dialog.kind = "none" /\ wrote < MaxSends
_enabled == Get(shown, "enable_cors") = <<"true">>
_origins == Get(shown, "origins")
_restricted == _enabled /\ _origins # <<>> /\ _origins # <<"*">>
_originList == SelectSeq(_origins, LAMBDA o : o # "*")

run(todo, seeds) ==
  /\ Panel /\ wrote' = wrote + 1 /\ sent' = sent + 1 /\ saving' = TRUE
  /\ jobs' = jobs \union {[n |-> sent + 1, todo |-> todo, seeds |-> seeds, panel |-> panel, origins |-> _origins]}
  /\ UNCHANGED <<config, chrome, shown, loading, reads, panel, clock, newest, dialog, saves, lost,
                 trouble>>
setEnabled ==
  ~saving /\ run(<<<<"enable_cors", IF _enabled THEN <<"false">> ELSE <<"true">>>>>>, ~_enabled)
setMode(mode) ==
  /\ _enabled /\ (mode = "restrict") # _restricted
  /\ run(<<<<"origins", IF mode = "all" THEN <<"*">> ELSE _originList>>>>, FALSE)
addOrigin(o) == _restricted /\ run(<<<<"origins", Append(_originList, o)>>>>, FALSE)
removeOrigin(o) ==
  /\ _restricted /\ o \in ToSet(_originList)
  /\ run(<<<<"origins", SelectSeq(_originList, LAMBDA p : p # o)>>>>, FALSE)

\* The defaults follow the switch, where the panel's snapshot has no origins.
Rest(j) == Tail(j.todo) \o (IF j.seeds /\ j.origins = <<>> THEN Defaults ELSE <<>>)
Connected(j) == open /\ ~loading /\ j.panel = panel

put(j) ==
  \/ /\ config' = Set(config, Head(j.todo)[1], Head(j.todo)[2])
     /\ IF Rest(j) # <<>>
        THEN /\ jobs' = (jobs \ {j}) \union {[j EXCEPT !.todo = Rest(j), !.seeds = FALSE]}
             /\ NoLoad /\ UNCHANGED <<lost, saving>>
        ELSE /\ jobs' = jobs \ {j} /\ saving' = (saving /\ ~Connected(j)) /\ lost' = (lost \/ ~Connected(j))
             /\ IF Connected(j) THEN _load ELSE NoLoad
     /\ UNCHANGED <<chrome, shown, clock, newest, wrote, dialog, saves, trouble>>
  \/ /\ Fail /\ lost' = TRUE /\ jobs' = jobs \ {j} /\ saving' = (saving /\ j.panel # panel)
     /\ NoLoad /\ UNCHANGED <<config, chrome, shown, clock, newest, wrote, dialog, saves>>

------------------------------------------------------------------------------
Next ==
  \/ _probeClusterSize \/ disconnectedCallback
  \/ \E r \in reads : Answer(r) \/ _loaded(r)
  \/ openNew \/ _askRestart \/ \E key \in Edited : _openEdit(key) \/ _askDelete(key)
  \/ \E key \in Edited, value \in Values : _updateDraft(key, value)
  \/ Cancel \/ saveDraft \/ runConfirm \/ \E s \in saves : Done(s)
  \/ setEnabled \/ \E mode \in {"all", "restrict"} : setMode(mode)
  \/ \E o \in Origins : addOrigin(o) \/ removeOrigin(o)
  \/ \E j \in jobs : put(j)

Spec == Init /\ [][Next]_vars

------------------------------------------------------------------------------
(* cca-config.ts: the header, which is everybody's, has this screen's actions as long as   *)
(* the screen is there and no longer, whenever the probe of the cluster is answered; the    *)
(* comparison is offered where there is something to compare.                               *)
HeaderBelongsToTheScreen ==
  /\ ~open => header = {}
  /\ open => header = Actions(nodes)
  /\ "compare" \in header => nodes = "many"

(* cca-config.ts: the spinner that stands for the tabs is never there for nothing. *)
SpinnerEnds == loading => reads # {}

(* cca-config.ts, cca-config-cors.ts: once everything is answered the screen shows what    *)
(* CouchDB has, whatever was saved and read at the same time - unless an older read        *)
(* overtook a newer one, or a panel's request was answered when that panel was gone.        *)
SettledScreenIsTheServers ==
  (open /\ ~lost /\ reads = {} /\ saves = {} /\ jobs = {}) => shown = config

(* cca-config-cors.ts: neither adding an origin nor switching CORS on ("seeds the standard  *)
(* `cors.*` defaults on first enable") takes an origin away.  Both do: the second of two     *)
(* origins added before the first was read back, and the switch after a read that failed,    *)
(* which looks like a configuration without origins.                                          *)
OriginsSurviveStep ==
  \A j \in jobs \ jobs' : (j.todo[1][1] = "origins" /\ Len(j.todo[1][2]) > Len(j.origins)) =>
    ToSet(Get(config, "origins")) \ {"*"} \subseteq ToSet(Get(config', "origins"))
OriginsSurvive == [][OriginsSurviveStep]_vars

(* cca-config-cors.ts: "All-domains (`*`) vs a restricted origin list" - the list that is   *)
(* restricted is shown as restricted.  An empty one is shown as all domains.                 *)
RestrictedIsShown == (_enabled /\ _origins # <<"*">>) => _restricted
===============================================================================
