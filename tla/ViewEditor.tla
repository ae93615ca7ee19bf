------------------------------ MODULE ViewEditor ------------------------------
(* The design-document editor (plugins/design-mgmt/view-editor.ts): the document   *)
(* being edited, in the structured view or as raw JSON; saves that go on to a sync   *)
(* and a reload while the editor stays open for typing; the quick test.  Somebody     *)
(* else may save the document too.  A request is served when its answer lands.        *)
EXTENDS Naturals, FiniteSets

CONSTANTS
  Names, None,
  New,          \* the name handleAddFunction gives
  MaxEdits,     \* bound: changes to the document in the editor
  MaxSaves,     \* bound: saves started
  MaxTrouble    \* bound: saves by somebody else and failed requests

VARIABLES
  stored,       \* the document in CouchDB: its revision (0: none) and its functions
  ddoc, fresh,  \* the document in the editor; it has no name in CouchDB yet (_new)
  name, tab,    \* selectedName, activeTab
  raw, broken,  \* rawMode; the raw text does not parse
  dirty, failed,            \* _dirty, saveError
  canWrite, mayWrite,       \* canWriteDb and the answer that is to come (None: it came)
  loading,      \* the first load of the document is in flight
  saves,        \* the saves in flight
  quick, testing,           \* the test result shown, the one in flight
  edits, trouble,
  known,        \* history: the functions last loaded or saved from here
  loaded,       \* history: what was loaded with the revision the editor holds
  midway,       \* history: the document was changed here while a request was in flight
  overtaken     \* history: the function was changed under a test, or by the reduce picker

vars == <<stored, ddoc, fresh, name, tab, raw, broken, dirty, failed, canWrite, mayWrite, loading,
          saves, quick, testing, edits, trouble, known, loaded, midway, overtaken>>
rights == <<canWrite, mayWrite>>
history == <<known, loaded, midway, overtaken>>

Slots == 1..MaxSaves
Reduces == {"none", "custom"}       \* none or built in; a function of its own
Sources == [map : 0..MaxEdits, reduce : Reduces]
Stub == [map |-> 0, reduce |-> "none"]
NoFns == [n \in {} |-> Stub]
NoSave == [st |-> "none", rev |-> 0, fns |-> NoFns, name |-> None]
Tested(f, n) == [name |-> n, src |-> f[n]]
NoTest == [name |-> None, src |-> Stub]

Functions(fns) == DOMAIN fns \subseteq Names /\ \A n \in DOMAIN fns : fns[n] \in Sources
TypeOK ==
  /\ stored.rev \in Nat /\ Functions(stored.fns) /\ ddoc.rev \in Nat /\ Functions(ddoc.fns)
  /\ fresh \in BOOLEAN /\ name \in Names \union {None} /\ tab \in {"map", "reduce"}
  /\ raw \in BOOLEAN /\ (broken => raw) /\ dirty \in BOOLEAN /\ failed \in BOOLEAN
  /\ canWrite \in BOOLEAN /\ mayWrite \in BOOLEAN \union {None} /\ loading \in BOOLEAN
  /\ \A s \in Slots : saves[s].st \in {"none", "put", "sync", "load", "over"}
  /\ edits \in 0..MaxEdits /\ trouble \in 0..MaxTrouble /\ Functions(known)

Init ==
  /\ fresh \in BOOLEAN /\ loading = ~fresh
  /\ stored = IF fresh THEN [rev |-> 0, fns |-> NoFns] ELSE [rev |-> 1, fns |-> [n \in Names \ {New} |-> Stub]]
  /\ ddoc = [rev |-> 0, fns |-> NoFns] /\ name = None /\ tab = "map" /\ raw = FALSE /\ broken = FALSE
  /\ dirty = FALSE /\ failed = FALSE /\ canWrite = FALSE /\ mayWrite \in BOOLEAN
  /\ saves = [s \in Slots |-> NoSave] /\ quick = NoTest /\ testing = NoTest
  /\ edits = 0 /\ trouble = 0 /\ known = NoFns /\ loaded = stored.fns /\ midway = FALSE /\ overtaken = FALSE

InFlight == loading \/ \E s \in Slots : saves[s].st \in {"put", "sync", "load"}

-------------------------------------------------------------------------------
(* Changing the document.  Every change marks it dirty.                          *)

(* willUpdate: another function on the screen starts on its map, without a result. *)
Select(n) == name' = n /\ IF n = name THEN UNCHANGED <<tab, quick>> ELSE tab' = "map" /\ quick' = NoTest

Touch_Quiet == edits < MaxEdits /\ edits' = edits + 1 /\ midway' = (midway \/ InFlight) /\ dirty' = dirty
Touch == edits < MaxEdits /\ edits' = edits + 1 /\ midway' = (midway \/ InFlight) /\ dirty' = TRUE
Change(fns) == ddoc' = [ddoc EXCEPT !.fns = fns] /\ Touch
Still == UNCHANGED <<stored, fresh, rights, loading, saves, trouble, failed, testing, known, loaded>>
Overtake == overtaken' = (overtaken \/ testing # NoTest)
Structured == ~raw /\ name # None

(* setFnSource: the result shown was for the previous source.                      *)
Result == NoTest
Type ==
  /\ Structured /\ canWrite /\ name \in DOMAIN ddoc.fns
  /\ Change([ddoc.fns EXCEPT ![name] = IF tab = "reduce" THEN [@ EXCEPT !.reduce = "custom"]
                                       ELSE [@ EXCEPT !.map = edits + 1]])
  /\ quick' = Result /\ Overtake /\ UNCHANGED <<name, tab, raw, broken>> /\ Still

(* The reduce picker is there for a reader too, and leaves the result where it is.  *)
PickReduce ==
  /\ Structured /\ name \in DOMAIN ddoc.fns
  /\ \E r \in Reduces : /\ Change([ddoc.fns EXCEPT ![name].reduce = r])
                        /\ tab' = IF r = "custom" THEN "reduce" ELSE tab
  /\ overtaken' = TRUE /\ UNCHANGED <<name, raw, broken, quick>> /\ Still

(* A name that is taken: one of the two functions is gone. *)
Rename ==
  /\ Structured /\ canWrite /\ name \in DOMAIN ddoc.fns
  /\ \E n \in Names \ {name} :
       /\ \E kept \in {name} \union ({n} \intersect DOMAIN ddoc.fns) :
            Change([m \in (DOMAIN ddoc.fns \ {name}) \union {n} |-> IF m = n THEN ddoc.fns[kept] ELSE ddoc.fns[m]])
       /\ Select(n)
  /\ Overtake /\ UNCHANGED <<raw, broken>> /\ Still

AddFunction ==
  /\ canWrite /\ New \notin DOMAIN ddoc.fns
  /\ Change([m \in DOMAIN ddoc.fns \union {New} |-> IF m = New THEN Stub ELSE ddoc.fns[m]])
  /\ Select(New) /\ Overtake /\ UNCHANGED <<raw, broken>> /\ Still

First(fns) == IF DOMAIN fns = {} THEN None ELSE CHOOSE n \in DOMAIN fns : TRUE
DeleteFunction ==
  /\ Structured /\ canWrite /\ name \in DOMAIN ddoc.fns
  /\ LET fns == [m \in DOMAIN ddoc.fns \ {name} |-> ddoc.fns[m]]
     IN Change(fns) /\ name' = First(fns) /\ tab' = "map" /\ quick' = NoTest
  /\ Overtake /\ UNCHANGED <<raw, broken>> /\ Still

SelectFn ==
  /\ \E n \in DOMAIN ddoc.fns \ {name} : Select(n)
  /\ Overtake /\ UNCHANGED <<ddoc, raw, broken, dirty, edits, midway>> /\ Still
SwitchTab ==
  /\ Structured /\ tab' \in {"map", "reduce"} \ {tab}
  /\ UNCHANGED <<ddoc, name, raw, broken, dirty, quick, edits, midway, overtaken>> /\ Still
(* Leaving the raw view leaves text that does not parse behind. *)
ToggleRaw ==
  /\ raw' = ~raw /\ broken' = FALSE
  /\ UNCHANGED <<ddoc, name, tab, dirty, quick, edits, midway, overtaken>> /\ Still
(* handleEditorChange: raw text reaches the document once it parses; it does not       *)
(* touch the test result.                                                              *)
TypeRaw ==
  /\ raw /\ canWrite
  /\ \/ /\ \E n \in DOMAIN ddoc.fns : Change([ddoc.fns EXCEPT ![n].map = edits + 1])
        /\ broken' = FALSE /\ overtaken' = TRUE
     \/ Touch /\ broken' = TRUE /\ UNCHANGED <<ddoc, overtaken>>
  /\ UNCHANGED <<name, tab, raw, quick>> /\ Still

-------------------------------------------------------------------------------
(* Loading.                                                                     *)

Fail == trouble < MaxTrouble /\ trouble' = trouble + 1
LandRights ==
  /\ mayWrite # None /\ mayWrite' = None
  /\ \/ canWrite' = mayWrite /\ UNCHANGED trouble
     \/ Fail /\ canWrite' = FALSE
  /\ UNCHANGED <<stored, ddoc, fresh, name, tab, raw, broken, dirty, failed, loading, saves, quick,
                 testing, edits, history>>

(* loadDesignDoc replaces the document, whatever was typed meanwhile, and selects the *)
(* first function; a reload after a save goes back to the one selected.               *)
Reloaded == stored
LoadDesignDoc(back) ==
  /\ ddoc' = Reloaded /\ dirty' = FALSE /\ known' = stored.fns /\ loaded' = ddoc'.fns /\ midway' = FALSE
  /\ Select(IF back # None THEN back ELSE IF DOMAIN stored.fns = {} THEN name ELSE First(stored.fns))
  /\ overtaken' = (quick' # NoTest \/ testing # NoTest)
KeepDoc == UNCHANGED <<ddoc, dirty, known, loaded, midway, name, tab, quick, overtaken>>

LandFirst ==
  /\ loading /\ loading' = FALSE
  /\ \/ stored.rev # 0 /\ LoadDesignDoc(None) /\ UNCHANGED trouble
     \/ Fail /\ KeepDoc
  /\ UNCHANGED <<stored, fresh, raw, broken, failed, rights, saves, testing, edits>>

-------------------------------------------------------------------------------
(* Saving.  The button stays enabled while a save is in flight.                  *)

Send(s) ==
  /\ saves[s] = NoSave /\ \A t \in Slots : t < s => saves[t] # NoSave
  /\ saves' = [saves EXCEPT ![s] = [st |-> "put", rev |-> ddoc.rev, fns |-> ddoc.fns, name |-> None]]
Save(s) ==
  /\ canWrite
  /\ IF broken THEN failed' = TRUE /\ ~failed /\ UNCHANGED saves ELSE Send(s) /\ UNCHANGED failed
  /\ UNCHANGED <<stored, ddoc, fresh, name, tab, raw, broken, dirty, rights, loading, quick, testing,
                 edits, trouble, history>>

Step(s, st) == saves' = [saves EXCEPT ![s].st = st]
Over(s) == saves' = [saves EXCEPT ![s] = [NoSave EXCEPT !.st = "over"]]
Accepted(s) == saves[s].rev = stored.rev

LandPut(s) ==
  /\ saves[s].st = "put"
  /\ \/ /\ Accepted(s)
        /\ stored' = [rev |-> stored.rev + 1, fns |-> saves[s].fns]
        /\ failed' = FALSE /\ dirty' = FALSE /\ known' = saves[s].fns
        /\ \E st \in {"sync", "load"} :     \* with a repository linked, and the box ticked
             saves' = [saves EXCEPT ![s] = [@ EXCEPT !.st = st, !.name = name]]
        /\ fresh' = (fresh /\ saves'[s].st = "sync") /\ UNCHANGED trouble
     \/ /\ ~Accepted(s) /\ failed' = TRUE /\ Over(s) /\ UNCHANGED <<stored, dirty, known, fresh, trouble>>
     \/ Fail /\ failed' = TRUE /\ Over(s) /\ UNCHANGED <<stored, dirty, known, fresh>>
  /\ UNCHANGED <<ddoc, name, tab, raw, broken, rights, loading, quick, testing, edits, loaded, midway, overtaken>>

(* The sync, with its token prompt, may fail: it is reported, and the reload goes on. *)
LandSync(s) ==
  /\ saves[s].st = "sync" /\ fresh' = FALSE
  /\ saves' = [saves EXCEPT ![s] = [@ EXCEPT !.st = "load", !.name = name]]
  /\ UNCHANGED <<stored, ddoc, name, tab, raw, broken, dirty, failed, rights, loading, quick, testing,
                 edits, trouble, history>>

LandReload(s) ==
  /\ saves[s].st = "load" /\ Over(s)
  /\ \/ LoadDesignDoc(saves[s].name) /\ UNCHANGED trouble
     \/ Fail /\ KeepDoc
  /\ UNCHANGED <<stored, fresh, raw, broken, failed, rights, loading, testing, edits>>

-------------------------------------------------------------------------------
(* The quick test: one at a time; its answer is shown over whatever is selected.  *)

QuickTest ==
  /\ Structured /\ testing = NoTest /\ name \in DOMAIN ddoc.fns
  /\ testing' = Tested(ddoc.fns, name) /\ quick' = NoTest /\ overtaken' = FALSE
  /\ UNCHANGED <<stored, ddoc, fresh, name, tab, raw, broken, dirty, failed, rights, loading, saves,
                 edits, trouble, known, loaded, midway>>
LandTest ==
  /\ testing # NoTest /\ quick' = testing /\ testing' = NoTest
  /\ UNCHANGED <<stored, ddoc, fresh, name, tab, raw, broken, dirty, failed, rights, loading, saves,
                 edits, trouble, history>>

Elsewhere ==
  /\ Fail /\ \E n \in DOMAIN stored.fns :
       stored' = [rev |-> stored.rev + 1, fns |-> [m \in DOMAIN stored.fns \ {n} |-> stored.fns[m]]]
  /\ UNCHANGED <<ddoc, fresh, name, tab, raw, broken, dirty, failed, rights, loading, saves, quick,
                 testing, edits, history>>

Next ==
  \/ Type \/ PickReduce \/ Rename \/ AddFunction \/ DeleteFunction \/ SelectFn \/ SwitchTab
  \/ ToggleRaw \/ TypeRaw \/ LandRights \/ LandFirst
  \/ \E s \in Slots : Save(s) \/ LandPut(s) \/ LandSync(s) \/ LandReload(s)
  \/ QuickTest \/ LandTest \/ Elsewhere

Spec == Init /\ [][Next]_vars

-------------------------------------------------------------------------------
(* The warning on leaving (beforeunload) is honest: when it is off, the editor holds   *)
(* what it loaded or saved last - unless the document was changed while a load or a     *)
(* save was in flight.                                                                  *)
WarnedOfUnsavedWork == (~dirty /\ ~midway) => ddoc.fns = known

(* A save that is accepted replaces what its author was shown: the functions that were  *)
(* loaded with the revision it carries - across saves that overlap, fail, sync and       *)
(* reload, and somebody else's in between.                                               *)
SaveReplacesWhatWasLoadedStep ==
  \A s \in Slots : (saves[s].st = "put" /\ stored'.rev # stored.rev /\ saves'[s].st \in {"sync", "load"}
                    /\ saves[s].rev = ddoc.rev)
    => stored.fns = loaded
SaveReplacesWhatWasLoaded == [][SaveReplacesWhatWasLoadedStep]_vars

(* "Editing the function invalidates the previous quick-test result": the result shown  *)
(* is that of the function on the screen, unless it was changed while the test ran, in    *)
(* the raw view, or by the reduce picker.                                                 *)
ResultIsOfTheFunction ==
  (quick # NoTest /\ ~overtaken) => (name \in DOMAIN ddoc.fns /\ quick = Tested(ddoc.fns, name))
===============================================================================
