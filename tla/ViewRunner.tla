----------------------------- MODULE ViewRunner -----------------------------
(***************************************************************************)
(* Trying a view on sample documents in the browser: runMapReduce and      *)
(* applyReduce (src/src/services/view-runner.ts), and the host that runs   *)
(* them in a worker against a timeout, or in the page when there is no     *)
(* Worker (src/src/services/view-runner-host.ts).                          *)
(*                                                                         *)
(* What a map function does to a document is data: the rows it emits, and  *)
(* whether it throws after them.  Keys and values are small integers; a    *)
(* value of Text is one that is not a number.                              *)
(***************************************************************************)
EXTENDS Integers, Sequences, FiniteSets, SequencesExt

CONSTANTS
  Keys,          \* the keys a map function emits
  Values,        \* the numbers it emits
  Text,          \* a value that is no number
  MaxDocs,       \* bound: sample documents
  MaxEmits,      \* bound: rows a document emits
  FALLBACK_MAX_DOCS

VARIABLES
  docs, reduce,  \* the request
  worker,        \* "none", "running", "posted" its answer, "terminated"
  timer,         \* "off", "set" or "cleared"
  pc,            \* "idle", "waiting", "settled"
  answers,       \* how often the promise was resolved
  result         \* the RunResult it was first resolved with

vars == <<docs, reduce, worker, timer, pc, answers, result>>

Vals == Values \cup {Text}
Doc  == [emits : BoundedSeq(Keys \X Vals, MaxEmits), throws : BOOLEAN]
\* The reduce field: no reduce, the builtins that are simulated, one that is
\* not ("_first"), a custom function, one that throws.
Reduces == {"", "_count", "_sum", "_first", "custom", "broken"}

-----------------------------------------------------------------------------
(* view-runner.ts: rows, groups, reduce.                                   *)

Row(d, i, n) == [key |-> d.emits[n][1], value |-> d.emits[n][2], id |-> i]

\* emit() pushes at once, so what a document emitted before it threw stays.
RowsOf(ds) == FoldLeftDomain(
  LAMBDA rows, i : rows \o [n \in DOMAIN ds[i].emits |-> Row(ds[i], i, n)],
  <<>>, ds)

\* Array.prototype.sort is stable: the rows of a key stay in emission order.
ByKey(a, b) == a.key < b.key

Sorted(rows) == LET Before(i, j) == \/ ByKey(rows[i], rows[j])
                                    \/ ~ByKey(rows[j], rows[i]) /\ i < j
                    at == SetToSortSeq(DOMAIN rows, Before)
                IN  [n \in DOMAIN rows |-> rows[at[n]]]

\* groupRowsByKey, its groups sorted by key.
Groups(rows) == LET keys == {rows[n].key : n \in DOMAIN rows}
                    at   == SetToSortSeq(keys, <)
                IN  [g \in DOMAIN at |->
                       SelectSeq(rows, LAMBDA row : row.key = at[g])]

SumOf(group) == FoldLeft(
  LAMBDA acc, row : IF row.value \in Values THEN acc + row.value ELSE acc,
  0, group)

Reduced(group, red) ==
  [key |-> Head(group).key, id |-> 0,
   value |-> IF red = "_sum" THEN SumOf(group) ELSE Len(group)]

Ok(rows) == [rows |-> rows, error |-> "none"]
Bad(rows, error) == [rows |-> rows, error |-> error]

\* A reduce that cannot be run hides nothing: the map's rows come back.  The
\* custom function stands for any: it counts what it is given.
ApplyReduce(rows, red) ==
  CASE red = "_first" -> Bad(rows, "not simulated")
    [] red = "broken" /\ rows # <<>> -> Bad(rows, "reduce threw")
    [] OTHER -> Ok([g \in DOMAIN Groups(rows) |-> Reduced(Groups(rows)[g], red)])

RunMapReduce(ds, red) ==
  LET rows == Sorted(RowsOf(ds))
  IN  CASE \E i \in DOMAIN ds : ds[i].throws -> Bad(rows, "map threw")
        [] red = "" -> Ok(rows)
        [] OTHER -> ApplyReduce(rows, red)

-----------------------------------------------------------------------------
(* view-runner-host.ts.                                                    *)

Limited(ds) == SubSeq(ds, 1, IF Len(ds) > FALLBACK_MAX_DOCS
                             THEN FALLBACK_MAX_DOCS ELSE Len(ds))

InPage(ds, red) ==
  LET res == RunMapReduce(Limited(ds), red)
  IN  IF Len(ds) <= FALLBACK_MAX_DOCS THEN res ELSE [res EXCEPT !.error = "capped"]

Nothing == [rows |-> <<>>, error |-> "unanswered"]

TypeOK ==
  /\ docs \in Seq(Doc) /\ reduce \in Reduces
  /\ worker \in {"none", "running", "posted", "terminated"}
  /\ timer \in {"off", "set", "cleared"}
  /\ pc \in {"idle", "waiting", "settled"}
  /\ answers \in 0 .. 2
  /\ result.rows \in Seq([key : Keys, value : Nat, id : Nat]) /\ result.error \in STRING

Init ==
  /\ docs \in BoundedSeq(Doc, MaxDocs) /\ reduce \in Reduces
  /\ worker = "none" /\ timer = "off" /\ pc = "idle"
  /\ answers = 0 /\ result = Nothing

Request == UNCHANGED <<docs, reduce>>

\* runInPage, where there is no Worker.
RunInPage ==
  /\ pc = "idle" /\ pc' = "settled"
  /\ result' = InPage(docs, reduce) /\ answers' = answers + 1
  /\ Request /\ UNCHANGED <<worker, timer>>

\* runInWorker: the constructor may throw before anything is set up.
NoStart ==
  /\ pc = "idle" /\ pc' = "settled"
  /\ result' = Bad(<<>>, "no worker") /\ answers' = answers + 1
  /\ Request /\ UNCHANGED <<worker, timer>>

Start ==
  /\ pc = "idle" /\ pc' = "waiting"
  /\ worker' = "running" /\ timer' = "set"
  /\ Request /\ UNCHANGED <<answers, result>>

\* if (settled) return
Fresh == pc = "waiting"

\* finish: the first to come settles; clears, terminates, resolves.
Finish(res) ==
  IF Fresh
  THEN /\ pc' = "settled" /\ timer' = "cleared" /\ worker' = "terminated"
       /\ answers' = answers + 1
       /\ result' = IF answers = 0 THEN res ELSE result
  ELSE UNCHANGED <<pc, timer, worker, answers, result>>

\* The worker has computed its answer; the message is a task of the page's.
Compute ==
  /\ worker = "running" /\ worker' = "posted"
  /\ Request /\ UNCHANGED <<timer, pc, answers, result>>

\* worker.onmessage.  terminate() does not take back a message that was
\* posted, so it may arrive after the run was settled.
OnMessage ==
  /\ worker \in {"posted", "terminated"} /\ answers < 2
  /\ Finish(RunMapReduce(docs, reduce)) /\ Request

\* worker.onerror, or postMessage throwing.
OnError ==
  /\ worker = "running"
  /\ Finish(Bad(<<>>, "worker error")) /\ Request

OnTimeout ==
  /\ timer = "set"
  /\ Finish(Bad(<<>>, "timed out")) /\ Request

Done == pc = "settled" /\ UNCHANGED vars

Next ==
  \/ RunInPage \/ NoStart \/ Start \/ Compute
  \/ OnMessage \/ OnError \/ OnTimeout \/ Done

\* A timer that is set fires.
Fairness == WF_vars(OnTimeout)

Spec == Init /\ [][Next]_vars /\ Fairness

-----------------------------------------------------------------------------
\* A run is answered once: not by the timeout and then by a worker that was
\* slow, and once it is answered neither timer nor worker is left behind.
AnsweredOnce ==
  /\ answers = (IF pc = "settled" THEN 1 ELSE 0)
  /\ pc = "settled" => timer # "set" /\ worker \notin {"running", "posted"}

\* A run that reports no error is the view of those documents: sorted by
\* key, one row per emission, or per key when there is a reduce, and a count
\* or a sum that accounts for every row emitted.
Emitted == {p \in (DOMAIN docs) \X (1 .. MaxEmits) : p[2] \in DOMAIN docs[p[1]].emits}
EmittedFor(k) == {p \in Emitted : docs[p[1]].emits[p[2]][1] = k}
AnswerIsTheView ==
  result.error = "none" =>
    LET rows == result.rows
    IN  /\ \A m, n \in DOMAIN rows : m < n => rows[m].key <= rows[n].key
        /\ reduce = "" => Len(rows) = Cardinality(Emitted)
        /\ reduce # "" =>
             /\ {rows[n].key : n \in DOMAIN rows} =
                  {docs[p[1]].emits[p[2]][1] : p \in Emitted}
             /\ \A m, n \in DOMAIN rows : rows[m].key = rows[n].key => m = n
        /\ reduce = "_count" => \A n \in DOMAIN rows :
             rows[n].value = Cardinality(EmittedFor(rows[n].key))

\* A run that was started is answered, an endless loop included.
RunSettles == pc = "waiting" ~> pc = "settled"
=============================================================================
