----------------------------- MODULE ConfigCompare -----------------------------
(* The configuration of some nodes of the cluster, side by side                     *)
(* (plugins/config/cca-config-compare.ts, its table and picker, compare-model.ts,    *)
(* config-service.ts, membership-service.ts), for one option: each node is read by    *)
(* itself, a value is edited on one node or copied to the others, and what was        *)
(* written is read again.                                                             *)
EXTENDS Naturals, FiniteSets

CONSTANTS
  Nodes, Values,
  Initial,       \* what the nodes may hold first
  Absent,        \* the option is not set
  Failed,        \* the node did not answer
  MIN_NODES, MAX_NODES,
  None,
  MaxLoads,      \* bound: loads under way
  MaxWrites,     \* bound: edits and copies
  MaxOthers      \* bound: changes somebody else makes, and nodes that go down or come up

VARIABLES
  config, up,    \* the cluster: what each node holds, and the nodes that answer
  nodes,         \* _nodes, from the address
  columns,       \* _columns: node |-> [error, reachable]
  configs,       \* _configs: node |-> its option, for the nodes that were read
  table,         \* _model: [cells, differs, rows]
  checked,       \* the picker: the nodes ticked, or None while it is closed
  edit, copy,    \* the two dialogs
  loads, writes, \* loads, and edits or copies, under way
  written, others,
  settled        \* history: nodes shown as they were when last read, see Quiet

vars == <<config, up, nodes, columns, configs, table, checked, edit, copy, loads, writes,
          written, others, settled>>
cluster == <<config, up, others>>
screen == <<columns, configs, table>>

Held == Values \union {Absent}
Partial(S) == UNION {[D -> S] : D \in SUBSET Nodes}
Put(f, n, v) == [m \in DOMAIN f \union {n} |-> IF m = n THEN v ELSE f[m]]

-------------------------------------------------------------------------------
(* buildCompareModel: the cells of the columns, a row for an option that some node read *)
(* has, and whether it differs.                                                          *)
Cell(cs, n) == IF n \in DOMAIN cs THEN cs[n] ELSE Absent
HasRow(cs) == \E n \in DOMAIN cs : cs[n] # Absent
First(cols) == CHOOSE n \in DOMAIN cols : TRUE
computeDiffers(cols, cs) ==
  DOMAIN cols = {} \/ Cell(cs, First(cols)) = Absent \/ \E n \in DOMAIN cols : Cell(cs, n) # Cell(cs, First(cols))
buildCompareModel(cols, cs) ==
  [cells |-> [n \in DOMAIN cols |-> Cell(cs, n)], row |-> HasRow(cs),
   differs |-> HasRow(cs) /\ computeDiffers(cols, cs)]
Empty == [n \in {} |-> Absent]
EMPTY_MODEL == [cells |-> Empty, row |-> FALSE, differs |-> FALSE]

TypeOK ==
  /\ config \in [Nodes -> Held] /\ up \subseteq Nodes /\ nodes \subseteq Nodes
  /\ columns \in Partial([error : BOOLEAN, reachable : BOOLEAN]) /\ configs \in Partial(Held)
  /\ table.cells \in Partial(Held) /\ checked \in (SUBSET Nodes) \union {None}
  /\ edit \in Nodes \union {None} /\ (copy # None => copy.source \in Nodes)
  /\ \A o \in loads : o.nodes \subseteq Nodes /\ o.got \in Partial(Held \union {Failed})
  /\ \A w \in writes : w.pc \in {"put", "read"} /\ w.left \subseteq Nodes

-------------------------------------------------------------------------------
StartLoad(ns) ==
  IF Cardinality(ns) < 2
  THEN columns' = Empty /\ configs' = Empty /\ table' = EMPTY_MODEL /\ UNCHANGED loads
  ELSE /\ Cardinality(loads) < MaxLoads /\ loads' = loads \union {[nodes |-> ns, got |-> Empty, live |-> {}]}
       /\ UNCHANGED screen

Init ==
  /\ config \in Initial /\ up = Nodes /\ nodes \in {S \in SUBSET Nodes : Cardinality(S) \in {0, 2}}
  /\ columns = Empty /\ configs = Empty /\ table = EMPTY_MODEL /\ checked = None
  /\ edit = None /\ copy = None /\ writes = {} /\ written = 0 /\ others = 0 /\ settled = TRUE
  /\ loads = IF nodes = {} THEN {} ELSE {[nodes |-> nodes, got |-> Empty, live |-> {}]}

Free == checked = None /\ edit = None /\ copy = None
Loading == loads # {}

(* Somebody else. *)
Elsewhere == others < MaxOthers /\ others' = others + 1
OtherSets(n) ==
  /\ Elsewhere /\ \E v \in Held \ {config[n]} : config' = [config EXCEPT ![n] = v]
  /\ settled' = FALSE
  /\ UNCHANGED <<up, nodes, screen, checked, edit, copy, loads, writes, written>>
GoesDownOrUp(n) ==
  /\ Elsewhere /\ up' = IF n \in up THEN up \ {n} ELSE up \union {n}
  /\ UNCHANGED <<config, nodes, screen, checked, edit, copy, loads, writes, written, settled>>

-------------------------------------------------------------------------------
(* The picker, which navigates; the screen loads when the address names other nodes.    *)

OpenPicker ==
  /\ Free /\ checked' = nodes
  /\ UNCHANGED <<cluster, nodes, screen, edit, copy, loads, writes, written, settled>>
Toggle(n) ==
  /\ checked # None /\ (n \in checked \/ Cardinality(checked) < MAX_NODES)
  /\ checked' = IF n \in checked THEN checked \ {n} ELSE checked \union {n}
  /\ UNCHANGED <<cluster, nodes, screen, edit, copy, loads, writes, written, settled>>
Cancel ==
  /\ ~Free /\ checked' = None /\ edit' = None /\ copy' = None
  /\ UNCHANGED <<cluster, nodes, screen, loads, writes, written, settled>>
Navigate(ns) ==
  /\ nodes' = ns
  /\ IF ns = nodes THEN UNCHANGED <<screen, loads, settled>>
     ELSE StartLoad(ns) /\ settled' = (loads = {} /\ writes = {})
ConfirmPicker ==
  /\ checked # None /\ Cardinality(checked) \in MIN_NODES..MAX_NODES
  /\ checked' = None /\ Navigate(checked)
  /\ UNCHANGED <<cluster, edit, copy, writes, written>>
(* The address, typed or from the history. *)
OnRouteChange ==
  /\ \E ns \in SUBSET Nodes : ns # nodes /\ Navigate(ns)
  /\ UNCHANGED <<cluster, checked, edit, copy, writes, written>>

-------------------------------------------------------------------------------
(* _load: the nodes answer one by one; the last of them, and the membership, build the   *)
(* table of the nodes this load was for.                                                 *)

Answer(n) == IF n \in up THEN config[n] ELSE Failed
ReadNode(o, n) ==
  /\ n \in o.nodes \ DOMAIN o.got
  /\ loads' = (loads \ {o}) \union {[o EXCEPT !.got = Put(o.got, n, Answer(n)), !.live = up]}
  /\ UNCHANGED <<cluster, nodes, screen, checked, edit, copy, writes, written, settled>>
Loaded(o) ==
  LET good == {n \in o.nodes : o.got[n] # Failed}
      cols == [n \in o.nodes |-> [error |-> n \notin good, reachable |-> n \in o.live]]
      cs   == [n \in good |-> o.got[n]]
  IN /\ DOMAIN o.got = o.nodes /\ loads' = loads \ {o}
     /\ columns' = cols /\ configs' = cs /\ table' = buildCompareModel(cols, cs)
     /\ UNCHANGED <<cluster, nodes, checked, edit, copy, writes, written, settled>>

-------------------------------------------------------------------------------
(* The dialogs, from the cells of the table.                                             *)

Cells == table.cells
OpenEdit(n) ==
  /\ Free /\ ~Loading /\ table.row /\ n \in DOMAIN Cells /\ edit' = n
  /\ UNCHANGED <<cluster, nodes, screen, checked, copy, loads, writes, written, settled>>
OpenCopy(n) ==
  /\ Free /\ ~Loading /\ table.row /\ n \in DOMAIN Cells /\ Cells[n] # Absent
  /\ copy' = [source |-> n, value |-> Cells[n]]
  /\ UNCHANGED <<cluster, nodes, screen, checked, edit, loads, writes, written, settled>>

Begin(w) == written < MaxWrites /\ written' = written + 1 /\ writes' = writes \union {w}
Becomes(w, next) == writes' = (writes \ {w}) \union {next}
(* Two operations of the screen at once: see Read. *)
Alone == loads = {} /\ writes = {}
(* The dialog of an edit closes with the answer, and stays open when that is a failure.    *)
saveEdit(v) ==
  /\ edit # None /\ settled' = (settled /\ Alone)
  /\ Begin([pc |-> "put", copied |-> FALSE, value |-> v, left |-> {edit}, touched |-> {}, base |-> None])
  /\ UNCHANGED <<cluster, nodes, screen, checked, edit, copy, loads>>
confirmCopy ==
  /\ copy # None /\ copy' = None /\ settled' = (settled /\ Alone)
  /\ Begin([pc |-> "put", copied |-> TRUE, value |-> copy.value, left |-> DOMAIN columns \ {copy.source},
            touched |-> {}, base |-> None])
  /\ UNCHANGED <<cluster, nodes, screen, checked, edit, loads>>

(* The writes, one node after the other; one that fails is counted, and left as it was.   *)
Write(w, n) ==
  /\ w.pc = "put" /\ n \in w.left /\ n \in up /\ config' = [config EXCEPT ![n] = w.value]
  /\ Becomes(w, [w EXCEPT !.left = @ \ {n}, !.touched = @ \union {n}])
  /\ edit' = IF w.copied THEN edit ELSE None
  /\ UNCHANGED <<up, others, nodes, screen, checked, copy, loads, written, settled>>
WriteFails(w, n) ==
  /\ w.pc = "put" /\ n \in w.left /\ n \notin up /\ Becomes(w, [w EXCEPT !.left = @ \ {n}])
  /\ UNCHANGED <<cluster, nodes, screen, checked, edit, copy, loads, written, settled>>
Written(w) ==
  /\ w.pc = "put" /\ w.left = {} /\ Becomes(w, [w EXCEPT !.pc = "read", !.left = w.touched])
  /\ UNCHANGED <<cluster, nodes, screen, checked, edit, copy, loads, written, settled>>

(* What was written is read again.  The copy puts the answer into the configurations as   *)
(* they were when the request left; the edit, into those of now.                          *)
Ask(w) ==
  /\ w.pc = "read" /\ w.left # {} /\ w.base = None /\ Becomes(w, [w EXCEPT !.base = configs])
  /\ UNCHANGED <<cluster, nodes, screen, checked, edit, copy, loads, written, settled>>
NoError(n) == [m \in DOMAIN columns |-> IF m = n THEN [columns[m] EXCEPT !.error = FALSE] ELSE columns[m]]
Read(w, n) ==
  /\ w.base # None /\ n \in w.left /\ Becomes(w, [w EXCEPT !.left = @ \ {n}, !.base = None])
  /\ IF n \in up
     THEN /\ configs' = Put(IF w.copied THEN w.base ELSE configs, n, config[n])
          /\ columns' = NoError(n)
          /\ table' = IF w.copied THEN table ELSE buildCompareModel(columns', configs')
          /\ UNCHANGED settled
     ELSE settled' = FALSE /\ UNCHANGED screen
  /\ UNCHANGED <<cluster, nodes, checked, edit, copy, loads, written>>
WriteDone(w) ==
  /\ w.pc = "read" /\ w.left = {} /\ writes' = writes \ {w}
  /\ table' = IF w.copied THEN buildCompareModel(columns, configs) ELSE table
  /\ UNCHANGED <<cluster, nodes, columns, configs, checked, edit, copy, loads, written, settled>>

Next ==
  \/ \E n \in Nodes : OtherSets(n) \/ GoesDownOrUp(n) \/ Toggle(n) \/ OpenEdit(n) \/ OpenCopy(n)
  \/ OpenPicker \/ Cancel \/ ConfirmPicker \/ OnRouteChange \/ confirmCopy
  \/ \E o \in loads : Loaded(o) \/ \E n \in o.nodes : ReadNode(o, n)
  \/ \E v \in Values : saveEdit(v)
  \/ \E w \in writes : Written(w) \/ Ask(w) \/ WriteDone(w)
                       \/ \E n \in w.left : Write(w, n) \/ WriteFails(w, n) \/ Read(w, n)

Spec == Init /\ [][Next]_vars

-------------------------------------------------------------------------------
(* When nothing is under way the table has a column for each node of the address, with   *)
(* what that node holds, and an option is marked as differing exactly when the nodes do   *)
(* not all hold one and the same value - unless somebody else changed a node since, one    *)
(* went down before what was written to it was read again, or the screen did two things     *)
(* at once.                                                                                 *)
NoPretendedAgreement ==
  (loads = {} /\ writes = {} /\ settled /\ nodes # {}) =>
    /\ DOMAIN table.cells = IF Cardinality(nodes) < 2 THEN {} ELSE nodes
    /\ \A n \in DOMAIN table.cells : ~columns[n].error => table.cells[n] = config[n]
    /\ (table.row /\ ~table.differs) => \A m, n \in nodes : config[m] = config[n] /\ config[n] # Absent
    /\ (~table.row) => \A n \in DOMAIN table.cells : columns[n].error \/ config[n] = Absent
===============================================================================
