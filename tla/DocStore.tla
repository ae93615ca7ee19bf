------------------------------- MODULE DocStore -------------------------------
(* What CouchCompanionStore promises to its callers, without its requests: a     *)
(* store of documents that others also write.  An operation is open for a while, *)
(* takes effect at most once, and what it reports was true at some moment no     *)
(* earlier than the question ("is the database missing?") its tab had            *)
(* outstanding when it asked.                                                    *)
EXTENDS FiniteSets, Naturals

CONSTANTS Ids, Tabs, Calls, TabOf, Absent, Other

VARIABLES
  docs,      \* what each document holds: the call that wrote it, Other or Absent
  seen,      \* for each open call, the contents of the store it may speak of
  past,      \* for each tab, the contents since its outstanding question
  open,      \* the calls that are running
  landed,    \* the calls that have changed the store
  ended,     \* how each call ended: op, ids, res, val
  faults     \* lost requests and dropped databases so far

vars == <<docs, seen, past, open, landed, ended, faults>>

(* Every open call, and every outstanding question, sees each new content. *)
Becomes(d) ==
  /\ docs' = d
  /\ seen' = [c \in Calls |-> IF c \in open THEN seen[c] \union {d} ELSE seen[c]]
  /\ past' = [t \in Tabs |-> IF past[t] = {} THEN {} ELSE past[t] \union {d}]

Changed(c, ids) == \E i \in ids : \E s1, s2 \in seen[c] : s1[i] # s2[i]

(* What a report may say: a read returns what was there, a write has landed, a    *)
(* removal found every document gone, a conflict means somebody else wrote, and   *)
(* only a fault of the network or a dropped database makes a call fail.           *)
True(c, e) ==
  /\ e.res \in {"ok", "conflict", "failed"}
  /\ e.res = "failed" => faults > 0
  /\ e.res = "conflict" => Changed(c, e.ids)
  /\ (e.res = "ok" /\ e.op = "get") =>
       \A i \in e.ids : \E s \in seen[c] : e.val[i] = s[i]
  /\ (e.res = "ok" /\ e.op = "list") => e.val \in seen[c]
  /\ (e.res = "ok" /\ e.op = "put") => c \in landed
  /\ (e.res = "ok" /\ e.op \in {"remove", "removeAll"}) =>
       \A i \in e.ids : \E s \in seen[c] : s[i] = Absent

Init ==
  /\ docs \in [Ids -> {Absent, Other}]
  /\ seen = [c \in Calls |-> {}]
  /\ past = [t \in Tabs |-> {}]
  /\ open = {} /\ landed = {} /\ faults = 0
  /\ ended = [c \in Calls |-> [op |-> "none"]]

Asks(t) == past' = [past EXCEPT ![t] = {docs}]

Begin(c) ==
  /\ c \notin open /\ ended[c].op = "none"
  /\ open' = open \union {c}
  /\ seen' = [seen EXCEPT ![c] = {docs} \union past[TabOf[c]]]
  /\ IF past[TabOf[c]] = {} THEN past' = past \/ Asks(TabOf[c]) ELSE past' = past
  /\ UNCHANGED <<docs, landed, ended, faults>>

(* The calls in C end, and what each says is true; the tab's question may be      *)
(* settled at that moment, and another asked; a call that goes on may from then   *)
(* on speak of what the question saw.                                             *)
End(t, C) ==
  /\ C \subseteq open
  /\ open' = open \ C
  /\ \A c \in Calls : IF c \in C THEN True(c, ended'[c]) ELSE ended'[c] = ended[c]
  /\ past' = past \/ past' = [past EXCEPT ![t] = {}] \/ Asks(t)
  /\ \A c \in Calls : seen'[c] = seen[c]
       \/ (c \in open /\ TabOf[c] = t /\ seen'[c] = seen[c] \union past[t])
       \/ (c \in C /\ seen'[c] = {})
  /\ UNCHANGED <<docs, landed, faults>>

(* A call changes the store once: a put writes its document, a removal takes      *)
(* documents away.                                                                *)
Effect(c) ==
  /\ c \in open \ landed /\ landed' = landed \union {c}
  /\ \/ \E i \in Ids : Becomes([docs EXCEPT ![i] = c])
     \/ \E I \in SUBSET Ids : Becomes([i \in Ids |-> IF i \in I THEN Absent ELSE docs[i]])
  /\ UNCHANGED <<open, ended, faults>>

Others ==
  /\ faults' \in {faults, faults + 1}
  /\ \E I \in SUBSET Ids, v \in {Absent, Other} :
       Becomes([i \in Ids |-> IF i \in I THEN v ELSE docs[i]])
  /\ UNCHANGED <<open, landed, ended>>

Next ==
  \/ \E c \in Calls : Begin(c) \/ Effect(c)
  \/ \E t \in Tabs : \E C \in SUBSET Calls : End(t, C)
  \/ Others

Spec == Init /\ [][Next]_vars
===============================================================================
