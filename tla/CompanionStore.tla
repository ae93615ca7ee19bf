---------------------------- MODULE CompanionStore ----------------------------
(* CouchCompanionStore (services/git/couchcompanion-store.ts): the documents of   *)
(* the couchcompanion database, request by request.  The database need not exist: *)
(* a server admin's tab asks first whether it is missing, in one lookup shared by *)
(* every call that asks while it runs, and remembers "exists"; everybody else     *)
(* finds out by a 404.  Other tabs and other admins create, write and drop it     *)
(* between any two requests.                                                      *)
(*                                                                                *)
(* A document's content is the call that wrote it, which also is its revision.    *)
EXTENDS FiniteSets, Naturals

CONSTANTS
  Ids,          \* document ids
  Pages, Calls,
  TabOf,        \* the tab each call is made in
  Admins,       \* the tabs whose session may list databases (canListDatabases)
  OpsOf,        \* what each call may be: pairs of an operation and its documents
  Absent, Other,
  MaxLosses     \* bound: lost requests, dropped databases and writes by somebody else

(* A call about no document sends nothing, and is none. *)
ASSUME StoreAssumption ==
  /\ TabOf \in [Calls -> Pages]
  /\ Absent # Other /\ Absent \notin Calls /\ Other \notin Calls
  /\ \A c \in Calls : \A o \in OpsOf[c] :
       \/ o \in {"get", "put", "remove"} \X {{i} : i \in Ids}
       \/ o \in {"list", "removeAll"} \X ((SUBSET Ids) \ {{}})

VARIABLES
  db, docs,     \* the server: does the database exist, what each document holds
  exists,       \* per tab: the database is known to exist
  lookup,       \* per tab: the _all_dbs request in flight and its answer
  call,         \* the calls
  seen, past, landed,   \* history: see DocStore
  faults, foreign

Trouble == faults + foreign < MaxLosses
server == <<db, docs, seen, past>>
storeVars == <<db, docs, exists, lookup, call, seen, past, landed, faults, foreign>>

Nothing == [i \in Ids |-> Absent]
Idle == [op |-> "none", ids |-> {}, pc |-> "idle", rev |-> Nothing, reply |-> "none",
         body |-> Nothing, res |-> "none"]

(* The requests a call can be waiting for, and the two places where it waits for  *)
(* the lookup: at its start, and in the get of a put.                             *)
Reads == {"get", "scan", "revs"}
Writes == {"put", "retry", "delete", "bulk", "ensure", "ensureAgain"}
Asking == {"ask", "askAgain"}
Opened == {c \in Calls : call[c].pc \notin {"idle", "done"}}

CallType == [op : {"none", "get", "list", "put", "remove", "removeAll"}, ids : SUBSET Ids,
             pc : Reads \union Writes \union Asking \union {"idle", "done"},
             rev : [Ids -> Calls \union {Absent, Other}],
             reply : {"none", "ok", "missing", "conflict", "lost"},
             body : [Ids -> Calls \union {Absent, Other}],
             res : {"none", "ok", "conflict", "failed"}]

StoreTypeOK ==
  /\ db \in BOOLEAN /\ docs \in [Ids -> Calls \union {Absent, Other}]
  /\ exists \in [Pages -> BOOLEAN]
  /\ lookup \in [Pages -> {"none", "asked", "missing", "present", "lost"}]
  /\ call \in [Calls -> CallType]
  /\ ~db => docs = Nothing
  /\ \A c \in Calls : call[c].pc \in Asking => lookup[TabOf[c]] # "none"

StoreInit ==
  /\ db \in BOOLEAN /\ docs \in [Ids -> {Absent, Other}] /\ (~db => docs = Nothing)
  /\ exists = [t \in Pages |-> FALSE] /\ lookup = [t \in Pages |-> "none"]
  /\ call = [c \in Calls |-> Idle]
  /\ seen = [c \in Calls |-> {}] /\ past = [t \in Pages |-> {}] /\ landed = {}
  /\ faults = 0 /\ foreign = 0

-------------------------------------------------------------------------------
(* Sending, and the shared lookup.                                              *)

Send(r, pc) == [r EXCEPT !.pc = pc, !.reply = "none", !.body = Nothing]
Done(r, res) == [r EXCEPT !.pc = "done", !.res = res, !.rev = Nothing, !.reply = "none",
                          !.body = IF res = "ok" /\ r.op \in {"get", "list"} THEN r.body ELSE Nothing]
(* History: what a call has seen is forgotten when it ends. *)
ForgetEnded == seen' = [c \in Calls |-> IF call'[c].pc = "done" THEN {} ELSE seen[c]]
KeepServer == ForgetEnded /\ UNCHANGED <<db, docs, past>>
Empty(r) == Done([r EXCEPT !.body = Nothing], "ok")

(* removeAll resolves the revisions it was not given, and sends nothing when there *)
(* is nothing to delete.                                                           *)
Sweep(r) ==
  IF \E i \in r.ids : r.rev[i] # Absent THEN Send(r, "bulk") ELSE Empty(r)

First(r) ==
  CASE r.op = "list" -> Send(r, "scan")
    [] r.op \in {"get", "put", "remove"} -> Send(r, "get")
    [] r.op = "removeAll" -> IF \E i \in r.ids : r.rev[i] = Absent THEN Send(r, "revs") ELSE Sweep(r)

KnowsNothing(t) == t \in Admins /\ ~exists[t]

(* knownMissing: a call that may ask joins the lookup in flight, or starts one.  *)
Joined(t) == IF lookup[t] = "none" THEN "asked" ELSE lookup[t]
Question(t) == IF past[t] = {} THEN {docs} ELSE past[t]

Begin(c) ==
  LET t == TabOf[c] IN
  /\ call[c] = Idle
  /\ \E o \in OpsOf[c], known \in SUBSET Ids :
       LET r == [Idle EXCEPT !.op = o[1], !.ids = o[2],
                             !.rev = [i \in Ids |-> IF i \in known THEN docs[i] ELSE Absent]]
       IN /\ known \subseteq IF o[1] = "removeAll" THEN {i \in o[2] : docs[i] # Absent} ELSE {}
          /\ IF KnowsNothing(t)
             THEN /\ call' = [call EXCEPT ![c] = Send(r, "ask")]
                  /\ lookup' = [lookup EXCEPT ![t] = Joined(t)]
                  /\ past' = [past EXCEPT ![t] = Question(t)]
             ELSE /\ call' = [call EXCEPT ![c] = First(r)]
                  /\ UNCHANGED <<lookup, past>>
  /\ seen' = [seen EXCEPT ![c] = {docs} \union past[t]]
  /\ UNCHANGED <<db, docs, exists, landed, faults, foreign>>

LookupServe(t) ==
  /\ lookup[t] = "asked"
  /\ lookup' = [lookup EXCEPT ![t] = IF db THEN "present" ELSE "missing"]
  /\ UNCHANGED <<server, exists, call, landed, faults, foreign>>

LookupLost(t) ==
  /\ lookup[t] \in {"asked", "present", "missing"} /\ Trouble
  /\ lookup' = [lookup EXCEPT ![t] = "lost"] /\ faults' = faults + 1
  /\ UNCHANGED <<server, exists, call, landed, foreign>>


(* What a call does with the answer to "is it missing?". *)
Told(r, missing) ==
  IF ~missing THEN First(r)
  ELSE IF r.op # "put" THEN Empty(r)
  ELSE IF r.pc = "ask" THEN Send(r, "ensure") ELSE Send(r, "put")

(* The lookup answers every call that waits for it.  A lookup that failed tells   *)
(* nothing, so a put asks again in its get.                                       *)
LookupLand(t) ==
  LET waiting == {c \in Calls : TabOf[c] = t /\ call[c].pc \in Asking}
      again == {c \in waiting : lookup[t] = "lost" /\ call[c].op = "put" /\ call[c].pc = "ask" /\ ~exists[t]}
  IN
  /\ lookup[t] \in {"present", "missing", "lost"}
  /\ exists' = IF lookup[t] = "lost" THEN exists ELSE [exists EXCEPT ![t] = lookup[t] = "present"]
  /\ call' = [c \in Calls |->
                IF c \in again THEN Send(call[c], "askAgain")
                ELSE IF c \in waiting THEN Told(call[c], lookup[t] = "missing")
                ELSE call[c]]
  /\ lookup' = [lookup EXCEPT ![t] = IF again = {} THEN "none" ELSE "asked"]
  /\ past' = [past EXCEPT ![t] = IF again = {} THEN {} ELSE {docs}]
  /\ ForgetEnded /\ UNCHANGED <<db, docs, landed, faults, foreign>>

-------------------------------------------------------------------------------
(* The server.                                                                  *)

Becomes(d) ==
  /\ docs' = d
  /\ seen' = [c \in Calls |-> IF c \in Opened THEN seen[c] \union {d} ELSE seen[c]]
  /\ past' = [t \in Pages |-> IF past[t] = {} THEN {} ELSE past[t] \union {d}]

Waits(c, pcs) == call[c].pc \in pcs /\ call[c].reply = "none"
Reply(c, reply, body) == call' = [call EXCEPT ![c].reply = reply, ![c].body = body]
Refuses(c, i) == docs[i] # call[c].rev[i]

ServeRead(c) ==
  /\ Waits(c, Reads)
  /\ Reply(c, IF db THEN "ok" ELSE "missing", docs)
  /\ UNCHANGED <<server, exists, lookup, landed, faults, foreign>>

(* A write is made on the revision it names; a bulk delete answers for each row. *)
ServeWrite(c) ==
  LET ids == call[c].ids
      rows == IF call[c].pc = "bulk" THEN {i \in ids : call[c].rev[i] # Absent} ELSE ids
      done == {i \in rows : ~Refuses(c, i)}
      new == IF call[c].op = "put" THEN c ELSE Absent
  IN
  /\ Waits(c, Writes \ {"ensure", "ensureAgain"})
  /\ Reply(c, IF ~db THEN "missing" ELSE IF done = rows THEN "ok" ELSE "conflict", Nothing)
  /\ IF db /\ done # {}
     THEN /\ Becomes([i \in Ids |-> IF i \in done THEN new ELSE docs[i]])
          /\ landed' = landed \union {c}
     ELSE UNCHANGED <<docs, seen, past, landed>>
  /\ UNCHANGED <<db, exists, lookup, faults, foreign>>

(* PUT /couchcompanion: 412 (it exists) counts as success. *)
ServeEnsure(c) ==
  /\ Waits(c, {"ensure", "ensureAgain"})
  /\ db' = TRUE /\ Reply(c, "ok", Nothing)
  /\ UNCHANGED <<docs, seen, past, exists, lookup, landed, faults, foreign>>

(* A request, or its answer, is lost. *)
Lose(c) ==
  /\ call[c].pc \in Reads \union Writes /\ call[c].reply # "lost" /\ Trouble
  /\ Reply(c, "lost", Nothing) /\ faults' = faults + 1
  /\ UNCHANGED <<server, exists, lookup, landed, foreign>>

(* Another admin: writes or deletes a document, creates or drops the database. *)
Foreign ==
  /\ Trouble /\ foreign' = foreign + 1
  /\ \/ /\ db /\ UNCHANGED db
        /\ \E i \in Ids, v \in {Other, Absent} : v # docs[i] /\ Becomes([docs EXCEPT ![i] = v])
     \/ /\ ~db /\ db' = TRUE /\ UNCHANGED <<docs, seen, past>>
  /\ UNCHANGED <<exists, lookup, call, landed, faults>>

Drop ==
  /\ db /\ Trouble /\ faults' = faults + 1
  /\ db' = FALSE /\ Becomes(Nothing)
  /\ UNCHANGED <<exists, lookup, call, landed, foreign>>

-------------------------------------------------------------------------------
(* The answers.                                                                 *)

Arrives(c, pc) == call[c].pc = pc /\ call[c].reply # "none"
FoundAny(c) == call[c].reply = "ok" /\ \E i \in call[c].ids : call[c].body[i] # Absent

LandGet(c) ==
  LET r == call[c] IN
  /\ Arrives(c, "get")
  /\ call' = [call EXCEPT ![c] =
       IF r.reply = "lost" THEN Done(r, "failed")
       ELSE IF r.op = "get" THEN Done(r, "ok")
       ELSE IF r.op = "put" THEN Send([r EXCEPT !.rev = r.body], "put")
       ELSE IF FoundAny(c) THEN Send([r EXCEPT !.rev = r.body], "delete") ELSE Empty(r)]
  /\ KeepServer /\ UNCHANGED <<exists, lookup, landed, faults, foreign>>

(* A put that 404s creates the database and is sent once more. *)
LandPut(c) ==
  LET r == call[c] IN
  /\ Arrives(c, "put") \/ Arrives(c, "retry")
  /\ call' = [call EXCEPT ![c] =
       IF r.reply = "missing" THEN IF r.pc = "put" THEN Send(r, "ensureAgain") ELSE Done(r, "failed")
       ELSE Done(r, IF r.reply = "lost" THEN "failed" ELSE r.reply)]
  /\ KeepServer /\ UNCHANGED <<exists, lookup, landed, faults, foreign>>

LandEnsure(c) ==
  LET r == call[c] IN
  /\ Arrives(c, "ensure") \/ Arrives(c, "ensureAgain")
  /\ IF r.reply = "lost"
     THEN call' = [call EXCEPT ![c] = Done(r, "failed")] /\ UNCHANGED exists
     ELSE /\ exists' = [exists EXCEPT ![TabOf[c]] = TRUE]
          /\ call' = [call EXCEPT ![c] = Send(r, IF r.pc = "ensure" THEN "get" ELSE "retry")]
  /\ KeepServer /\ UNCHANGED <<lookup, landed, faults, foreign>>

(* A scan can 404 only because the database is gone. *)
LandScan(c) ==
  LET r == call[c] IN
  /\ Arrives(c, "scan")
  /\ exists' = IF r.reply = "missing" THEN [exists EXCEPT ![TabOf[c]] = FALSE] ELSE exists
  /\ call' = [call EXCEPT ![c] = Done(r, IF r.reply = "lost" THEN "failed" ELSE "ok")]
  /\ KeepServer /\ UNCHANGED <<lookup, landed, faults, foreign>>

LandRevs(c) ==
  LET r == call[c] IN
  /\ Arrives(c, "revs")
  /\ call' = [call EXCEPT ![c] =
       IF r.reply = "lost" THEN Done(r, "failed")
       ELSE Sweep([r EXCEPT !.rev =
              [i \in Ids |-> IF i \in r.ids /\ r.rev[i] = Absent THEN r.body[i] ELSE r.rev[i]]])]
  /\ KeepServer /\ UNCHANGED <<exists, lookup, landed, faults, foreign>>

(* Mutant: the rows of a bulk answer are not looked at. *)
Verdict_Unread(r) == IF r.pc = "bulk" THEN "ok" ELSE r.reply
(* A row that _bulk_docs refused makes the call throw. *)
Verdict(r) == r.reply

(* remove throws whatever its DELETE answered; removeAll takes a 404 for "nothing  *)
(* to delete" and throws when a row was refused.                                   *)
LandDelete(c) ==
  LET r == call[c] IN
  /\ Arrives(c, "delete") \/ Arrives(c, "bulk")
  /\ call' = [call EXCEPT ![c] = Done(r,
       IF r.reply = "lost" THEN "failed"
       ELSE IF r.reply = "missing" THEN IF r.pc = "bulk" THEN "ok" ELSE "conflict"
       ELSE Verdict(r))]
  /\ KeepServer /\ UNCHANGED <<exists, lookup, landed, faults, foreign>>

Land(c) == LandGet(c) \/ LandPut(c) \/ LandEnsure(c) \/ LandScan(c) \/ LandRevs(c) \/ LandDelete(c)
Serve(c) == ServeRead(c) \/ ServeWrite(c) \/ ServeEnsure(c)

StoreNext ==
  \/ \E c \in Calls : Begin(c) \/ Serve(c) \/ Land(c) \/ Lose(c)
  \/ \E t \in Pages : LookupServe(t) \/ LookupLand(t) \/ LookupLost(t)
  \/ Foreign \/ Drop

StoreSpec == StoreInit /\ [][StoreNext]_storeVars

(* The store keeps DocStore's promise. *)
Ended == [c \in Calls |->
  IF call[c].pc = "done"
  THEN [op |-> call[c].op, ids |-> call[c].ids, res |-> call[c].res, val |-> call[c].body]
  ELSE [op |-> "none"]]
Promise == INSTANCE DocStore WITH Tabs <- Pages, docs <- docs, seen <- seen, past <- past, open <- Opened,
                                  landed <- landed, ended <- Ended, faults <- faults
ImplementsDocStore == Promise!Spec

(* #74: as long as no request fails and nobody drops the database, the first write *)
(* of a session that may list databases never runs into its absence, whichever     *)
(* tab creates it meanwhile.                                                       *)
FirstWriteNever404s ==
  \A c \in Calls : (faults = 0 /\ TabOf[c] \in Admins) => call[c].pc \notin {"ensureAgain", "retry"}
===============================================================================
