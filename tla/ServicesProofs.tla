--------------------------- MODULE ServicesProofs ---------------------------
(***************************************************************************)
(* Safety of the services behind the screens, each for any values of its   *)
(* constants: the companion store, which implements DocStore, the router,  *)
(* the git accounts, reachability and view runs.                           *)
(***************************************************************************)
EXTENDS CompanionStore, GitAccounts, Navigation, FiniteSetTheorems, TLAPS

----------------------------------------------------------------------------
(* The companion store: any documents, tabs and calls, with lost requests, other admins and a *)
(* database that comes and goes.                                                             *)

Content == [Ids -> Calls \union {Absent, Other}]
Places == Reads \union Writes \union Asking \union {"idle", "done"}

\* Document i held v at some moment that call c may speak of.
Held(c, i, v) == \E s \in seen[c] : s[i] = v
\* ... and held different things at two of them.
Varied(c) == \E i \in call[c].ids : \E s1, s2 \in seen[c] : s1[i] # s2[i]

StoreShape ==
  /\ StoreTypeOK
  /\ seen \in [Calls -> SUBSET Content] /\ past \in [Pages -> SUBSET Content] /\ landed \subseteq Calls
  /\ faults \in Nat /\ foreign \in Nat

\* An open call has seen the store as it is; a question still out has, too.
ViewOk(c) ==
  /\ IF c \in Opened THEN docs \in seen[c] ELSE seen[c] = {}
  /\ call[c].pc \in Asking => past[TabOf[c]] \subseteq seen[c]
TabOk(t) ==
  /\ lookup[t] # "none" => past[t] # {}
  /\ past[t] # {} => docs \in past[t]
  /\ lookup[t] = "missing" => Nothing \in past[t]
  /\ lookup[t] = "lost" => faults > 0

\* Which operation can be where.
KindOk(c) ==
  LET r == call[c] IN
  /\ r.pc # "idle" => r.ids # {}
  /\ r.pc # "idle" /\ r.op \in {"get", "put", "remove"} => \E i \in Ids : r.ids = {i}
  /\ r.pc \in {"put", "retry", "ensure", "ensureAgain", "askAgain"} => r.op = "put"
  /\ r.pc = "scan" => r.op = "list"
  /\ r.pc = "delete" => r.op = "remove"
  /\ r.pc \in {"revs", "bulk"} => r.op = "removeAll"
  /\ r.pc = "get" => r.op \in {"get", "put", "remove"}
  /\ r.pc = "ask" => r.op # "none"

\* A revision that a write names was read: the document had it.
RevOk(c) ==
  LET r == call[c] IN
  /\ c \in Opened => \A i \in r.ids : r.rev[i] # Absent => Held(c, i, r.rev[i])
  /\ r.pc \in {"put", "retry", "ensureAgain", "delete", "bulk"} => \A i \in r.ids : Held(c, i, r.rev[i])
  /\ r.pc = "delete" => \E i \in r.ids : r.rev[i] # Absent

\* What an answer that has been sent says.
ReplyOk(c) ==
  LET r == call[c] IN
  /\ r.pc \in Asking \union {"idle", "done"} => r.reply = "none"
  /\ r.pc \in {"ensure", "ensureAgain"} => r.reply \in {"none", "ok", "lost"}
  /\ r.reply = "lost" => faults > 0
  /\ r.reply = "missing" => Nothing \in seen[c]
  /\ r.pc \in Reads /\ r.reply \in {"ok", "missing"} => r.body \in seen[c]
  /\ r.reply = "conflict" => r.pc \in {"put", "retry", "delete", "bulk"} /\ Varied(c)
  /\ r.pc \in {"put", "retry"} /\ r.reply = "ok" => c \in landed
  /\ r.pc \in {"delete", "bulk"} /\ r.reply = "ok" => \A i \in r.ids : Held(c, i, Absent)
  /\ r.pc = "retry" /\ r.reply = "missing" => faults > 0

\* A call changes the store by the one request that is its last.
LandedOk(c) ==
  c \in landed =>
    call[c].pc = "done" \/ (call[c].pc \in {"put", "retry", "delete", "bulk"} /\ call[c].reply \notin {"none", "missing"})

\* Between the creation of the database and the write, only a fault takes it away.
CreatedOk(c) ==
  call[c].pc = "retry" \/ (call[c].pc \in {"ensure", "ensureAgain"} /\ call[c].reply = "ok") => db \/ faults > 0

StoreCallOk(c) == ViewOk(c) /\ KindOk(c) /\ RevOk(c) /\ ReplyOk(c) /\ LandedOk(c) /\ CreatedOk(c)

\* A session that may list databases writes to one that is there.
FirstOk(c) ==
  LET r == call[c] IN
  faults = 0 /\ TabOf[c] \in Admins =>
    /\ r.pc \notin {"askAgain", "ensureAgain", "retry"}
    /\ r.op = "put" /\ r.pc \in {"get", "put"} => db
    /\ r.pc = "put" => r.reply # "missing"
KnownOk(t) == faults = 0 /\ (exists[t] \/ lookup[t] = "present") => db

StoreInv ==
  /\ StoreShape
  /\ \A c \in Calls : StoreCallOk(c) /\ FirstOk(c)
  /\ \A t \in Pages : TabOk(t) /\ KnownOk(t)

LEMMA NothingIs == Nothing \in Content /\ \A i \in Ids : Nothing[i] = Absent
BY DEF Nothing, Content

LEMMA CallTypes == CallType = [op : {"none", "get", "list", "put", "remove", "removeAll"}, ids : SUBSET Ids,
             pc : Places, rev : Content,
             reply : {"none", "ok", "missing", "conflict", "lost"},
             body : Content,
             res : {"none", "ok", "conflict", "failed"}]
BY DEF CallType, Places, Content

LEMMA IdleIs == Idle \in CallType /\ Idle.pc = "idle" /\ Idle.reply = "none" /\ Idle.op = "none"
BY NothingIs, CallTypes DEF Idle, Places

LEMMA Sent ==
  ASSUME NEW r \in CallType, NEW pc \in Places
  PROVE  /\ Send(r, pc) \in CallType /\ Send(r, pc).pc = pc
         /\ Send(r, pc).op = r.op /\ Send(r, pc).ids = r.ids /\ Send(r, pc).rev = r.rev
         /\ Send(r, pc).reply = "none"
BY NothingIs, CallTypes DEF Send

LEMMA DoneIs ==
  ASSUME NEW r \in CallType, NEW res \in {"ok", "conflict", "failed"}
  PROVE  /\ Done(r, res) \in CallType /\ Done(r, res).pc = "done"
         /\ Done(r, res).op = r.op /\ Done(r, res).ids = r.ids /\ Done(r, res).res = res
         /\ Done(r, res).reply = "none" /\ Done(r, res).rev = Nothing
         /\ res = "ok" /\ r.op \in {"get", "list"} => Done(r, res).body = r.body
<1>1. (IF res = "ok" /\ r.op \in {"get", "list"} THEN r.body ELSE Nothing) \in Content
  BY NothingIs, CallTypes
<1> QED
  BY <1>1, NothingIs, CallTypes DEF Done, Places

LEMMA EmptyIs ==
  ASSUME NEW r \in CallType
  PROVE  /\ Empty(r) \in CallType /\ Empty(r).pc = "done" /\ Empty(r).rev = Nothing
         /\ Empty(r).op = r.op /\ Empty(r).ids = r.ids /\ Empty(r).res = "ok" /\ Empty(r).reply = "none"
         /\ r.op \in {"get", "list"} => Empty(r).body = Nothing
<1> DEFINE q == [r EXCEPT !.body = Nothing]
<1>1. q \in CallType /\ q.op = r.op /\ q.ids = r.ids /\ q.body = Nothing
  BY NothingIs, CallTypes
<1>2. Empty(r) = Done(q, "ok")
  BY DEF Empty
<1> HIDE DEF q
<1> QED
  BY <1>1, <1>2, DoneIs

LEMMA Sweeps ==
  ASSUME NEW r \in CallType
  PROVE  Sweep(r) = IF \E i \in r.ids : r.rev[i] # Absent THEN Send(r, "bulk") ELSE Empty(r)
BY DEF Sweep

\* What becomes of a call that starts talking to the database: its first request is out.
Begun(r, q) ==
  /\ q \in CallType /\ q.op = r.op /\ q.ids = r.ids /\ q.reply = "none"
  /\ \/ q.rev = r.rev /\ q.pc = "scan" /\ r.op = "list"
     \/ q.rev = r.rev /\ q.pc = "get" /\ r.op \in {"get", "put", "remove"}
     \/ q.rev = r.rev /\ q.pc = "revs" /\ r.op = "removeAll"
     \/ q.rev = r.rev /\ q.pc = "bulk" /\ r.op = "removeAll" /\ \A i \in r.ids : r.rev[i] # Absent

LEMMA Firsts ==
  ASSUME NEW r \in CallType, r.op # "none", r.ids # {} PROVE Begun(r, First(r))
<1>1. r.op \in {"get", "list", "put", "remove", "removeAll"}
  BY CallTypes
<1>2. CASE r.op = "list"
  <2>1. First(r) = Send(r, "scan")
    BY <1>2 DEF First
  <2> QED
    BY <1>2, <2>1, Sent DEF Begun, Places, Reads
<1>3. CASE r.op \in {"get", "put", "remove"}
  <2>1. First(r) = Send(r, "get")
    BY <1>3 DEF First
  <2> QED
    BY <1>3, <2>1, Sent DEF Begun, Places, Reads
<1>4. CASE r.op = "removeAll"
  <2>1. First(r) = IF \E i \in r.ids : r.rev[i] = Absent THEN Send(r, "revs") ELSE Sweep(r)
    BY <1>4 DEF First
  <2>2. CASE \E i \in r.ids : r.rev[i] = Absent
    BY <1>4, <2>1, <2>2, Sent DEF Begun, Places, Reads
  <2>3. CASE \A i \in r.ids : r.rev[i] # Absent
    BY <1>4, <2>1, <2>3, Sweeps, Sent DEF Begun, Places, Writes
  <2> QED
    BY <2>2, <2>3
<1> QED
  BY <1>1, <1>2, <1>3, <1>4

\* A call that did nothing still knows what it knew, as long as it has seen what happened.
LEMMA StillOk ==
  ASSUME NEW o \in Calls, StoreCallOk(o), call'[o] = call[o], seen[o] \subseteq seen'[o], ViewOk(o)',
         faults > 0 => faults' > 0, db => db' \/ faults' > 0, o \in landed' <=> o \in landed
  PROVE  StoreCallOk(o)'
<1>1. KindOk(o)'
  BY DEF StoreCallOk, KindOk
<1>2. \A i, v : Held(o, i, v) => Held(o, i, v)'
  BY DEF Held
<1>3. o \in Opened' <=> o \in Opened
  BY DEF Opened
<1>4. RevOk(o)'
  BY <1>2, <1>3 DEF StoreCallOk, RevOk
<1>5. Varied(o) => Varied(o)'
  BY DEF Varied
<1>6. Nothing \in seen[o] => Nothing \in seen'[o]
  OBVIOUS
<1>7. ReplyOk(o)'
  BY <1>2, <1>5, <1>6 DEF StoreCallOk, ReplyOk
<1>8. LandedOk(o)' /\ CreatedOk(o)'
  BY DEF StoreCallOk, LandedOk, CreatedOk
<1> QED
  BY <1>1, <1>4, <1>7, <1>8 DEF StoreCallOk

LEMMA StoreTypes ==
  ASSUME StoreInv
  PROVE  /\ call \in [Calls -> CallType] /\ seen \in [Calls -> SUBSET Content] /\ past \in [Pages -> SUBSET Content]
         /\ docs \in Content /\ (~db => docs = Nothing)
         /\ lookup \in [Pages -> {"none", "asked", "missing", "present", "lost"}] /\ exists \in [Pages -> BOOLEAN]
         /\ \A c \in Calls : TabOf[c] \in Pages
BY StoreAssumption DEF StoreInv, StoreShape, StoreTypeOK, Content

\* Whoever speaks of the store has seen what it becomes.
LEMMA BecomesOk ==
  ASSUME StoreInv, NEW d \in Content, Becomes(d)
  PROVE  /\ docs' \in Content /\ docs' = d
         /\ seen' \in [Calls -> SUBSET Content] /\ past' \in [Pages -> SUBSET Content]
         /\ \A o \in Calls : seen[o] \subseteq seen'[o]
         /\ \A o \in Calls : IF o \in Opened THEN d \in seen'[o] ELSE seen'[o] = {}
         /\ \A t \in Pages : past[t] \subseteq past'[t] /\ (past'[t] # {} <=> past[t] # {})
         /\ \A t \in Pages : past'[t] # {} => d \in past'[t]
         /\ \A o \in Calls : call[o].pc \in Asking => past'[TabOf[o]] \subseteq seen'[o]
<1>1. /\ docs' = d
      /\ seen' = [c \in Calls |-> IF c \in Opened THEN seen[c] \union {d} ELSE seen[c]]
      /\ past' = [t \in Pages |-> IF past[t] = {} THEN {} ELSE past[t] \union {d}]
  BY DEF Becomes
<1>2. \A o \in Calls : o \notin Opened => seen[o] = {}
  BY DEF StoreInv, StoreCallOk, ViewOk
<1>3. \A o \in Calls : call[o].pc \in Asking => o \in Opened /\ TabOf[o] \in Pages /\ past[TabOf[o]] \subseteq seen[o]
  BY StoreTypes DEF StoreInv, StoreCallOk, ViewOk, Opened, Asking
<1>4. seen' \in [Calls -> SUBSET Content] /\ past' \in [Pages -> SUBSET Content]
  BY <1>1, StoreTypes
<1> QED
  BY <1>1, <1>2, <1>3, <1>4, StoreTypes

\* What a tab knows of its question.
LEMMA TabStill ==
  ASSUME NEW t \in Pages, TabOk(t), lookup'[t] = lookup[t], past[t] \subseteq past'[t], faults > 0 => faults' > 0,
         past'[t] # {} => past[t] # {} /\ docs' \in past'[t]
  PROVE  TabOk(t)'
BY DEF TabOk

LEMMA KnownStill ==
  ASSUME NEW t \in Pages, KnownOk(t), lookup'[t] = lookup[t], exists'[t] = exists[t], faults > 0 => faults' > 0,
         db => db' \/ faults' > 0, faults \in Nat, faults' \in Nat
  PROVE  KnownOk(t)'
BY DEF KnownOk

LEMMA FirstStill ==
  ASSUME NEW o \in Calls, FirstOk(o), call'[o] = call[o], faults > 0 => faults' > 0,
         db => db' \/ faults' > 0, faults \in Nat, faults' \in Nat
  PROVE  FirstOk(o)'
BY DEF FirstOk

----------------------------------------------------------------------------
(* Steps of one call. *)

\* Between requests the call alone changes: the store and the questions stay.
LEMMA CallStep ==
  ASSUME StoreInv, NEW c \in Calls, NEW r \in CallType, call' = [call EXCEPT ![c] = r],
         r.pc \notin Asking \union {"idle"}, c \in Opened, KeepServer, UNCHANGED <<lookup, landed, faults, foreign>>,
         exists' \in [Pages -> BOOLEAN],
         r.pc # "done" => StoreCallOk(c)', r.reply = "none", r.ids # {},
         r.op \in {"get", "put", "remove"} => \E i \in Ids : r.ids = {i},
         FirstOk(c)', \A t \in Pages : KnownOk(t)'
  PROVE  StoreInv'
<1>1. /\ db' = db /\ docs' = docs /\ past' = past
      /\ seen' = [o \in Calls |-> IF call'[o].pc = "done" THEN {} ELSE seen[o]]
  BY DEF KeepServer, ForgetEnded
<1>2. call' \in [Calls -> CallType] /\ call'[c] = r /\ \A o \in Calls \ {c} : call'[o] = call[o]
  BY StoreTypes
<1>3. StoreShape'
  <2>1. seen' \in [Calls -> SUBSET Content]
    BY <1>1, StoreTypes
  <2>2. \A o \in Calls : call'[o].pc \in Asking => lookup[TabOf[o]] # "none"
    BY <1>2 DEF StoreInv, StoreShape, StoreTypeOK
  <2> QED
    BY <1>1, <1>2, <2>1, <2>2 DEF StoreInv, StoreShape, StoreTypeOK
<1>4. ASSUME NEW o \in Calls \ {c} PROVE StoreCallOk(o)' /\ FirstOk(o)'
  <2>1. StoreCallOk(o) /\ FirstOk(o) /\ call'[o] = call[o]
    BY <1>2 DEF StoreInv
  <2>2. seen'[o] = seen[o]
    BY <1>1, <2>1 DEF StoreCallOk, ViewOk, Opened
  <2>3. ViewOk(o)'
    BY <1>1, <2>1, <2>2 DEF StoreCallOk, ViewOk, Opened
  <2>4. faults \in Nat
    BY DEF StoreInv, StoreShape
  <2> QED
    BY <1>1, <2>1, <2>2, <2>3, <2>4, StillOk, FirstStill
<1>5. CASE r.pc = "done"
  <2>1. seen'[c] = {} /\ c \notin Opened'
    BY <1>1, <1>2, <1>5 DEF Opened
  <2>2. StoreCallOk(c)'
    BY <1>2, <1>5, <2>1
       DEF StoreCallOk, ViewOk, KindOk, RevOk, ReplyOk, LandedOk, CreatedOk, Asking, Reads
  <2> QED
    BY <1>2, <1>3, <1>4, <2>2, TabStill, <1>1 DEF StoreInv, TabOk
<1>6. CASE r.pc # "done"
  BY <1>1, <1>3, <1>4, <1>6 DEF StoreInv, TabOk
<1> QED
  BY <1>5, <1>6

\* A call that is open is past its start, for a reason.
LEMMA OpenIs ==
  ASSUME StoreInv, NEW c \in Calls, c \in Opened
  PROVE  /\ call[c] \in CallType /\ call[c].ids # {} /\ call[c].ids \subseteq Ids
         /\ call[c].op \in {"get", "put", "remove"} => \E i \in Ids : call[c].ids = {i}
         /\ call[c].pc \notin {"idle", "done"} /\ docs \in seen[c] /\ seen[c] \subseteq Content
         /\ StoreCallOk(c) /\ FirstOk(c) /\ faults \in Nat
BY StoreTypes, CallTypes DEF StoreInv, StoreShape, StoreCallOk, KindOk, ViewOk, Opened

\* The call ends.
LEMMA EndStep ==
  ASSUME StoreInv, NEW c \in Calls, c \in Opened, NEW r \in CallType, call' = [call EXCEPT ![c] = r],
         r.pc = "done", r.reply = "none", r.op = call[c].op, r.ids = call[c].ids,
         KeepServer, UNCHANGED <<lookup, landed, faults, foreign>>, exists' \in [Pages -> BOOLEAN],
         \A t \in Pages : KnownOk(t)'
  PROVE  StoreInv'
<1>1. call'[c] = r
  BY StoreTypes
<1>2. FirstOk(c)'
  BY <1>1 DEF FirstOk
<1> QED
  BY <1>1, <1>2, OpenIs, CallStep DEF Asking

\* It goes on with another request.
LEMMA SendStep ==
  ASSUME StoreInv, NEW c \in Calls, c \in Opened, NEW q \in CallType,
         NEW pc \in {"get", "put", "retry", "delete", "bulk", "ensureAgain"},
         call' = [call EXCEPT ![c] = Send(q, pc)], q.op = call[c].op, q.ids = call[c].ids,
         KeepServer, UNCHANGED <<lookup, landed, faults, foreign>>, exists' \in [Pages -> BOOLEAN],
         \A t \in Pages : KnownOk(t)',
         pc \in {"put", "retry", "ensureAgain", "get"} => q.op = "put",
         pc = "delete" => q.op = "remove" /\ \E i \in q.ids : q.rev[i] # Absent,
         pc = "bulk" => q.op = "removeAll",
         pc # "get" => \A i \in q.ids : Held(c, i, q.rev[i]),
         pc = "get" => q.rev = call[c].rev,
         c \notin landed, pc = "retry" => db \/ faults > 0,
         pc \in {"retry", "ensureAgain"} => faults > 0 \/ TabOf[c] \notin Admins,
         pc \in {"get", "put"} => faults > 0 \/ TabOf[c] \notin Admins \/ db
  PROVE  StoreInv'
<1> DEFINE r == Send(q, pc)
<1>a. pc \in Places
  BY DEF Places, Reads, Writes
<1>1. /\ r \in CallType /\ r.pc = pc /\ r.reply = "none" /\ r.op = call[c].op /\ r.ids = call[c].ids /\ r.rev = q.rev
      /\ call' = [call EXCEPT ![c] = r]
  BY <1>a, Sent
<1> HIDE DEF r
<1>2. call'[c] = r
  BY <1>1, StoreTypes
<1>3. db' = db /\ docs' = docs /\ seen'[c] = seen[c]
  BY <1>1, <1>2 DEF KeepServer, ForgetEnded
<1>4. c \in Opened'
  BY <1>1, <1>2 DEF Opened
<1>5. \A i, v : Held(c, i, v) => Held(c, i, v)'
  BY <1>3 DEF Held
<1>6. ViewOk(c)'
  BY <1>1, <1>2, <1>3, <1>4, OpenIs DEF ViewOk, Asking
<1>7. KindOk(c)'
  BY <1>1, <1>2, OpenIs DEF KindOk
<1>8. RevOk(c)'
  <2>1. \A i \in q.ids : q.rev[i] # Absent => Held(c, i, q.rev[i])
    BY OpenIs DEF StoreCallOk, RevOk
  <2> QED
    BY <1>1, <1>2, <1>4, <1>5, <2>1 DEF RevOk
<1>9. ReplyOk(c)'
  BY <1>1, <1>2 DEF ReplyOk, Asking, Reads
<1>10. LandedOk(c)' /\ CreatedOk(c)'
  BY <1>1, <1>2, <1>3 DEF LandedOk, CreatedOk
<1>11. FirstOk(c)'
  <2>1. faults \in Nat
    BY OpenIs
  <2> QED
    BY <1>1, <1>2, <1>3, <2>1 DEF FirstOk
<1>12. r.pc \notin Asking \union {"idle"}
  BY <1>1 DEF Asking
<1>13. StoreCallOk(c)'
  BY <1>6, <1>7, <1>8, <1>9, <1>10 DEF StoreCallOk
<1>14. r.ids # {} /\ (r.op \in {"get", "put", "remove"} => \E i \in Ids : r.ids = {i})
  BY <1>1, OpenIs
<1> QED
  BY <1>1, <1>11, <1>12, <1>13, <1>14, CallStep

\* The database, as a tab remembers it, when nothing of it changes.
LEMMA KnownKept ==
  ASSUME StoreInv, UNCHANGED <<db, lookup, exists, faults>> PROVE \A t \in Pages : KnownOk(t)'
BY DEF StoreInv, KnownOk

LEMMA LandGetOk == ASSUME StoreInv, NEW c \in Calls, LandGet(c) PROVE StoreInv'
<1> DEFINE r == call[c]
           q == [r EXCEPT !.rev = r.body]
<1>1. /\ r.pc = "get" /\ r.reply # "none" /\ KeepServer /\ UNCHANGED <<exists, lookup, landed, faults, foreign>>
      /\ call' = [call EXCEPT ![c] =
           IF r.reply = "lost" THEN Done(r, "failed")
           ELSE IF r.op = "get" THEN Done(r, "ok")
           ELSE IF r.op = "put" THEN Send(q, "put")
           ELSE IF FoundAny(c) THEN Send(q, "delete") ELSE Empty(r)]
  BY DEF LandGet, Arrives
<1>2. c \in Opened
  BY <1>1 DEF Opened
<1>3. r \in CallType /\ r.op \in {"get", "put", "remove"} /\ c \notin landed
  BY <1>1, <1>2, OpenIs DEF StoreCallOk, KindOk, LandedOk
<1>4. q \in CallType /\ q.op = r.op /\ q.ids = r.ids /\ q.rev = r.body
  BY <1>3, CallTypes
<1>5. r.reply # "lost" => r.body \in seen[c]
  BY <1>1, <1>2, <1>3, OpenIs, CallTypes DEF StoreCallOk, ReplyOk, Reads
<1>6. r.reply # "lost" => \A i \in q.ids : Held(c, i, q.rev[i])
  BY <1>4, <1>5 DEF Held
<1>7. exists' \in [Pages -> BOOLEAN] /\ \A t \in Pages : KnownOk(t)'
  BY <1>1, StoreTypes, KnownKept DEF KeepServer
<1> HIDE DEF q
<1>8. CASE r.reply # "lost" /\ r.op = "put"
  <2>1. call' = [call EXCEPT ![c] = Send(q, "put")]
    BY <1>1, <1>8
  <2>2. faults > 0 \/ TabOf[c] \notin Admins \/ db
    BY <1>1, <1>2, <1>8, OpenIs DEF FirstOk
  <2> QED
    BY <1>1, <1>2, <1>3, <1>4, <1>6, <1>7, <1>8, <2>1, <2>2, SendStep
<1>9. CASE r.reply # "lost" /\ r.op = "remove" /\ FoundAny(c)
  <2>1. call' = [call EXCEPT ![c] = Send(q, "delete")]
    BY <1>1, <1>9
  <2>2. \E i \in q.ids : q.rev[i] # Absent
    BY <1>4, <1>9 DEF FoundAny
  <2> QED
    BY <1>1, <1>2, <1>3, <1>4, <1>6, <1>7, <1>9, <2>1, <2>2, SendStep
<1>10. CASE r.reply = "lost" \/ r.op = "get" \/ (r.op = "remove" /\ ~FoundAny(c))
  <2> DEFINE e == IF r.reply = "lost" THEN Done(r, "failed") ELSE IF r.op = "get" THEN Done(r, "ok") ELSE Empty(r)
  <2>1. call' = [call EXCEPT ![c] = e]
    BY <1>1, <1>10
  <2>2. e \in CallType /\ e.pc = "done" /\ e.reply = "none" /\ e.op = r.op /\ e.ids = r.ids
    BY <1>3, DoneIs, EmptyIs
  <2> HIDE DEF e
  <2> QED
    BY <1>1, <1>2, <1>7, <2>1, <2>2, EndStep
<1> QED
  BY <1>3, <1>8, <1>9, <1>10

LEMMA LandPutOk == ASSUME StoreInv, NEW c \in Calls, LandPut(c) PROVE StoreInv'
<1> DEFINE r == call[c]
<1>1. /\ r.pc \in {"put", "retry"} /\ r.reply # "none" /\ KeepServer /\ UNCHANGED <<exists, lookup, landed, faults, foreign>>
      /\ call' = [call EXCEPT ![c] =
           IF r.reply = "missing" THEN IF r.pc = "put" THEN Send(r, "ensureAgain") ELSE Done(r, "failed")
           ELSE Done(r, IF r.reply = "lost" THEN "failed" ELSE r.reply)]
  BY DEF LandPut, Arrives
<1>2. c \in Opened
  BY <1>1 DEF Opened
<1>3. r \in CallType /\ exists' \in [Pages -> BOOLEAN] /\ \A t \in Pages : KnownOk(t)'
  BY <1>1, <1>2, OpenIs, StoreTypes, KnownKept DEF KeepServer
<1>4. CASE r.reply = "missing" /\ r.pc = "put"
  <2>1. call' = [call EXCEPT ![c] = Send(r, "ensureAgain")] /\ c \notin landed
    BY <1>1, <1>2, <1>4, OpenIs DEF StoreCallOk, LandedOk
  <2>2. (\A i \in r.ids : Held(c, i, r.rev[i])) /\ r.op = "put"
    BY <1>2, <1>4, OpenIs DEF StoreCallOk, RevOk, KindOk
  <2>3. faults > 0 \/ TabOf[c] \notin Admins
    BY <1>2, <1>4, OpenIs DEF FirstOk
  <2> QED
    BY <1>1, <1>2, <1>3, <2>1, <2>2, <2>3, SendStep
<1>5. CASE ~(r.reply = "missing" /\ r.pc = "put")
  <2> DEFINE e == Done(r, IF r.reply = "missing" \/ r.reply = "lost" THEN "failed" ELSE r.reply)
  <2>1. call' = [call EXCEPT ![c] = e]
    BY <1>1, <1>5
  <2>2. (IF r.reply = "missing" \/ r.reply = "lost" THEN "failed" ELSE r.reply) \in {"ok", "conflict", "failed"}
    BY <1>1, <1>3, CallTypes
  <2>3. e \in CallType /\ e.pc = "done" /\ e.reply = "none" /\ e.op = r.op /\ e.ids = r.ids
    BY <1>3, <2>2, DoneIs
  <2> HIDE DEF e
  <2> QED
    BY <1>1, <1>2, <1>3, <2>1, <2>3, EndStep
<1> QED
  BY <1>4, <1>5

LEMMA LandEnsureOk == ASSUME StoreInv, NEW c \in Calls, LandEnsure(c) PROVE StoreInv'
<1> DEFINE r == call[c]
<1>1. /\ r.pc \in {"ensure", "ensureAgain"} /\ r.reply # "none" /\ KeepServer /\ UNCHANGED <<lookup, landed, faults, foreign>>
  BY DEF LandEnsure, Arrives
<1>2. c \in Opened
  BY <1>1 DEF Opened
<1>3. r \in CallType /\ c \notin landed
  BY <1>1, <1>2, OpenIs DEF StoreCallOk, LandedOk
<1>4. CASE r.reply = "lost"
  <2>1. call' = [call EXCEPT ![c] = Done(r, "failed")] /\ exists' = exists
    BY <1>4 DEF LandEnsure
  <2>2. exists' \in [Pages -> BOOLEAN] /\ \A t \in Pages : KnownOk(t)'
    BY <1>1, <2>1, StoreTypes, KnownKept DEF KeepServer
  <2> DEFINE e == Done(r, "failed")
  <2>3. e \in CallType /\ e.pc = "done" /\ e.reply = "none" /\ e.op = r.op /\ e.ids = r.ids
    BY <1>3, DoneIs
  <2>4. call' = [call EXCEPT ![c] = e]
    BY <2>1
  <2> HIDE DEF e
  <2> QED
    BY <1>1, <1>2, <2>2, <2>3, <2>4, EndStep
<1>5. CASE r.reply # "lost"
  <2>1. exists' = [exists EXCEPT ![TabOf[c]] = TRUE]
    BY <1>5 DEF LandEnsure
  <2>2. r.reply = "ok" /\ r.op = "put"
    BY <1>1, <1>2, <1>5, OpenIs DEF StoreCallOk, ReplyOk, KindOk
  <2>3. db \/ faults > 0
    BY <1>1, <1>2, <2>2, OpenIs DEF StoreCallOk, CreatedOk
  <2>4. exists' \in [Pages -> BOOLEAN]
    BY <2>1, StoreTypes, Zenon
  <2>5. \A t \in Pages : KnownOk(t)'
    BY <1>1, <2>3, OpenIs, <1>2 DEF KnownOk, KeepServer
  <2>6. call' = [call EXCEPT ![c] = Send(r, IF r.pc = "ensure" THEN "get" ELSE "retry")]
    BY <1>5 DEF LandEnsure
  <2>7. CASE r.pc = "ensure"
    <3>1. call' = [call EXCEPT ![c] = Send(r, "get")]
      BY <2>6, <2>7
    <3> QED
      BY <1>1, <1>2, <1>3, <2>2, <2>3, <2>4, <2>5, <3>1, SendStep
  <2>8. CASE r.pc = "ensureAgain"
    <3>1. call' = [call EXCEPT ![c] = Send(r, "retry")]
      BY <2>6, <2>8
    <3>2. \A i \in r.ids : Held(c, i, r.rev[i])
      BY <1>2, <2>8, OpenIs DEF StoreCallOk, RevOk
    <3>3. faults > 0 \/ TabOf[c] \notin Admins
      BY <1>2, <2>8, OpenIs DEF FirstOk
    <3> QED
      BY <1>1, <1>2, <1>3, <2>2, <2>3, <2>4, <2>5, <3>1, <3>2, <3>3, SendStep
  <2> QED
    BY <1>1, <2>7, <2>8
<1> QED
  BY <1>4, <1>5

LEMMA LandScanOk == ASSUME StoreInv, NEW c \in Calls, LandScan(c) PROVE StoreInv'
<1> DEFINE r == call[c]
           e == Done(r, IF r.reply = "lost" THEN "failed" ELSE "ok")
<1>1. /\ r.pc = "scan" /\ r.reply # "none" /\ KeepServer /\ UNCHANGED <<lookup, landed, faults, foreign>>
      /\ call' = [call EXCEPT ![c] = e]
      /\ exists' = IF r.reply = "missing" THEN [exists EXCEPT ![TabOf[c]] = FALSE] ELSE exists
  BY DEF LandScan, Arrives
<1>2. c \in Opened
  BY <1>1 DEF Opened
<1>3. e \in CallType /\ e.pc = "done" /\ e.reply = "none" /\ e.op = r.op /\ e.ids = r.ids
  BY <1>2, OpenIs, DoneIs
<1>4. exists' \in [Pages -> BOOLEAN]
  BY <1>1, StoreTypes, Zenon
<1>5. \A t \in Pages : exists'[t] => exists[t]
  BY <1>1, StoreTypes, Zenon
<1>6. \A t \in Pages : KnownOk(t)'
  BY <1>1, <1>5 DEF StoreInv, KnownOk, KeepServer
<1> HIDE DEF e
<1> QED
  BY <1>1, <1>2, <1>3, <1>4, <1>6, EndStep

LEMMA LandRevsOk == ASSUME StoreInv, NEW c \in Calls, LandRevs(c) PROVE StoreInv'
<1> DEFINE r == call[c]
           found == [i \in Ids |-> IF i \in r.ids /\ r.rev[i] = Absent THEN r.body[i] ELSE r.rev[i]]
           q == [r EXCEPT !.rev = found]
<1>1. /\ r.pc = "revs" /\ r.reply # "none" /\ KeepServer /\ UNCHANGED <<exists, lookup, landed, faults, foreign>>
      /\ call' = [call EXCEPT ![c] = IF r.reply = "lost" THEN Done(r, "failed") ELSE Sweep(q)]
  BY DEF LandRevs, Arrives
<1>2. c \in Opened
  BY <1>1 DEF Opened
<1>3. r \in CallType /\ r.op = "removeAll" /\ c \notin landed
  BY <1>1, <1>2, OpenIs DEF StoreCallOk, KindOk, LandedOk
<1>4. found \in Content
  BY <1>3, CallTypes DEF Content
<1>5. q \in CallType /\ q.op = r.op /\ q.ids = r.ids /\ q.rev = found
  BY <1>3, <1>4, CallTypes
<1>6. r.reply # "lost" => r.body \in seen[c]
  BY <1>1, <1>2, <1>3, OpenIs, CallTypes DEF StoreCallOk, ReplyOk, Reads
<1>7. ASSUME r.reply # "lost", NEW i \in q.ids PROVE Held(c, i, q.rev[i])
  <2>1. i \in Ids /\ i \in r.ids
    BY <1>2, <1>5, <1>7, OpenIs
  <2>2. CASE r.rev[i] = Absent
    BY <1>5, <1>6, <1>7, <2>1, <2>2 DEF Held
  <2>3. CASE r.rev[i] # Absent
    BY <1>2, <1>5, <2>1, <2>3, OpenIs DEF StoreCallOk, RevOk
  <2> QED
    BY <2>2, <2>3
<1>8. exists' \in [Pages -> BOOLEAN] /\ \A t \in Pages : KnownOk(t)'
  BY <1>1, StoreTypes, KnownKept DEF KeepServer
<1> HIDE DEF q, found
<1>9. CASE r.reply # "lost" /\ \E i \in q.ids : q.rev[i] # Absent
  <2>1. call' = [call EXCEPT ![c] = Send(q, "bulk")]
    BY <1>1, <1>5, <1>9, Sweeps
  <2> QED
    BY <1>1, <1>2, <1>3, <1>5, <1>7, <1>8, <1>9, <2>1, SendStep
<1>10. CASE ~(r.reply # "lost" /\ \E i \in q.ids : q.rev[i] # Absent)
  <2> DEFINE e == IF r.reply = "lost" THEN Done(r, "failed") ELSE Empty(q)
  <2>1. call' = [call EXCEPT ![c] = e]
    BY <1>1, <1>5, <1>10, Sweeps
  <2>2. e \in CallType /\ e.pc = "done" /\ e.reply = "none" /\ e.op = r.op /\ e.ids = r.ids
    BY <1>3, <1>5, DoneIs, EmptyIs
  <2> HIDE DEF e
  <2> QED
    BY <1>1, <1>2, <1>8, <2>1, <2>2, EndStep
<1> QED
  BY <1>9, <1>10

LEMMA LandDeleteOk == ASSUME StoreInv, NEW c \in Calls, LandDelete(c) PROVE StoreInv'
<1> DEFINE r == call[c]
           res == IF r.reply = "lost" THEN "failed"
                  ELSE IF r.reply = "missing" THEN IF r.pc = "bulk" THEN "ok" ELSE "conflict"
                  ELSE r.reply
           e == Done(r, res)
<1>1. /\ r.pc \in {"delete", "bulk"} /\ r.reply # "none" /\ KeepServer /\ UNCHANGED <<exists, lookup, landed, faults, foreign>>
      /\ call' = [call EXCEPT ![c] = e]
  BY DEF LandDelete, Arrives, Verdict
<1>2. c \in Opened
  BY <1>1 DEF Opened
<1>3. r \in CallType
  BY <1>2, OpenIs
<1>4. res \in {"ok", "conflict", "failed"}
  BY <1>1, <1>3, CallTypes
<1> HIDE DEF res
<1>5. e \in CallType /\ e.pc = "done" /\ e.reply = "none" /\ e.op = r.op /\ e.ids = r.ids
  BY <1>3, <1>4, DoneIs
<1>6. exists' \in [Pages -> BOOLEAN] /\ \A t \in Pages : KnownOk(t)'
  BY <1>1, StoreTypes, KnownKept DEF KeepServer
<1> HIDE DEF e
<1> QED
  BY <1>1, <1>2, <1>5, <1>6, EndStep

----------------------------------------------------------------------------
(* Steps of the server and the network. *)

\* The store, as everybody who may speak of it has seen it.
Moved ==
  /\ docs' \in Content /\ seen' \in [Calls -> SUBSET Content] /\ past' \in [Pages -> SUBSET Content]
  /\ \A o \in Calls : seen[o] \subseteq seen'[o]
  /\ \A o \in Calls : IF o \in Opened THEN docs' \in seen'[o] ELSE seen'[o] = {}
  /\ \A t \in Pages : past[t] \subseteq past'[t] /\ (past'[t] # {} <=> past[t] # {})
  /\ \A t \in Pages : past'[t] # {} => docs' \in past'[t]
  /\ \A o \in Calls : call[o].pc \in Asking => past'[TabOf[o]] \subseteq seen'[o]

LEMMA MovedOk == ASSUME StoreInv, UNCHANGED <<docs, seen, past>> \/ \E d \in Content : Becomes(d) PROVE Moved
<1>1. CASE UNCHANGED <<docs, seen, past>>
  BY <1>1, StoreTypes DEF Moved, StoreInv, StoreCallOk, ViewOk, TabOk
<1>2. ASSUME NEW d \in Content, Becomes(d) PROVE Moved
  BY <1>2, BecomesOk DEF Moved
<1> QED
  BY <1>1, <1>2

\* The server answers one call, or nobody.
LEMMA ServerStep ==
  ASSUME StoreInv, NEW C \in SUBSET Calls, Moved, call' \in [Calls -> CallType],
         \A o \in Calls \ C : call'[o] = call[o], \A o \in Calls : call'[o].pc = call[o].pc,
         db' \in BOOLEAN, ~db' => docs' = Nothing, db => db' \/ faults' > 0,
         faults' \in Nat, foreign' \in Nat, faults > 0 => faults' > 0, UNCHANGED <<exists, lookup>>,
         landed' \subseteq Calls, \A o \in Calls \ C : o \in landed' <=> o \in landed,
         \A c \in C : KindOk(c)' /\ RevOk(c)' /\ ReplyOk(c)' /\ LandedOk(c)' /\ CreatedOk(c)' /\ FirstOk(c)'
  PROVE  StoreInv'
<1>1. StoreShape'
  BY StoreTypes DEF StoreInv, StoreShape, StoreTypeOK, Moved, Content
<1>2. ASSUME NEW o \in Calls PROVE ViewOk(o)'
  BY DEF Moved, ViewOk, Opened
<1>3. ASSUME NEW o \in Calls \ C PROVE StoreCallOk(o)' /\ FirstOk(o)'
  BY <1>2, StillOk, FirstStill DEF StoreInv, StoreShape, Moved
<1>4. ASSUME NEW t \in Pages PROVE TabOk(t)' /\ KnownOk(t)'
  BY TabStill, KnownStill DEF StoreInv, StoreShape, Moved
<1> QED
  BY <1>1, <1>2, <1>3, <1>4 DEF StoreInv, StoreCallOk

LEMMA AnswerStep ==
  ASSUME StoreInv, NEW c \in Calls, Moved, call' \in [Calls -> CallType],
         \A o \in Calls \ {c} : call'[o] = call[o], \A o \in Calls : call'[o].pc = call[o].pc,
         db' \in BOOLEAN, ~db' => docs' = Nothing, db => db' \/ faults' > 0,
         faults' \in Nat, foreign' = foreign, faults > 0 => faults' > 0, UNCHANGED <<exists, lookup>>,
         landed' \subseteq Calls, \A o \in Calls \ {c} : o \in landed' <=> o \in landed,
         KindOk(c)' /\ RevOk(c)', ReplyOk(c)', LandedOk(c)' /\ CreatedOk(c)' /\ FirstOk(c)'
  PROVE  StoreInv'
<1> DEFINE C == {c}
<1>1. C \in SUBSET Calls /\ (\A o \in Calls \ C : call'[o] = call[o]) /\ (\A o \in Calls \ C : o \in landed' <=> o \in landed)
  OBVIOUS
<1>2. \A o \in C : KindOk(o)' /\ RevOk(o)' /\ ReplyOk(o)' /\ LandedOk(o)' /\ CreatedOk(o)' /\ FirstOk(o)'
  OBVIOUS
<1>3. foreign' \in Nat
  BY DEF StoreInv, StoreShape
<1> HIDE DEF C
<1> QED
  BY <1>1, <1>2, <1>3, ServerStep

LEMMA NobodyStep ==
  ASSUME StoreInv, Moved, UNCHANGED <<call, exists, lookup, landed>>,
         db' \in BOOLEAN, ~db' => docs' = Nothing, db => db' \/ faults' > 0,
         faults' \in Nat, foreign' \in Nat, faults > 0 => faults' > 0
  PROVE  StoreInv'
<1> DEFINE C == {}
<1>1. C \in SUBSET Calls /\ (\A o \in Calls \ C : call'[o] = call[o]) /\ (\A o \in Calls \ C : o \in landed' <=> o \in landed)
  OBVIOUS
<1>2. \A o \in C : KindOk(o)' /\ RevOk(o)' /\ ReplyOk(o)' /\ LandedOk(o)' /\ CreatedOk(o)' /\ FirstOk(o)'
  OBVIOUS
<1>3. call' \in [Calls -> CallType] /\ (\A o \in Calls : call'[o].pc = call[o].pc) /\ landed' \subseteq Calls
  BY StoreTypes DEF StoreInv, StoreShape
<1> HIDE DEF C
<1> QED
  BY <1>1, <1>2, <1>3, ServerStep

LEMMA Replied ==
  ASSUME StoreInv, NEW c \in Calls, NEW reply \in {"none", "ok", "missing", "conflict", "lost"}, NEW body \in Content,
         Reply(c, reply, body)
  PROVE  /\ call' \in [Calls -> CallType] /\ \A o \in Calls \ {c} : call'[o] = call[o]
         /\ call'[c].pc = call[c].pc /\ call'[c].op = call[c].op /\ call'[c].ids = call[c].ids
         /\ call'[c].rev = call[c].rev /\ call'[c].reply = reply /\ call'[c].body = body
         /\ \A o \in Calls : call'[o].pc = call[o].pc
<1> DEFINE r == [call[c] EXCEPT !.reply = reply, !.body = body]
<1>1. call' = [call EXCEPT ![c] = r]
  BY StoreTypes DEF Reply
<1>2. call[c] \in CallType
  BY StoreTypes
<1>3. /\ r \in CallType /\ r.pc = call[c].pc /\ r.op = call[c].op /\ r.ids = call[c].ids
      /\ r.rev = call[c].rev /\ r.reply = reply /\ r.body = body
  BY <1>2, CallTypes
<1> HIDE DEF r
<1> QED
  BY <1>1, <1>3, StoreTypes

\* The kind of a call and the revisions it names survive an answer.
LEMMA AnswerKeeps ==
  ASSUME StoreInv, NEW c \in Calls, Moved, call'[c].pc = call[c].pc, call'[c].op = call[c].op,
         call'[c].ids = call[c].ids, call'[c].rev = call[c].rev
  PROVE  KindOk(c)' /\ RevOk(c)'
<1>1. KindOk(c) /\ RevOk(c)
  BY DEF StoreInv, StoreCallOk
<1>2. \A i, v : Held(c, i, v) => Held(c, i, v)'
  BY DEF Held, Moved
<1>3. c \in Opened' <=> c \in Opened
  BY DEF Opened
<1>4. KindOk(c)'
  BY <1>1 DEF KindOk
<1>5. RevOk(c)'
  BY <1>1, <1>2, <1>3 DEF RevOk
<1> QED
  BY <1>4, <1>5

LEMMA ServeReadOk == ASSUME StoreInv, NEW c \in Calls, ServeRead(c) PROVE StoreInv'
<1> DEFINE reply == IF db THEN "ok" ELSE "missing"
<1>1. /\ call[c].pc \in Reads /\ Reply(c, reply, docs)
      /\ UNCHANGED <<db, docs, seen, past, exists, lookup, landed, faults, foreign>>
  BY DEF ServeRead, Waits, server
<1>2. reply \in {"none", "ok", "missing", "conflict", "lost"} /\ docs \in Content
  BY StoreTypes
<1> HIDE DEF reply
<1>3. Moved
  BY <1>1, MovedOk
<1>4. c \in Opened
  BY <1>1 DEF Opened, Reads
<1>5. KindOk(c)' /\ RevOk(c)'
  BY <1>1, <1>2, <1>3, Replied, AnswerKeeps
<1>6. ReplyOk(c)'
  <2>1. docs \in seen'[c] /\ (reply = "missing" => docs = Nothing) /\ reply \in {"ok", "missing"}
    BY <1>1, <1>3, <1>4, StoreTypes DEF Moved, reply
  <2> QED
    BY <1>1, <1>2, <2>1, Replied DEF ReplyOk, Reads, Asking
<1>7. LandedOk(c)' /\ CreatedOk(c)' /\ FirstOk(c)'
  <2>1. c \notin landed /\ FirstOk(c)
    BY <1>1, <1>4, OpenIs DEF StoreCallOk, LandedOk, Reads
  <2> QED
    BY <1>1, <1>2, <2>1, Replied DEF LandedOk, CreatedOk, FirstOk, Reads
<1>8. /\ call' \in [Calls -> CallType] /\ \A o \in Calls \ {c} : call'[o] = call[o]
      /\ \A o \in Calls : call'[o].pc = call[o].pc
  BY <1>1, <1>2, Replied
<1>9. /\ db' \in BOOLEAN /\ (~db' => docs' = Nothing) /\ (db => db' \/ faults' > 0)
      /\ faults' \in Nat /\ foreign' = foreign /\ (faults > 0 => faults' > 0) /\ landed' = landed /\ landed \subseteq Calls
  BY <1>1 DEF StoreInv, StoreShape, StoreTypeOK
<1> QED
  BY <1>1, <1>3, <1>5, <1>6, <1>7, <1>8, <1>9, AnswerStep

LEMMA ServeEnsureOk == ASSUME StoreInv, NEW c \in Calls, ServeEnsure(c) PROVE StoreInv'
<1>1. /\ call[c].pc \in {"ensure", "ensureAgain"} /\ Reply(c, "ok", Nothing) /\ db' = TRUE
      /\ UNCHANGED <<docs, seen, past, exists, lookup, landed, faults, foreign>>
  BY DEF ServeEnsure, Waits
<1>2. Nothing \in Content
  BY NothingIs
<1>3. Moved
  BY <1>1, MovedOk
<1>4. c \in Opened
  BY <1>1 DEF Opened
<1>5. KindOk(c)' /\ RevOk(c)'
  BY <1>1, <1>2, <1>3, Replied, AnswerKeeps
<1>6. ReplyOk(c)'
  BY <1>1, <1>2, Replied DEF ReplyOk, Reads, Asking
<1>7. LandedOk(c)' /\ CreatedOk(c)' /\ FirstOk(c)'
  <2>1. c \notin landed /\ FirstOk(c)
    BY <1>1, <1>4, OpenIs DEF StoreCallOk, LandedOk
  <2> QED
    BY <1>1, <1>2, <2>1, Replied DEF LandedOk, CreatedOk, FirstOk
<1>8. /\ call' \in [Calls -> CallType] /\ \A o \in Calls \ {c} : call'[o] = call[o]
      /\ \A o \in Calls : call'[o].pc = call[o].pc
  BY <1>1, <1>2, Replied
<1>9. /\ db' \in BOOLEAN /\ (~db' => docs' = Nothing) /\ (db => db' \/ faults' > 0)
      /\ faults' \in Nat /\ foreign' = foreign /\ (faults > 0 => faults' > 0) /\ landed' = landed /\ landed \subseteq Calls
  BY <1>1 DEF StoreInv, StoreShape, StoreTypeOK
<1> QED
  BY <1>1, <1>3, <1>5, <1>6, <1>7, <1>8, <1>9, AnswerStep

LEMMA LoseOk == ASSUME StoreInv, NEW c \in Calls, Lose(c) PROVE StoreInv'
<1>1. /\ call[c].pc \in Reads \union Writes /\ Reply(c, "lost", Nothing) /\ faults' = faults + 1
      /\ UNCHANGED <<db, docs, seen, past, exists, lookup, landed, foreign>>
  BY DEF Lose, server
<1>2. Nothing \in Content /\ faults \in Nat
  BY NothingIs DEF StoreInv, StoreShape
<1>3. Moved
  BY <1>1, MovedOk
<1>4. c \in Opened
  BY <1>1 DEF Opened, Reads, Writes
<1>5. KindOk(c)' /\ RevOk(c)'
  BY <1>1, <1>2, <1>3, Replied, AnswerKeeps
<1>6. ReplyOk(c)'
  BY <1>1, <1>2, Replied DEF ReplyOk, Reads, Writes, Asking
<1>7. LandedOk(c)' /\ CreatedOk(c)' /\ FirstOk(c)'
  <2>1. LandedOk(c)
    BY <1>4, OpenIs DEF StoreCallOk
  <2> QED
    BY <1>1, <1>2, <2>1, Replied DEF LandedOk, CreatedOk, FirstOk
<1>8. /\ call' \in [Calls -> CallType] /\ \A o \in Calls \ {c} : call'[o] = call[o]
      /\ \A o \in Calls : call'[o].pc = call[o].pc
  BY <1>1, <1>2, Replied
<1>9. /\ db' \in BOOLEAN /\ (~db' => docs' = Nothing) /\ (db => db' \/ faults' > 0)
      /\ faults' \in Nat /\ foreign' = foreign /\ (faults > 0 => faults' > 0) /\ landed' = landed /\ landed \subseteq Calls
  BY <1>1 DEF StoreInv, StoreShape, StoreTypeOK
<1> QED
  BY <1>1, <1>3, <1>5, <1>6, <1>7, <1>8, <1>9, AnswerStep

LEMMA ForeignOk == ASSUME StoreInv, Foreign PROVE StoreInv'
<1>1. /\ db' = TRUE /\ foreign' = foreign + 1 /\ UNCHANGED <<exists, lookup, call, landed, faults>>
      /\ UNCHANGED <<docs, seen, past>> \/ \E i \in Ids, v \in {Other, Absent} : db /\ Becomes([docs EXCEPT ![i] = v])
  BY DEF Foreign, StoreInv, StoreShape, StoreTypeOK
<1>2. \A i \in Ids, v \in {Other, Absent} : [docs EXCEPT ![i] = v] \in Content
  BY StoreTypes DEF Content
<1>3. Moved
  BY <1>1, <1>2, MovedOk
<1>4. faults' \in Nat /\ foreign' \in Nat /\ (faults > 0 => faults' > 0) /\ db' \in BOOLEAN
  BY <1>1 DEF StoreInv, StoreShape
<1> QED
  BY <1>1, <1>3, <1>4, NobodyStep

LEMMA DropOk == ASSUME StoreInv, Drop PROVE StoreInv'
<1>1. /\ db' = FALSE /\ faults' = faults + 1 /\ Becomes(Nothing) /\ UNCHANGED <<exists, lookup, call, landed, foreign>>
  BY DEF Drop
<1>2. Moved /\ docs' = Nothing
  BY <1>1, NothingIs, MovedOk, BecomesOk
<1>3. faults \in Nat /\ foreign \in Nat
  BY DEF StoreInv, StoreShape
<1>4. faults' \in Nat /\ foreign' \in Nat /\ faults' > 0
  BY <1>1, <1>3
<1>5. db' \in BOOLEAN
  BY <1>1
<1> QED
  BY <1>1, <1>2, <1>4, <1>5, NobodyStep

LEMMA ServeWriteOk == ASSUME StoreInv, NEW c \in Calls, ServeWrite(c) PROVE StoreInv'
<1> DEFINE r == call[c]
           rows == IF r.pc = "bulk" THEN {i \in r.ids : r.rev[i] # Absent} ELSE r.ids
           done == {i \in rows : ~Refuses(c, i)}
           new == IF r.op = "put" THEN c ELSE Absent
           reply == IF ~db THEN "missing" ELSE IF done = rows THEN "ok" ELSE "conflict"
           d == [i \in Ids |-> IF i \in done THEN new ELSE docs[i]]
           wrote == db /\ done # {}
<1>1. /\ r.pc \in {"put", "retry", "delete", "bulk"} /\ r.reply = "none" /\ Reply(c, reply, Nothing)
      /\ IF wrote THEN Becomes(d) /\ landed' = landed \union {c} ELSE UNCHANGED <<docs, seen, past, landed>>
      /\ UNCHANGED <<db, exists, lookup, faults, foreign>>
  BY DEF ServeWrite, Waits, Writes
<1>2. c \in Opened
  BY <1>1 DEF Opened
<1>3. /\ r \in CallType /\ r.ids # {} /\ r.ids \subseteq Ids /\ StoreCallOk(c) /\ FirstOk(c) /\ faults \in Nat /\ docs \in seen[c]
      /\ c \notin landed
  BY <1>1, <1>2, OpenIs DEF StoreCallOk, LandedOk
<1>4. rows \subseteq r.ids /\ done \subseteq rows /\ (r.pc # "bulk" => rows = r.ids) /\ (\A i \in r.ids \ rows : r.rev[i] = Absent)
  OBVIOUS
<1>5. \A i \in rows : i \in done <=> docs[i] = r.rev[i]
  BY DEF Refuses
<1>6. d \in Content /\ \A i \in done : d[i] = new
  BY <1>3, <1>4, StoreTypes DEF Content
<1>7. reply \in {"none", "ok", "missing", "conflict", "lost"} /\ Nothing \in Content
  BY NothingIs
<1>8. /\ reply = "missing" <=> ~db
      /\ db => (reply = "ok" <=> done = rows)
      /\ reply \in {"ok", "missing", "conflict"}
  OBVIOUS
<1>9. new = IF r.op = "put" THEN c ELSE Absent
  OBVIOUS
<1> HIDE DEF done, rows, reply, d, new
<1>10. Moved /\ (wrote => docs' = d)
  BY <1>1, <1>6, MovedOk DEF Becomes
<1>11. KindOk(c)' /\ RevOk(c)'
  BY <1>1, <1>7, <1>10, Replied, AnswerKeeps
<1>12. call'[c].pc = r.pc /\ call'[c].op = r.op /\ call'[c].ids = r.ids /\ call'[c].rev = r.rev /\ call'[c].reply = reply
  BY <1>1, <1>7, Replied
<1>13. docs' \in seen'[c] /\ seen[c] \subseteq seen'[c] /\ \A i, v : Held(c, i, v) => Held(c, i, v)'
  BY <1>2, <1>10 DEF Moved, Held
<1>14. \A i \in r.ids : Held(c, i, r.rev[i])
  BY <1>1, <1>3 DEF StoreCallOk, RevOk
<1>15. reply = "missing" => Nothing \in seen'[c]
  BY <1>3, <1>8, <1>13, StoreTypes
<1>16. reply = "conflict" => Varied(c)'
  <2> SUFFICES ASSUME reply = "conflict" PROVE Varied(c)'
    OBVIOUS
  <2>1. PICK i \in rows : docs[i] # r.rev[i]
    BY <1>4, <1>5, <1>8
  <2>2. PICK s \in seen[c] : s[i] = r.rev[i]
    BY <1>4, <1>14, <2>1 DEF Held
  <2>3. i \in call'[c].ids /\ s \in seen'[c] /\ docs \in seen'[c] /\ s[i] # docs[i]
    BY <1>3, <1>4, <1>12, <1>13, <2>1, <2>2
  <2> QED
    BY <2>3 DEF Varied
<1>17. reply = "ok" /\ r.pc \in {"put", "retry"} => c \in landed'
  BY <1>1, <1>3, <1>4, <1>8
<1>18. reply = "ok" /\ r.pc \in {"delete", "bulk"} => \A i \in r.ids : Held(c, i, Absent)'
  <2> SUFFICES ASSUME reply = "ok", r.pc \in {"delete", "bulk"}, NEW i \in r.ids PROVE Held(c, i, Absent)'
    OBVIOUS
  <2>1. r.op # "put" /\ done = rows
    BY <1>3, <1>8 DEF StoreCallOk, KindOk
  <2>2. CASE i \in rows
    <3>1. docs'[i] = Absent
      BY <1>6, <1>8, <1>9, <1>10, <2>1, <2>2
    <3> QED
      BY <1>13, <3>1 DEF Held
  <2>3. CASE i \notin rows
    BY <1>4, <1>13, <1>14, <2>3
  <2> QED
    BY <2>2, <2>3
<1>19. r.pc = "retry" /\ reply = "missing" => faults' > 0
  BY <1>1, <1>3, <1>8 DEF StoreCallOk, CreatedOk
<1>20. ReplyOk(c)'
  BY <1>1, <1>8, <1>12, <1>15, <1>16, <1>17, <1>18, <1>19 DEF ReplyOk, Reads, Asking
<1>21. LandedOk(c)' /\ CreatedOk(c)' /\ FirstOk(c)'
  <2>1. c \in landed' => reply \notin {"none", "missing"}
    BY <1>1, <1>3, <1>8
  <2>2. LandedOk(c)'
    BY <1>1, <1>12, <2>1 DEF LandedOk
  <2>3. CreatedOk(c)'
    BY <1>1, <1>3, <1>12 DEF CreatedOk, StoreCallOk
  <2>4. FirstOk(c)'
    BY <1>1, <1>3, <1>8, <1>12 DEF FirstOk, StoreCallOk, KindOk
  <2> QED
    BY <2>2, <2>3, <2>4
<1>22. /\ call' \in [Calls -> CallType] /\ (\A o \in Calls \ {c} : call'[o] = call[o])
       /\ \A o \in Calls : call'[o].pc = call[o].pc
  BY <1>1, <1>7, Replied
<1>23. (~db' => docs' = Nothing) /\ db' \in BOOLEAN
  BY <1>1, StoreTypes DEF StoreInv, StoreShape, StoreTypeOK
<1>24. landed' \subseteq Calls /\ \A o \in Calls \ {c} : o \in landed' <=> o \in landed
  BY <1>1 DEF StoreInv, StoreShape
<1>25. faults' \in Nat /\ foreign' = foreign /\ (faults > 0 => faults' > 0) /\ UNCHANGED <<exists, lookup>>
       /\ (db => db' \/ faults' > 0)
  BY <1>1, <1>3
<1> QED
  BY <1>10, <1>11, <1>20, <1>21, <1>22, <1>23, <1>24, <1>25, AnswerStep

----------------------------------------------------------------------------
(* The start of a call, and the question its tab asks. *)

\* A call that sends its first request, or asks again, knows what it did before.
LEMMA SentOk ==
  ASSUME StoreInv, NEW o \in Calls, NEW q \in CallType, call'[o] = q, q.reply = "none", q.ids # {},
         q.op \in {"get", "put", "remove"} => \E i \in Ids : q.ids = {i}, q.op # "none",
         q.pc \in {"scan", "get", "revs", "bulk", "put", "ensure", "ask", "askAgain"},
         docs \in seen'[o], UNCHANGED <<docs, db, faults, landed>>, o \notin landed,
         q.pc \in {"ask", "askAgain"} => past'[TabOf[o]] \subseteq seen'[o],
         q.pc \in {"put", "ensure", "askAgain"} => q.op = "put", q.pc = "scan" => q.op = "list",
         q.pc \in {"revs", "bulk"} => q.op = "removeAll", q.pc = "get" => q.op \in {"get", "put", "remove"},
         \A i \in q.ids : q.rev[i] # Absent => Held(o, i, q.rev[i])',
         q.pc \in {"put", "bulk"} => \A i \in q.ids : Held(o, i, q.rev[i])',
         q.pc \in {"askAgain", "put"} => faults > 0 \/ TabOf[o] \notin Admins,
         q.pc = "get" /\ q.op = "put" => faults > 0 \/ TabOf[o] \notin Admins \/ db
  PROVE  StoreCallOk(o)' /\ FirstOk(o)'
<1>1. o \in Opened'
  BY DEF Opened
<1>2. ViewOk(o)'
  BY <1>1 DEF ViewOk, Asking
<1>3. KindOk(o)'
  BY DEF KindOk
<1>4. RevOk(o)'
  BY <1>1 DEF RevOk
<1>5. ReplyOk(o)'
  BY DEF ReplyOk, Asking, Reads
<1>6. LandedOk(o)' /\ CreatedOk(o)'
  BY DEF LandedOk, CreatedOk
<1>7. FirstOk(o)'
  <2>1. faults \in Nat
    BY DEF StoreInv, StoreShape
  <2> QED
    BY <2>1 DEF FirstOk
<1> QED
  BY <1>2, <1>3, <1>4, <1>5, <1>6, <1>7 DEF StoreCallOk

\* Whoever waits for the lookup of a tab finds one.
LEMMA AskingIs ==
  ASSUME StoreInv, NEW o \in Calls, call[o].pc \in Asking
  PROVE  /\ o \in Opened /\ lookup[TabOf[o]] # "none" /\ past[TabOf[o]] # {} /\ past[TabOf[o]] \subseteq seen[o]
         /\ docs \in past[TabOf[o]] /\ TabOf[o] \in Pages /\ o \notin landed
<1>1. o \in Opened
  BY DEF Opened, Asking
<1>2. lookup[TabOf[o]] # "none" /\ TabOf[o] \in Pages
  BY StoreAssumption DEF StoreInv, StoreShape, StoreTypeOK
<1> QED
  BY <1>1, <1>2 DEF StoreInv, TabOk, StoreCallOk, ViewOk, LandedOk, Asking

\* A call that has not begun, and what it begins with.
Opening(o, known) == [Idle EXCEPT !.op = o[1], !.ids = o[2],
                                  !.rev = [i \in Ids |-> IF i \in known THEN docs[i] ELSE Absent]]

LEMMA BeginsWith ==
  ASSUME StoreInv, NEW c \in Calls, call[c] = Idle, NEW o \in OpsOf[c], NEW known \in SUBSET Ids,
         NEW r, r = Opening(o, known)
  PROVE  /\ r \in CallType /\ r.op # "none" /\ r.ids # {} /\ (r.op \in {"get", "put", "remove"} => \E i \in Ids : r.ids = {i})
         /\ \A i \in r.ids : r.rev[i] # Absent => r.rev[i] = docs[i]
<1> DEFINE revs == [i \in Ids |-> IF i \in known THEN docs[i] ELSE Absent]
<1>1. revs \in Content /\ \A i \in Ids : revs[i] # Absent => revs[i] = docs[i]
  BY StoreTypes DEF Content
<1>2. /\ o[1] \in {"get", "list", "put", "remove", "removeAll"} /\ o[2] \subseteq Ids /\ o[2] # {}
      /\ o[1] \in {"get", "put", "remove"} => \E i \in Ids : o[2] = {i}
  BY StoreAssumption
<1> HIDE DEF revs
<1>3. r = [Idle EXCEPT !.op = o[1], !.ids = o[2], !.rev = revs]
  BY DEF revs, Opening
<1>4. r \in CallType /\ r.op = o[1] /\ r.ids = o[2] /\ r.rev = revs
  BY <1>1, <1>2, <1>3, IdleIs, CallTypes
<1> QED
  BY <1>1, <1>2, <1>4

LEMMA BeginOk == ASSUME StoreInv, NEW c \in Calls, Begin(c) PROVE StoreInv'
<1> DEFINE t == TabOf[c]
<1>1. PICK o \in OpsOf[c], known \in SUBSET Ids :
        IF KnowsNothing(t)
        THEN /\ call' = [call EXCEPT ![c] = Send(Opening(o, known), "ask")]
             /\ lookup' = [lookup EXCEPT ![t] = Joined(t)]
             /\ past' = [past EXCEPT ![t] = Question(t)]
        ELSE call' = [call EXCEPT ![c] = First(Opening(o, known))] /\ UNCHANGED <<lookup, past>>
  BY DEF Begin, Opening
<1>2. /\ call[c] = Idle /\ seen' = [seen EXCEPT ![c] = {docs} \union past[t]]
      /\ UNCHANGED <<db, docs, exists, landed, faults, foreign>>
  BY DEF Begin
<1> DEFINE r == Opening(o, known)
<1>3. /\ r \in CallType /\ r.op # "none" /\ r.ids # {} /\ (r.op \in {"get", "put", "remove"} => \E i \in Ids : r.ids = {i})
      /\ \A i \in r.ids : r.rev[i] # Absent => r.rev[i] = docs[i]
  BY <1>2, BeginsWith
<1>4. IF KnowsNothing(t)
      THEN /\ call' = [call EXCEPT ![c] = Send(r, "ask")]
           /\ lookup' = [lookup EXCEPT ![t] = Joined(t)]
           /\ past' = [past EXCEPT ![t] = Question(t)]
      ELSE call' = [call EXCEPT ![c] = First(r)] /\ UNCHANGED <<lookup, past>>
  BY <1>1
<1> HIDE DEF r
<1>5. t \in Pages /\ c \notin Opened /\ c \notin landed /\ seen'[c] = {docs} \union past[t] /\ faults \in Nat
      /\ docs \in Content /\ past[t] \subseteq Content /\ TabOk(t) /\ KnownOk(t) /\ lookup[t] \in {"none", "asked", "missing", "present", "lost"}
  BY <1>2, IdleIs, StoreTypes DEF StoreInv, StoreShape, StoreCallOk, LandedOk, Opened
<1>6. PICK q \in CallType :
        /\ call' = [call EXCEPT ![c] = q]
        /\ q.reply = "none" /\ q.op = r.op /\ q.ids = r.ids /\ q.rev = r.rev
        /\ q.pc \in {"scan", "get", "revs", "bulk", "ask"}
        /\ q.pc = "ask" <=> KnowsNothing(t)
        /\ q.pc = "scan" => q.op = "list"
        /\ q.pc = "get" => q.op \in {"get", "put", "remove"}
        /\ q.pc \in {"revs", "bulk"} => q.op = "removeAll"
        /\ q.pc = "bulk" => \A i \in q.ids : q.rev[i] # Absent
  <2>1. CASE KnowsNothing(t)
    <3>1. call' = [call EXCEPT ![c] = Send(r, "ask")] /\ "ask" \in Places
      BY <1>4, <2>1 DEF Places, Asking
    <3> QED
      BY <1>3, <2>1, <3>1, Sent
  <2>2. CASE ~KnowsNothing(t)
    <3>1. call' = [call EXCEPT ![c] = First(r)] /\ Begun(r, First(r))
      BY <1>3, <1>4, <2>2, Firsts
    <3> QED
      BY <2>2, <3>1 DEF Begun
  <2> QED
    BY <2>1, <2>2
<1>8. call' \in [Calls -> CallType] /\ call'[c] = q /\ \A x \in Calls \ {c} : call'[x] = call[x]
  BY <1>6, StoreTypes
<1>9. /\ seen' \in [Calls -> SUBSET Content] /\ \A x \in Calls \ {c} : seen'[x] = seen[x]
  BY <1>2, <1>5, StoreTypes
<1>10. /\ lookup' \in [Pages -> {"none", "asked", "missing", "present", "lost"}] /\ past' \in [Pages -> SUBSET Content]
       /\ \A x \in Pages \ {t} : lookup'[x] = lookup[x] /\ past'[x] = past[x]
       /\ lookup'[t] = lookup[t] \/ (lookup[t] = "none" /\ lookup'[t] = "asked" /\ KnowsNothing(t))
       /\ past'[t] = past[t] \/ (past[t] = {} /\ past'[t] = {docs} /\ KnowsNothing(t))
       /\ KnowsNothing(t) => lookup'[t] # "none" /\ past'[t] # {}
  <2>1. CASE KnowsNothing(t)
    <3>1. Joined(t) \in {"none", "asked", "missing", "present", "lost"} /\ Question(t) \in SUBSET Content
      BY <1>5 DEF Joined, Question
    <3>2. lookup' = [lookup EXCEPT ![t] = Joined(t)] /\ past' = [past EXCEPT ![t] = Question(t)]
      BY <1>4, <2>1
    <3>3. lookup'[t] = Joined(t) /\ past'[t] = Question(t)
      BY <1>5, <3>2, StoreTypes
    <3> QED
      BY <1>5, <2>1, <3>1, <3>2, <3>3, StoreTypes DEF Joined, Question
  <2>2. CASE ~KnowsNothing(t)
    BY <1>4, <2>2, StoreTypes
  <2> QED
    BY <2>1, <2>2
<1>7. \A i \in q.ids : q.rev[i] # Absent => q.rev[i] = docs[i]
  BY <1>3, <1>6
<1>11. \A i \in q.ids : q.rev[i] # Absent => Held(c, i, q.rev[i])'
  BY <1>5, <1>7 DEF Held
<1>12. q.pc = "bulk" => \A i \in q.ids : Held(c, i, q.rev[i])'
  BY <1>6, <1>11
<1>13. q.pc = "get" /\ q.op = "put" => faults > 0 \/ TabOf[c] \notin Admins \/ db
  BY <1>5, <1>6 DEF KnowsNothing, KnownOk
<1>14. q.pc \in {"ask", "askAgain"} => past'[t] \subseteq seen'[c]
  BY <1>5, <1>10
<1>15. StoreCallOk(c)' /\ FirstOk(c)'
  <2>1. docs \in seen'[c] /\ q.ids # {} /\ q.op # "none" /\ (q.op \in {"get", "put", "remove"} => \E i \in Ids : q.ids = {i})
    BY <1>3, <1>5, <1>6
  <2> QED
    BY <1>2, <1>5, <1>6, <1>8, <1>11, <1>12, <1>13, <1>14, <2>1, SentOk
<1>16. ASSUME NEW x \in Calls \ {c} PROVE StoreCallOk(x)' /\ FirstOk(x)'
  <2>1. ViewOk(x) /\ StoreCallOk(x) /\ FirstOk(x)
    BY DEF StoreInv, StoreCallOk
  <2>2. ASSUME call[x].pc \in Asking PROVE past'[TabOf[x]] = past[TabOf[x]]
    BY <1>10, <2>2, AskingIs
  <2>3. ViewOk(x)'
    BY <1>2, <1>8, <1>9, <2>1, <2>2 DEF ViewOk, Opened
  <2> QED
    BY <1>2, <1>5, <1>8, <1>9, <2>1, <2>3, StillOk, FirstStill
<1>17. ASSUME NEW x \in Pages PROVE TabOk(x)' /\ KnownOk(x)'
  <2>1. TabOk(x) /\ KnownOk(x)
    BY DEF StoreInv
  <2> QED
    BY <1>2, <1>5, <1>10, <2>1 DEF TabOk, KnownOk
<1>18. StoreShape'
  <2>1. ASSUME NEW x \in Calls, call'[x].pc \in Asking PROVE lookup'[TabOf[x]] # "none"
    <3>1. CASE x = c
      BY <1>6, <1>8, <1>10, <2>1, <3>1 DEF Asking
    <3>2. CASE x # c
      BY <1>8, <1>10, <2>1, <3>2, AskingIs
    <3> QED
      BY <3>1, <3>2
  <2> QED
    BY <1>2, <1>8, <1>9, <1>10, <2>1 DEF StoreInv, StoreShape, StoreTypeOK
<1> QED
  BY <1>15, <1>16, <1>17, <1>18 DEF StoreInv

\* The request of the lookup is served, or lost: only its tab's question changes.
LEMMA QuestionStep ==
  ASSUME StoreInv, NEW t \in Pages, NEW answer \in {"present", "missing", "lost"}, lookup[t] # "none",
         lookup' = [lookup EXCEPT ![t] = answer], UNCHANGED <<server, exists, call, landed, foreign>>,
         faults' \in Nat, faults > 0 => faults' > 0,
         answer = "missing" => ~db, answer = "present" => db, answer = "lost" => faults' > 0
  PROVE  StoreInv'
<1>1. /\ UNCHANGED <<db, docs, seen, past>>
      /\ lookup'[t] = answer /\ \A x \in Pages \ {t} : lookup'[x] = lookup[x]
  BY StoreTypes DEF server
<1>2. ASSUME NEW x \in Calls PROVE StoreCallOk(x)' /\ FirstOk(x)'
  <2>1. StoreCallOk(x) /\ FirstOk(x) /\ faults \in Nat
    BY DEF StoreInv, StoreShape
  <2>2. ViewOk(x)'
    BY <1>1, <2>1 DEF StoreCallOk, ViewOk, Opened
  <2> QED
    BY <1>1, <2>1, <2>2, StillOk, FirstStill
<1>3. ASSUME NEW x \in Pages PROVE TabOk(x)' /\ KnownOk(x)'
  <2>1. TabOk(x) /\ KnownOk(x) /\ (~db => docs = Nothing) /\ faults \in Nat
    BY StoreTypes DEF StoreInv, StoreShape
  <2> QED
    BY <1>1, <2>1 DEF TabOk, KnownOk
<1>4. lookup' \in [Pages -> {"none", "asked", "missing", "present", "lost"}]
  BY StoreTypes
<1>5. StoreShape'
  <2>1. ASSUME NEW x \in Calls, call[x].pc \in Asking PROVE lookup'[TabOf[x]] # "none"
    BY <1>1, <2>1, AskingIs
  <2> QED
    BY <1>1, <1>4, <2>1 DEF StoreInv, StoreShape, StoreTypeOK
<1> QED
  BY <1>2, <1>3, <1>5 DEF StoreInv

LEMMA LookupServeOk == ASSUME StoreInv, NEW t \in Pages, LookupServe(t) PROVE StoreInv'
<1>1. PICK answer \in {"present", "missing", "lost"} :
        lookup' = [lookup EXCEPT ![t] = answer] /\ (answer = "missing" <=> ~db) /\ (answer = "present" <=> db) /\ answer # "lost"
  BY DEF LookupServe
<1>2. lookup[t] # "none" /\ UNCHANGED <<server, exists, call, landed, faults, foreign>>
  BY DEF LookupServe
<1>3. faults' \in Nat
  BY <1>2 DEF StoreInv, StoreShape
<1> QED
  BY <1>1, <1>2, <1>3, QuestionStep

LEMMA LookupLostOk == ASSUME StoreInv, NEW t \in Pages, LookupLost(t) PROVE StoreInv'
<1>1. /\ lookup[t] # "none" /\ lookup' = [lookup EXCEPT ![t] = "lost"] /\ faults' = faults + 1
      /\ UNCHANGED <<server, exists, call, landed, foreign>>
  BY DEF LookupLost
<1>2. faults \in Nat
  BY DEF StoreInv, StoreShape
<1>3. faults' \in Nat /\ faults' > 0
  BY <1>1, <1>2
<1> QED
  BY <1>1, <1>3, QuestionStep

\* What the answer makes of a call that waits for it.
Answered(r, look, q) ==
  /\ q \in CallType /\ q.reply = "none" /\ q.op = r.op /\ q.ids = r.ids
  /\ \/ look # "missing" /\ Begun(r, q)
     \/ look = "missing" /\ q.pc = "done" /\ q.res = "ok" /\ q.rev = Nothing /\ r.op # "put"
          /\ (r.op \in {"get", "list"} => q.body = Nothing)
     \/ look = "missing" /\ q.rev = r.rev /\ r.op = "put" /\ r.pc = "ask" /\ q.pc = "ensure"
     \/ look = "missing" /\ q.rev = r.rev /\ r.op = "put" /\ r.pc # "ask" /\ q.pc = "put"

LEMMA ToldIs ==
  ASSUME NEW r \in CallType, r.op # "none", r.ids # {}, NEW look PROVE Answered(r, look, Told(r, look = "missing"))
<1>1. CASE look # "missing"
  <2>1. Told(r, look = "missing") = First(r)
    BY <1>1 DEF Told
  <2> QED
    BY <1>1, <2>1, Firsts DEF Answered, Begun
<1>2. CASE look = "missing" /\ r.op # "put"
  <2>1. Told(r, look = "missing") = Empty(r)
    BY <1>2 DEF Told
  <2> QED
    BY <1>2, <2>1, EmptyIs DEF Answered
<1>3. CASE look = "missing" /\ r.op = "put" /\ r.pc = "ask"
  <2>1. Told(r, look = "missing") = Send(r, "ensure") /\ "ensure" \in Places
    BY <1>3 DEF Told, Places, Writes
  <2> QED
    BY <1>3, <2>1, Sent DEF Answered
<1>4. CASE look = "missing" /\ r.op = "put" /\ r.pc # "ask"
  <2>1. Told(r, look = "missing") = Send(r, "put") /\ "put" \in Places
    BY <1>4 DEF Told, Places, Writes
  <2> QED
    BY <1>4, <2>1, Sent DEF Answered
<1> QED
  BY <1>1, <1>2, <1>3, <1>4

\* The calls that wait for the lookup of tab t, and those of them that ask again.
Waiting(t) == {c \in Calls : TabOf[c] = t /\ call[c].pc \in Asking}
Again(t) == {c \in Waiting(t) : lookup[t] = "lost" /\ call[c].op = "put" /\ call[c].pc = "ask" /\ ~exists[t]}

LEMMA LandIs ==
  ASSUME StoreInv, NEW t \in Pages, LookupLand(t)
  PROVE  /\ lookup[t] \in {"present", "missing", "lost"}
         /\ exists' = IF lookup[t] = "lost" THEN exists ELSE [exists EXCEPT ![t] = lookup[t] = "present"]
         /\ call' = [c \in Calls |->
              IF c \in Again(t) THEN Send(call[c], "askAgain")
              ELSE IF c \in Waiting(t) THEN Told(call[c], lookup[t] = "missing")
              ELSE call[c]]
         /\ lookup' = [lookup EXCEPT ![t] = IF Again(t) = {} THEN "none" ELSE "asked"]
         /\ past' = [past EXCEPT ![t] = IF Again(t) = {} THEN {} ELSE {docs}]
         /\ seen' = [c \in Calls |-> IF call'[c].pc = "done" THEN {} ELSE seen[c]]
         /\ UNCHANGED <<db, docs, landed, faults, foreign>>
BY DEF LookupLand, Waiting, Again, ForgetEnded

\* The three things that can happen to a call when the lookup lands.
LandOn(t, c) ==
  \/ c \notin Waiting(t) /\ call'[c] = call[c] /\ seen'[c] = seen[c]
  \/ /\ c \in Again(t) /\ c \in Waiting(t)
     /\ call'[c] \in CallType /\ call'[c].pc = "askAgain" /\ call'[c].reply = "none" /\ call'[c].op = call[c].op
     /\ call'[c].ids = call[c].ids /\ call'[c].rev = call[c].rev /\ seen'[c] = seen[c]
  \/ /\ c \in Waiting(t) \ Again(t) /\ Answered(call[c], lookup[t], call'[c])
     /\ seen'[c] = IF call'[c].pc = "done" THEN {} ELSE seen[c]

LEMMA LandOnOk == ASSUME StoreInv, NEW t \in Pages, LookupLand(t), NEW c \in Calls PROVE LandOn(t, c)
<1>1. /\ call'[c] = IF c \in Again(t) THEN Send(call[c], "askAgain")
                    ELSE IF c \in Waiting(t) THEN Told(call[c], lookup[t] = "missing") ELSE call[c]
      /\ seen'[c] = IF call'[c].pc = "done" THEN {} ELSE seen[c]
  <2>1. seen' = [o \in Calls |-> IF call'[o].pc = "done" THEN {} ELSE seen[o]]
    BY LandIs
  <2>2. call'[c] = IF c \in Again(t) THEN Send(call[c], "askAgain")
                   ELSE IF c \in Waiting(t) THEN Told(call[c], lookup[t] = "missing") ELSE call[c]
    BY LandIs
  <2> QED
    BY <2>1, <2>2
<1>2. call[c] \in CallType /\ StoreCallOk(c) /\ Again(t) \subseteq Waiting(t)
  BY StoreTypes DEF StoreInv, Again
<1>3. CASE c \notin Waiting(t)
  <2>1. call'[c] = call[c]
    BY <1>1, <1>2, <1>3
  <2>2. call[c].pc = "done" => seen[c] = {}
    BY <1>2 DEF StoreCallOk, ViewOk, Opened
  <2> QED
    BY <1>1, <1>3, <2>1, <2>2 DEF LandOn
<1>4. CASE c \in Again(t)
  <2>1. "askAgain" \in Places /\ call'[c] = Send(call[c], "askAgain")
    BY <1>1, <1>4 DEF Places, Asking
  <2> QED
    BY <1>1, <1>2, <1>4, <2>1, Sent DEF LandOn
<1>5. CASE c \in Waiting(t) \ Again(t)
  <2>1. call'[c] = Told(call[c], lookup[t] = "missing")
    BY <1>1, <1>5
  <2>2. call[c].op # "none" /\ call[c].ids # {}
    BY <1>2, <1>5 DEF StoreCallOk, KindOk, Waiting, Asking
  <2>4. Answered(call[c], lookup[t], call'[c])
    BY <1>2, <2>1, <2>2, ToldIs
  <2> QED
    BY <1>1, <1>5, <2>4 DEF LandOn
<1> QED
  BY <1>3, <1>4, <1>5

LEMMA LookupLandOk == ASSUME StoreInv, NEW t \in Pages, LookupLand(t) PROVE StoreInv'
<1>1. /\ lookup[t] \in {"present", "missing", "lost"}
      /\ exists' = IF lookup[t] = "lost" THEN exists ELSE [exists EXCEPT ![t] = lookup[t] = "present"]
      /\ lookup' = [lookup EXCEPT ![t] = IF Again(t) = {} THEN "none" ELSE "asked"]
      /\ past' = [past EXCEPT ![t] = IF Again(t) = {} THEN {} ELSE {docs}]
      /\ UNCHANGED <<db, docs, landed, faults, foreign>>
  BY LandIs
<1>2. /\ TabOk(t) /\ KnownOk(t) /\ docs \in past[t] /\ (lookup[t] = "missing" => Nothing \in past[t])
      /\ (lookup[t] = "lost" => faults > 0) /\ faults \in Nat
  BY <1>1 DEF StoreInv, StoreShape, TabOk
<1>3. \A c \in Calls : LandOn(t, c)
  BY LandOnOk
<1>4. /\ lookup' \in [Pages -> {"none", "asked", "missing", "present", "lost"}] /\ past' \in [Pages -> SUBSET Content]
      /\ lookup'[t] = (IF Again(t) = {} THEN "none" ELSE "asked") /\ past'[t] = (IF Again(t) = {} THEN {} ELSE {docs})
      /\ \A x \in Pages \ {t} : lookup'[x] = lookup[x] /\ past'[x] = past[x]
  BY <1>1, StoreTypes
<1>5. exists' \in [Pages -> BOOLEAN] /\ \A x \in Pages : exists'[x] => exists[x] \/ (x = t /\ lookup[t] = "present")
  <2>1. CASE lookup[t] = "lost"
    BY <1>1, <2>1, StoreTypes
  <2>2. CASE lookup[t] # "lost"
    <3>1. exists' = [exists EXCEPT ![t] = lookup[t] = "present"]
      BY <1>1, <2>2
    <3> QED
      BY <3>1, StoreTypes, Zenon
  <2> QED
    BY <2>1, <2>2
<1>6. /\ call' \in [Calls -> CallType] /\ seen' \in [Calls -> SUBSET Content]
  <2>1. /\ call' = [c \in Calls |-> call'[c]] /\ seen' = [c \in Calls |-> seen'[c]]
    BY LandIs
  <2>2. ASSUME NEW c \in Calls PROVE call'[c] \in CallType /\ seen'[c] \in SUBSET Content
    BY <1>3, StoreTypes DEF LandOn, Answered
  <2> QED
    BY <2>1, <2>2
<1>7. ASSUME NEW c \in Calls PROVE StoreCallOk(c)' /\ FirstOk(c)'
  <2>1. StoreCallOk(c) /\ FirstOk(c) /\ call[c] \in CallType /\ TabOf[c] \in Pages
    BY StoreTypes DEF StoreInv
  <2>2. CASE c \notin Waiting(t) /\ call'[c] = call[c] /\ seen'[c] = seen[c]
    <3>1. call[c].pc \in Asking => past'[TabOf[c]] = past[TabOf[c]]
      BY <1>4, <2>1, <2>2 DEF Waiting
    <3>2. ViewOk(c)'
      BY <1>1, <2>1, <2>2, <3>1 DEF StoreCallOk, ViewOk, Opened
    <3> QED
      BY <1>1, <1>2, <2>1, <2>2, <3>2, StillOk, FirstStill
  <2>3. ASSUME c \in Waiting(t)
        PROVE  /\ c \in Opened /\ call[c].ids # {} /\ (call[c].op \in {"get", "put", "remove"} => \E i \in Ids : call[c].ids = {i})
               /\ call[c].op # "none" /\ c \notin landed /\ docs \in seen[c] /\ past[t] \subseteq seen[c] /\ TabOf[c] = t
               /\ \A i \in call[c].ids : i \in Ids /\ (call[c].rev[i] # Absent => Held(c, i, call[c].rev[i]))
               /\ (call[c].pc = "askAgain" => call[c].op = "put" /\ (faults > 0 \/ TabOf[c] \notin Admins))
               /\ call[c].pc \in {"ask", "askAgain"}
    <3>1. TabOf[c] = t /\ call[c].pc \in Asking
      BY <2>3 DEF Waiting
    <3>2. /\ c \in Opened /\ past[t] \subseteq seen[c] /\ docs \in seen[c] /\ c \notin landed
      BY <1>2, <3>1, AskingIs
    <3>3. /\ call[c].ids # {} /\ (call[c].op \in {"get", "put", "remove"} => \E i \in Ids : call[c].ids = {i})
          /\ call[c].op # "none"
      BY <2>1, <3>1 DEF StoreCallOk, KindOk, Asking
    <3>4. \A i \in call[c].ids : i \in Ids /\ (call[c].rev[i] # Absent => Held(c, i, call[c].rev[i]))
      BY <2>1, <3>2, OpenIs DEF StoreCallOk, RevOk
    <3>5. call[c].pc = "askAgain" => call[c].op = "put" /\ (faults > 0 \/ TabOf[c] \notin Admins)
      BY <1>2, <2>1 DEF StoreCallOk, KindOk, FirstOk
    <3> QED
      BY <3>1, <3>2, <3>3, <3>4, <3>5 DEF Asking
  <2>4. CASE c \in Again(t) /\ c \in Waiting(t) /\ LandOn(t, c)
    <3>1. /\ call'[c] \in CallType /\ call'[c].pc = "askAgain" /\ call'[c].reply = "none" /\ call'[c].op = call[c].op
          /\ call'[c].ids = call[c].ids /\ call'[c].rev = call[c].rev /\ seen'[c] = seen[c]
      BY <2>4 DEF LandOn
    <3>2. PICK q \in CallType : q = call'[c]
      BY <3>1
    <3>3. lookup[t] = "lost" /\ call[c].op = "put"
      BY <2>4 DEF Again
    <3>4. past'[TabOf[c]] \subseteq seen'[c]
      BY <1>4, <2>3, <2>4, <3>1
    <3>5. \A i \in q.ids : q.rev[i] # Absent => Held(c, i, q.rev[i])'
      BY <2>3, <2>4, <3>1, <3>2 DEF Held
    <3>6. /\ call'[c] = q /\ q.reply = "none" /\ q.ids # {} /\ (q.op \in {"get", "put", "remove"} => \E i \in Ids : q.ids = {i})
          /\ q.op = "put" /\ q.pc = "askAgain" /\ docs \in seen'[c] /\ c \notin landed /\ faults > 0
      BY <1>2, <2>3, <2>4, <3>1, <3>2, <3>3
    <3> QED
      BY <1>1, <3>4, <3>5, <3>6, SentOk
  <2>5. CASE c \in Waiting(t) \ Again(t) /\ Answered(call[c], lookup[t], call'[c]) /\ call'[c].pc = "done" /\ seen'[c] = {}
    <3>1. c \notin Opened' /\ call'[c].ids # {} /\ (call'[c].op \in {"get", "put", "remove"} => \E i \in Ids : call'[c].ids = {i})
          /\ call'[c].reply = "none"
      BY <2>3, <2>5 DEF Answered, Opened
    <3>2. ViewOk(c)' /\ KindOk(c)' /\ RevOk(c)'
      BY <2>5, <3>1 DEF ViewOk, KindOk, RevOk, Asking
    <3>3. ReplyOk(c)' /\ LandedOk(c)' /\ CreatedOk(c)' /\ FirstOk(c)'
      BY <2>5, <3>1 DEF ReplyOk, LandedOk, CreatedOk, FirstOk, Reads, Asking
    <3> QED
      BY <3>2, <3>3 DEF StoreCallOk
  <2>6. CASE c \in Waiting(t) \ Again(t) /\ Answered(call[c], lookup[t], call'[c]) /\ call'[c].pc # "done" /\ seen'[c] = seen[c]
    <3>1. PICK q \in CallType : q = call'[c]
      BY <2>6 DEF Answered
    <3>2. /\ call'[c] = q /\ q.reply = "none" /\ q.ids # {} /\ (q.op \in {"get", "put", "remove"} => \E i \in Ids : q.ids = {i})
          /\ q.op # "none" /\ docs \in seen'[c] /\ c \notin landed /\ q.op = call[c].op /\ q.ids = call[c].ids /\ q.rev = call[c].rev
      BY <2>3, <2>6, <3>1 DEF Answered, Begun
    <3>3. \/ q.pc \in {"scan", "get", "revs", "bulk"} /\ lookup[t] # "missing"
          \/ q.pc \in {"ensure", "put"} /\ lookup[t] = "missing"
      BY <2>6, <3>1 DEF Answered, Begun
    <3>4. /\ (q.pc = "scan" => q.op = "list") /\ (q.pc \in {"revs", "bulk"} => q.op = "removeAll")
          /\ (q.pc = "get" => q.op \in {"get", "put", "remove"}) /\ (q.pc \in {"put", "ensure"} => q.op = "put")
          /\ (q.pc = "bulk" => \A i \in q.ids : q.rev[i] # Absent)
      BY <2>6, <3>1 DEF Answered, Begun
    <3>5. \A i \in q.ids : q.rev[i] # Absent => Held(c, i, q.rev[i])'
      BY <2>3, <2>6, <3>2 DEF Held
    <3>6. q.pc \in {"put", "bulk"} => \A i \in q.ids : Held(c, i, q.rev[i])'
      <4>1. lookup[t] = "missing" => Nothing \in seen'[c]
        BY <1>2, <2>3, <2>6
      <4>2. lookup[t] = "missing" => \A i \in q.ids : q.rev[i] = Absent => Held(c, i, q.rev[i])'
        BY <2>3, <2>6, <3>2, <4>1, NothingIs DEF Held
      <4> QED
        BY <3>3, <3>4, <3>5, <4>2
    <3>7. q.pc \in {"askAgain", "put"} => faults > 0 \/ TabOf[c] \notin Admins
      BY <2>3, <2>6, <3>1 DEF Answered, Begun
    <3>8. q.pc = "get" /\ q.op = "put" => faults > 0 \/ TabOf[c] \notin Admins \/ db
      BY <1>1, <1>2, <3>3 DEF KnownOk
    <3> QED
      BY <1>1, <3>2, <3>3, <3>4, <3>5, <3>6, <3>7, <3>8, SentOk
  <2> QED
    BY <1>3, <2>2, <2>4, <2>5, <2>6 DEF LandOn
<1>8. ASSUME NEW x \in Pages PROVE TabOk(x)' /\ KnownOk(x)'
  <2>1. TabOk(x) /\ KnownOk(x)
    BY DEF StoreInv
  <2>2. TabOk(x)'
    BY <1>1, <1>4, <2>1 DEF TabOk
  <2>3. KnownOk(x)'
    BY <1>1, <1>2, <1>4, <1>5, <2>1 DEF KnownOk
  <2> QED
    BY <2>2, <2>3
<1>9. ASSUME NEW c \in Calls, call'[c].pc \in Asking PROVE lookup'[TabOf[c]] # "none"
  <2>1. CASE c \notin Waiting(t) /\ call'[c] = call[c]
    BY <1>4, <1>9, <2>1, AskingIs DEF Waiting
  <2>2. CASE c \in Again(t)
    BY <1>4, <2>2 DEF Again, Waiting
  <2>3. CASE c \in Waiting(t) \ Again(t) /\ Answered(call[c], lookup[t], call'[c])
    BY <1>9, <2>3 DEF Answered, Begun, Asking
  <2> QED
    BY <1>3, <2>1, <2>2, <2>3 DEF LandOn
<1>10. StoreShape'
  BY <1>1, <1>4, <1>5, <1>6, <1>9 DEF StoreInv, StoreShape, StoreTypeOK
<1> QED
  BY <1>7, <1>8, <1>10 DEF StoreInv

LEMMA StoreInitOk == StoreInit => StoreInv
<1> SUFFICES ASSUME StoreInit PROVE StoreInv
  OBVIOUS
<1>1. /\ db \in BOOLEAN /\ docs \in Content /\ (~db => docs = Nothing) /\ exists \in [Pages -> BOOLEAN]
      /\ lookup \in [Pages -> {"none", "asked", "missing", "present", "lost"}] /\ call \in [Calls -> CallType]
      /\ seen \in [Calls -> SUBSET Content] /\ past \in [Pages -> SUBSET Content] /\ landed = {} /\ faults = 0 /\ foreign = 0
      /\ (\A c \in Calls : call[c] = Idle /\ seen[c] = {})
      /\ \A t \in Pages : ~exists[t] /\ lookup[t] = "none" /\ past[t] = {}
  BY IdleIs DEF StoreInit, Content
<1>2. StoreShape
  BY <1>1, IdleIs DEF StoreShape, StoreTypeOK, Content, Asking
<1>3. ASSUME NEW c \in Calls PROVE StoreCallOk(c) /\ FirstOk(c)
  <2>1. call[c].pc = "idle" /\ call[c].reply = "none" /\ call[c].op = "none" /\ seen[c] = {} /\ c \notin Opened /\ c \notin landed
    BY <1>1, IdleIs DEF Opened
  <2>2. ViewOk(c) /\ KindOk(c) /\ RevOk(c) /\ LandedOk(c) /\ CreatedOk(c) /\ FirstOk(c)
    BY <2>1 DEF ViewOk, KindOk, RevOk, LandedOk, CreatedOk, FirstOk, Asking
  <2>3. ReplyOk(c)
    BY <2>1 DEF ReplyOk, Reads
  <2> QED
    BY <2>2, <2>3 DEF StoreCallOk
<1>4. ASSUME NEW t \in Pages PROVE TabOk(t) /\ KnownOk(t)
  BY <1>1 DEF TabOk, KnownOk
<1> QED
  BY <1>2, <1>3, <1>4 DEF StoreInv

LEMMA StoreStutter == ASSUME StoreInv, UNCHANGED storeVars PROVE StoreInv'
<1> SUFFICES StoreInv' = StoreInv
  OBVIOUS
<1> QED
  BY DEF storeVars, StoreInv, StoreShape, StoreTypeOK, Asking, CallType, Reads, Writes, StoreCallOk, ViewOk, Opened, KindOk, RevOk,
         ReplyOk, LandedOk, CreatedOk, FirstOk, TabOk, KnownOk, Held, Varied, Nothing

LEMMA StoreStep == ASSUME StoreInv, [StoreNext]_storeVars PROVE StoreInv'
<1>1. ASSUME NEW c \in Calls, Begin(c) \/ Serve(c) \/ Land(c) \/ Lose(c) PROVE StoreInv'
  BY <1>1, BeginOk, ServeReadOk, ServeWriteOk, ServeEnsureOk, LandGetOk, LandPutOk, LandEnsureOk, LandScanOk, LandRevsOk,
     LandDeleteOk, LoseOk DEF Serve, Land
<1>2. ASSUME NEW t \in Pages, LookupServe(t) \/ LookupLand(t) \/ LookupLost(t) PROVE StoreInv'
  BY <1>2, LookupServeOk, LookupLandOk, LookupLostOk
<1>3. CASE Foreign \/ Drop
  BY <1>3, ForeignOk, DropOk
<1>4. CASE UNCHANGED storeVars
  BY <1>4, StoreStutter
<1> QED
  BY <1>1, <1>2, <1>3, <1>4 DEF StoreNext

LEMMA StoreAlways == StoreSpec => []StoreInv
BY StoreInitOk, StoreStep, PTL DEF StoreSpec

(* The store's documents, requests and answers have their types, for any ids,     *)
(* tabs and calls.                                                                *)
THEOREM StoreTypesHold == StoreSpec => []StoreTypeOK
<1>1. StoreInv => StoreTypeOK
  BY DEF StoreInv, StoreShape
<1> QED
  BY <1>1, StoreAlways, PTL

(* As long as nothing fails and nobody drops the database, a session that may     *)
(* list databases is never sent back by a 404 to create it after its first write. *)
THEOREM FirstWritesFindIt == StoreSpec => []FirstWriteNever404s
<1>1. StoreInv => FirstWriteNever404s
  BY DEF StoreInv, FirstOk, FirstWriteNever404s
<1> QED
  BY <1>1, StoreAlways, PTL

----------------------------------------------------------------------------
(* The store keeps DocStore's promise: what each step is, to the callers.         *)

\* What a call that ends may say of the store.
Says(c, q) ==
  /\ q.ids = call[c].ids
  /\ q.res \in {"ok", "conflict", "failed"}
  /\ q.res = "failed" => faults > 0
  /\ q.res = "conflict" => Varied(c)
  /\ q.res = "ok" /\ q.op \in {"get", "list"} => q.body \in seen[c]
  /\ q.res = "ok" /\ q.op = "put" => c \in landed
  /\ q.res = "ok" /\ q.op \in {"remove", "removeAll"} => \A i \in q.ids : Held(c, i, Absent)

LEMMA SaysIsTrue ==
  ASSUME NEW c \in Calls, NEW q, Says(c, q)
  PROVE  Promise!True(c, [op |-> q.op, ids |-> q.ids, res |-> q.res, val |-> q.body])
<1> DEFINE e == [op |-> q.op, ids |-> q.ids, res |-> q.res, val |-> q.body]
<1>1. e.op = q.op /\ e.ids = q.ids /\ e.res = q.res /\ e.val = q.body
  OBVIOUS
<1> HIDE DEF e
<1>2. Promise!True(c, e)
  BY <1>1 DEF Promise!True, Promise!Changed, Says, Varied, Held
<1> QED
  BY <1>2 DEF e

LEMMA SaidOk ==
  ASSUME StoreInv, NEW c \in Calls, c \in Opened, call[c].reply # "lost" => Says(c, Done(call[c], "ok"))
  PROVE  Says(c, Done(call[c], IF call[c].reply = "lost" THEN "failed" ELSE "ok"))
<1>1. CASE call[c].reply # "lost"
  BY <1>1
<1>2. CASE call[c].reply = "lost"
  <2>1. Done(call[c], "failed").res = "failed" /\ Done(call[c], "failed").ids = call[c].ids /\ faults > 0
    BY <1>2, OpenIs, DoneIs DEF StoreCallOk, ReplyOk
  <2> QED
    BY <1>2, <2>1 DEF Says
<1> QED
  BY <1>1, <1>2

LEMMA LandGetSays ==
  ASSUME StoreInv, NEW c \in Calls, LandGet(c), call'[c].pc = "done" PROVE Says(c, call'[c])
<1> DEFINE r == call[c]
<1>1. /\ r.pc = "get" /\ r.reply # "none"
      /\ call' = [call EXCEPT ![c] =
           IF r.reply = "lost" THEN Done(r, "failed")
           ELSE IF r.op = "get" THEN Done(r, "ok")
           ELSE IF r.op = "put" THEN Send([r EXCEPT !.rev = r.body], "put")
           ELSE IF FoundAny(c) THEN Send([r EXCEPT !.rev = r.body], "delete") ELSE Empty(r)]
  BY DEF LandGet, Arrives
<1>2. c \in Opened
  BY <1>1 DEF Opened
<1>3. r \in CallType /\ r.op \in {"get", "put", "remove"} /\ StoreCallOk(c)
  BY <1>1, <1>2, OpenIs DEF StoreCallOk, KindOk
<1>4. (r.reply = "lost" => faults > 0) /\ (r.reply # "lost" => r.body \in seen[c])
  BY <1>1, <1>3, CallTypes DEF StoreCallOk, ReplyOk, Reads
<1>5. CASE r.reply = "lost" \/ r.op = "get"
  <2>1. call'[c] = IF r.reply = "lost" THEN Done(r, "failed") ELSE Done(r, "ok")
    BY <1>1, <1>5, StoreTypes
  <2> QED
    BY <1>3, <1>4, <1>5, <2>1, DoneIs DEF Says
<1>6. CASE r.reply # "lost" /\ r.op = "put"
  <2>1. call'[c] = Send([r EXCEPT !.rev = r.body], "put")
    BY <1>1, <1>6, StoreTypes
  <2> QED
    BY <2>1 DEF Send
<1>7. CASE r.reply # "lost" /\ r.op = "remove" /\ FoundAny(c)
  <2>1. call'[c] = Send([r EXCEPT !.rev = r.body], "delete")
    BY <1>1, <1>7, StoreTypes
  <2> QED
    BY <2>1 DEF Send
<1>8. CASE r.reply # "lost" /\ r.op = "remove" /\ ~FoundAny(c)
  <2>1. call'[c] = Empty(r)
    BY <1>1, <1>8, StoreTypes
  <2>2. ASSUME NEW i \in r.ids PROVE Held(c, i, Absent)
    <3>1. CASE r.reply = "ok"
      BY <1>4, <1>8, <2>2, <3>1 DEF FoundAny, Held
    <3>2. CASE r.reply = "missing"
      BY <1>2, <1>3, <3>2, <2>2, OpenIs, NothingIs DEF StoreCallOk, ReplyOk, Held
    <3> QED
      BY <1>1, <1>3, <1>8, <3>1, <3>2, CallTypes DEF StoreCallOk, ReplyOk
  <2> QED
    BY <1>3, <1>8, <2>1, <2>2, EmptyIs DEF Says
<1> QED
  BY <1>3, <1>5, <1>6, <1>7, <1>8

LEMMA LandPutSays ==
  ASSUME StoreInv, NEW c \in Calls, LandPut(c), call'[c].pc = "done" PROVE Says(c, call'[c])
<1> DEFINE r == call[c]
<1>1. /\ r.pc \in {"put", "retry"} /\ r.reply # "none"
      /\ call' = [call EXCEPT ![c] =
           IF r.reply = "missing" THEN IF r.pc = "put" THEN Send(r, "ensureAgain") ELSE Done(r, "failed")
           ELSE Done(r, IF r.reply = "lost" THEN "failed" ELSE r.reply)]
  BY DEF LandPut, Arrives
<1>2. c \in Opened
  BY <1>1 DEF Opened
<1>3. r \in CallType /\ r.op = "put" /\ StoreCallOk(c)
  BY <1>1, <1>2, OpenIs DEF StoreCallOk, KindOk
<1>4. CASE r.reply = "missing" /\ r.pc = "put"
  <2>1. call'[c] = Send(r, "ensureAgain")
    BY <1>1, <1>4, StoreTypes
  <2> QED
    BY <2>1 DEF Send
<1>5. CASE ~(r.reply = "missing" /\ r.pc = "put")
  <2>1. PICK res \in {"ok", "conflict", "failed"} : call'[c] = Done(r, res)
             /\ (res = "failed" => r.reply \in {"lost", "missing"}) /\ (res # "failed" => res = r.reply)
    BY <1>1, <1>3, <1>5, StoreTypes, CallTypes
  <2>2. call'[c].res = res /\ call'[c].op = "put" /\ call'[c].ids = r.ids
    BY <1>3, <2>1, DoneIs
  <2>3. (r.reply = "lost" \/ r.reply = "missing" => faults > 0) /\ (r.reply = "conflict" => Varied(c)) /\ (r.reply = "ok" => c \in landed)
    BY <1>1, <1>3, <1>5 DEF StoreCallOk, ReplyOk
  <2> QED
    BY <2>1, <2>2, <2>3 DEF Says
<1> QED
  BY <1>4, <1>5

LEMMA LandEnsureSays ==
  ASSUME StoreInv, NEW c \in Calls, LandEnsure(c), call'[c].pc = "done" PROVE Says(c, call'[c])
<1> DEFINE r == call[c]
<1>1. r.pc \in {"ensure", "ensureAgain"}
  BY DEF LandEnsure, Arrives
<1>2. c \in Opened
  BY <1>1 DEF Opened
<1>3. CASE r.reply = "lost"
  <2>1. call'[c] = Done(r, "failed")
    BY <1>3, StoreTypes DEF LandEnsure
  <2>2. Done(r, "failed").res = "failed" /\ Done(r, "failed").ids = r.ids /\ faults > 0
    BY <1>2, <1>3, OpenIs, DoneIs DEF StoreCallOk, ReplyOk
  <2> QED
    BY <2>1, <2>2 DEF Says
<1>4. CASE r.reply # "lost"
  <2>1. call'[c] = Send(r, IF r.pc = "ensure" THEN "get" ELSE "retry")
    BY <1>4, StoreTypes DEF LandEnsure
  <2> QED
    BY <2>1 DEF Send
<1> QED
  BY <1>3, <1>4

LEMMA LandScanSays == ASSUME StoreInv, NEW c \in Calls, LandScan(c) PROVE Says(c, call'[c])
<1> DEFINE r == call[c]
<1>1. /\ r.pc = "scan" /\ r.reply # "none" /\ call'[c] = Done(r, IF r.reply = "lost" THEN "failed" ELSE "ok")
  BY StoreTypes DEF LandScan, Arrives
<1>2. c \in Opened
  BY <1>1 DEF Opened
<1>3. r \in CallType /\ r.op = "list" /\ StoreCallOk(c)
  BY <1>1, <1>2, OpenIs DEF StoreCallOk, KindOk
<1>4. r.reply # "lost" => r.body \in seen[c]
  BY <1>1, <1>3, CallTypes DEF StoreCallOk, ReplyOk, Reads
<1>5. r.reply # "lost" => Says(c, Done(r, "ok"))
  BY <1>3, <1>4, DoneIs DEF Says
<1> QED
  BY <1>1, <1>2, <1>5, SaidOk

LEMMA LandRevsSays ==
  ASSUME StoreInv, NEW c \in Calls, LandRevs(c), call'[c].pc = "done" PROVE Says(c, call'[c])
<1> DEFINE r == call[c]
           found == [i \in Ids |-> IF i \in r.ids /\ r.rev[i] = Absent THEN r.body[i] ELSE r.rev[i]]
           q == [r EXCEPT !.rev = found]
<1>1. /\ r.pc = "revs" /\ r.reply # "none" /\ call'[c] = IF r.reply = "lost" THEN Done(r, "failed") ELSE Sweep(q)
  BY StoreTypes DEF LandRevs, Arrives
<1>2. c \in Opened
  BY <1>1 DEF Opened
<1>3. r \in CallType /\ r.op = "removeAll" /\ StoreCallOk(c) /\ r.ids \subseteq Ids
  BY <1>1, <1>2, OpenIs DEF StoreCallOk, KindOk
<1>4. found \in Content
  BY <1>3, CallTypes DEF Content
<1>5. q \in CallType /\ q.op = r.op /\ q.ids = r.ids /\ q.rev = found
  BY <1>3, <1>4, CallTypes
<1>6. (r.reply = "lost" => faults > 0) /\ (r.reply # "lost" => r.body \in seen[c])
  BY <1>1, <1>3, CallTypes DEF StoreCallOk, ReplyOk, Reads
<1>7. \A i \in r.ids : found[i] = IF r.rev[i] = Absent THEN r.body[i] ELSE r.rev[i]
  BY <1>3
<1> HIDE DEF q, found
<1>8. CASE r.reply = "lost"
  BY <1>1, <1>3, <1>6, <1>8, DoneIs DEF Says
<1>9. CASE r.reply # "lost" /\ \E i \in q.ids : q.rev[i] # Absent
  <2>1. call'[c] = Send(q, "bulk")
    BY <1>1, <1>5, <1>9, Sweeps
  <2> QED
    BY <2>1 DEF Send
<1>10. CASE r.reply # "lost" /\ \A i \in q.ids : q.rev[i] = Absent
  <2>1. call'[c] = Empty(q)
    BY <1>1, <1>5, <1>10, Sweeps
  <2>2. \A i \in r.ids : Held(c, i, Absent)
    BY <1>5, <1>6, <1>7, <1>10 DEF Held
  <2> QED
    BY <1>3, <1>5, <2>1, <2>2, EmptyIs DEF Says
<1> QED
  BY <1>8, <1>9, <1>10

LEMMA LandDeleteSays == ASSUME StoreInv, NEW c \in Calls, LandDelete(c) PROVE Says(c, call'[c])
<1> DEFINE r == call[c]
           res == IF r.reply = "lost" THEN "failed"
                  ELSE IF r.reply = "missing" THEN IF r.pc = "bulk" THEN "ok" ELSE "conflict"
                  ELSE r.reply
<1>1. /\ r.pc \in {"delete", "bulk"} /\ r.reply # "none" /\ call'[c] = Done(r, res)
  BY StoreTypes DEF LandDelete, Arrives, Verdict
<1>2. c \in Opened
  BY <1>1 DEF Opened
<1>3. r \in CallType /\ r.op \in {"remove", "removeAll"} /\ StoreCallOk(c) /\ (r.pc = "bulk" => r.op = "removeAll")
  BY <1>1, <1>2, OpenIs DEF StoreCallOk, KindOk
<1>4. res \in {"ok", "conflict", "failed"} /\ (res = "failed" => r.reply = "lost")
      /\ (res = "ok" => r.reply = "ok" \/ r.reply = "missing")
      /\ (res = "conflict" => r.reply = "conflict" \/ (r.reply = "missing" /\ r.pc = "delete"))
  BY <1>1, <1>3, CallTypes
<1> HIDE DEF res
<1>5. call'[c].res = res /\ call'[c].op = r.op /\ call'[c].ids = r.ids
  BY <1>1, <1>3, <1>4, DoneIs
<1>6. res = "failed" => faults > 0
  BY <1>3, <1>4 DEF StoreCallOk, ReplyOk
<1>7. r.reply = "missing" => \A i \in r.ids : Held(c, i, Absent)
  BY <1>2, <1>3, OpenIs, NothingIs DEF StoreCallOk, ReplyOk, Held
<1>8. res = "conflict" => Varied(c)
  <2>1. CASE r.reply = "conflict"
    BY <1>3, <2>1 DEF StoreCallOk, ReplyOk
  <2>2. CASE r.reply = "missing" /\ r.pc = "delete"
    <3>1. PICK i \in r.ids : r.rev[i] # Absent /\ Held(c, i, r.rev[i]) /\ Held(c, i, Absent)
      BY <1>3, <1>7, <2>2 DEF StoreCallOk, RevOk
    <3> QED
      BY <3>1 DEF Held, Varied
  <2> QED
    BY <1>4, <2>1, <2>2
<1>9. res = "ok" => \A i \in r.ids : Held(c, i, Absent)
  BY <1>1, <1>3, <1>4, <1>7 DEF StoreCallOk, ReplyOk
<1> QED
  BY <1>3, <1>4, <1>5, <1>6, <1>8, <1>9 DEF Says

\* To the callers nothing happened: no call started or ended.
LEMMA QuietStep ==
  ASSUME StoreInv, StoreInv', UNCHANGED <<docs, seen, past, landed, faults>>,
         \A o \in Calls : call'[o] = call[o] \/ (o \in Opened /\ o \in Opened')
  PROVE  UNCHANGED Promise!vars
<1>1. Opened' = Opened
  BY DEF Opened
<1>2. Ended' = Ended
  <2>1. ASSUME NEW o \in Calls PROVE call'[o] = call[o] \/ (call[o].pc # "done" /\ call'[o].pc # "done")
    BY DEF Opened
  <2> QED
    BY <2>1 DEF Ended
<1> QED
  BY <1>1, <1>2 DEF Promise!vars

\* Requests are answered while their calls stay open.
LEMMA SameCalls ==
  ASSUME \A o \in Calls : call'[o] = call[o] \/ (o \in Opened /\ o \in Opened')
  PROVE  Opened' = Opened /\ Ended' = Ended
<1>1. ASSUME NEW o \in Calls PROVE call'[o] = call[o] \/ (call[o].pc # "done" /\ call'[o].pc # "done")
  BY DEF Opened
<1> QED
  BY <1>1 DEF Ended, Opened

LEMMA AnswersKeepOpen ==
  ASSUME StoreInv, NEW c \in Calls, c \in Opened, NEW reply, NEW body, Reply(c, reply, body)
  PROVE  \A o \in Calls : call'[o] = call[o] \/ (o \in Opened /\ o \in Opened')
<1>1. \A o \in Calls \ {c} : call'[o] = call[o]
  BY StoreTypes DEF Reply
<1>2. call'[c].pc = call[c].pc
  BY StoreTypes, CallTypes DEF Reply
<1> QED
  BY <1>1, <1>2 DEF Opened

LEMMA EndMaps ==
  ASSUME StoreInv, StoreInv', NEW c \in Calls, c \in Opened, KeepServer, UNCHANGED <<landed, faults>>,
         \A o \in Calls \ {c} : call'[o] = call[o], call'[c].pc # "idle",
         call'[c].pc = "done" => Says(c, call'[c])
  PROVE  [Promise!Next]_Promise!vars
<1>1. /\ docs' = docs /\ past' = past /\ seen' = [o \in Calls |-> IF call'[o].pc = "done" THEN {} ELSE seen[o]]
  BY DEF KeepServer, ForgetEnded
<1>2. \A o \in Calls \ {c} : seen'[o] = seen[o]
  BY <1>1 DEF StoreInv, StoreCallOk, ViewOk, Opened
<1>3. CASE call'[c].pc # "done"
  <2>1. \A o \in Calls : call'[o] = call[o] \/ (o \in Opened /\ o \in Opened')
    BY <1>3 DEF Opened
  <2>2. seen' = seen
    BY <1>1, <1>2, <1>3, StoreTypes
  <2> QED
    BY <1>1, <2>1, <2>2, QuietStep
<1>4. CASE call'[c].pc = "done"
  <2>1. Opened' = Opened \ {c}
    BY <1>4 DEF Opened
  <2>2. \A o \in Calls \ {c} : Ended'[o] = Ended[o]
    BY DEF Ended
  <2>3. Ended'[c] = [op |-> call'[c].op, ids |-> call'[c].ids, res |-> call'[c].res, val |-> call'[c].body]
    BY <1>4 DEF Ended
  <2>4. PICK q : q = call'[c]
    OBVIOUS
  <2>5. Promise!True(c, [op |-> q.op, ids |-> q.ids, res |-> q.res, val |-> q.body])
    BY <1>4, <2>4, SaysIsTrue
  <2>6. Promise!True(c, Ended'[c])
    BY <2>3, <2>4, <2>5
  <2>7. seen'[c] = {}
    BY <1>1, <1>4
  <2> DEFINE C == {c}
  <2>8. /\ C \subseteq Opened /\ Opened' = Opened \ C
        /\ \A o \in Calls : IF o \in C THEN Promise!True(o, Ended'[o]) ELSE Ended'[o] = Ended[o]
        /\ \A o \in Calls : seen'[o] = seen[o] \/ (o \in C /\ seen'[o] = {})
    BY <1>2, <2>1, <2>2, <2>6, <2>7
  <2>9. C \in SUBSET Calls /\ TabOf[c] \in Pages
    BY StoreTypes
  <2> HIDE DEF C
  <2>10. Promise!End(TabOf[c], C)
    BY <1>1, <2>8 DEF Promise!End
  <2> QED
    BY <2>9, <2>10 DEF Promise!Next
<1> QED
  BY <1>3, <1>4

LEMMA LandMaps == ASSUME StoreInv, StoreInv', NEW c \in Calls, Land(c) PROVE [Promise!Next]_Promise!vars
<1>1. /\ KeepServer /\ UNCHANGED <<landed, faults>> /\ c \in Opened
  BY DEF Land, LandGet, LandPut, LandEnsure, LandScan, LandRevs, LandDelete, Arrives, Opened
<1>2. \A o \in Calls \ {c} : call'[o] = call[o]
  BY StoreTypes DEF Land, LandGet, LandPut, LandEnsure, LandScan, LandRevs, LandDelete
<1>3. call'[c].pc # "idle"
  <2>1. call[c] \in CallType
    BY StoreTypes
  <2>2. CASE LandGet(c)
    BY <2>1, <2>2, StoreTypes DEF LandGet, Send, Done, Empty
  <2>3. CASE LandPut(c)
    BY <2>1, <2>3, StoreTypes DEF LandPut, Send, Done
  <2>4. CASE LandEnsure(c)
    <3>1. call'[c] = Done(call[c], "failed") \/ call'[c] = Send(call[c], "get") \/ call'[c] = Send(call[c], "retry")
      BY <2>4, StoreTypes DEF LandEnsure
    <3> QED
      BY <2>1, <3>1, Sent, DoneIs DEF Places, Reads, Writes
  <2>5. CASE LandScan(c)
    BY <2>1, <2>5, StoreTypes DEF LandScan, Done
  <2>6. CASE LandRevs(c)
    BY <2>1, <2>6, StoreTypes DEF LandRevs, Sweep, Send, Done, Empty
  <2>7. CASE LandDelete(c)
    BY <2>1, <2>7, StoreTypes DEF LandDelete, Done
  <2> QED
    BY <2>2, <2>3, <2>4, <2>5, <2>6, <2>7 DEF Land
<1>4. call'[c].pc = "done" => Says(c, call'[c])
  BY LandGetSays, LandPutSays, LandEnsureSays, LandScanSays, LandRevsSays, LandDeleteSays DEF Land
<1> QED
  BY <1>1, <1>2, <1>3, <1>4, EndMaps

LEMMA ServeMaps ==
  ASSUME StoreInv, StoreInv', NEW c \in Calls, ServeRead(c) \/ ServeEnsure(c) PROVE [Promise!Next]_Promise!vars
<1>1. c \in Opened /\ UNCHANGED <<docs, seen, past, landed, faults>> /\ \E reply, body : Reply(c, reply, body)
  BY DEF ServeRead, ServeEnsure, Waits, Reads, Opened, server
<1>2. PICK reply, body : Reply(c, reply, body)
  BY <1>1
<1>3. \A o \in Calls : call'[o] = call[o] \/ (o \in Opened /\ o \in Opened')
  BY <1>1, <1>2, AnswersKeepOpen
<1> QED
  BY <1>1, <1>3, QuietStep

LEMMA WriteMaps == ASSUME StoreInv, StoreInv', NEW c \in Calls, ServeWrite(c) PROVE [Promise!Next]_Promise!vars
<1> DEFINE r == call[c]
           rows == IF r.pc = "bulk" THEN {i \in r.ids : r.rev[i] # Absent} ELSE r.ids
           done == {i \in rows : ~Refuses(c, i)}
           new == IF r.op = "put" THEN c ELSE Absent
           reply == IF ~db THEN "missing" ELSE IF done = rows THEN "ok" ELSE "conflict"
           d == [i \in Ids |-> IF i \in done THEN new ELSE docs[i]]
<1>1. /\ r.pc \in {"put", "retry", "delete", "bulk"} /\ r.reply = "none" /\ Reply(c, reply, Nothing)
      /\ IF db /\ done # {} THEN Becomes(d) /\ landed' = landed \union {c} ELSE UNCHANGED <<docs, seen, past, landed>>
      /\ UNCHANGED <<db, exists, lookup, faults, foreign>>
  BY DEF ServeWrite, Waits, Writes
<1>2. c \in Opened
  BY <1>1 DEF Opened
<1>3. r.ids \subseteq Ids /\ c \notin landed /\ StoreCallOk(c) /\ (r.op = "put" => \E i \in Ids : r.ids = {i})
  BY <1>1, <1>2, OpenIs DEF StoreCallOk, LandedOk
<1>4. \A o \in Calls : call'[o] = call[o] \/ (o \in Opened /\ o \in Opened')
  BY <1>1, <1>2, AnswersKeepOpen
<1>5. CASE ~(db /\ done # {})
  BY <1>1, <1>4, <1>5, QuietStep
<1>6. CASE db /\ done # {}
  <2>1. Becomes(d) /\ landed' = landed \union {c} /\ faults' = faults
    BY <1>1, <1>6
  <2>2. Opened' = Opened /\ Ended' = Ended
    BY <1>4, SameCalls
  <2>3. done \subseteq Ids
    BY <1>3
  <2>4. Promise!Becomes(d)
    BY <2>1 DEF Becomes, Promise!Becomes
  <2>5. CASE r.op = "put"
    <3>1. PICK i \in Ids : r.ids = {i}
      BY <1>3, <2>5
    <3>2. done = {i}
      BY <1>3, <1>6, <2>5, <3>1 DEF StoreCallOk, KindOk
    <3>3. d = [docs EXCEPT ![i] = c]
      BY <2>5, <3>2, StoreTypes DEF Content
    <3>4. Promise!Becomes([docs EXCEPT ![i] = c])
      BY <2>4, <3>3
    <3> QED
      BY <1>2, <1>3, <2>1, <2>2, <3>4 DEF Promise!Effect, Promise!Next
  <2>6. CASE r.op # "put"
    <3>1. d = [i \in Ids |-> IF i \in done THEN Absent ELSE docs[i]]
      BY <2>6
    <3>2. done \in SUBSET Ids
      BY <2>3
    <3> HIDE DEF done, d
    <3>3. \E I \in SUBSET Ids : Promise!Becomes([i \in Ids |-> IF i \in I THEN Absent ELSE docs[i]])
      BY <2>4, <3>1, <3>2
    <3> QED
      BY <1>2, <1>3, <2>1, <2>2, <3>3 DEF Promise!Effect, Promise!Next
  <2> QED
    BY <2>5, <2>6
<1> QED
  BY <1>5, <1>6

\* What somebody else does, or the network.
LEMMA OthersMaps ==
  ASSUME StoreInv, NEW I \in SUBSET Ids, NEW v \in {Absent, Other},
         Becomes([i \in Ids |-> IF i \in I THEN v ELSE docs[i]]), faults' \in {faults, faults + 1}, landed' = landed,
         \A o \in Calls : call'[o] = call[o] \/ (o \in Opened /\ o \in Opened')
  PROVE  Promise!Next
<1>1. Opened' = Opened /\ Ended' = Ended
  BY SameCalls
<1>2. Promise!Becomes([i \in Ids |-> IF i \in I THEN v ELSE docs[i]])
  BY DEF Becomes, Promise!Becomes
<1> QED
  BY <1>1, <1>2 DEF Promise!Others, Promise!Next

\* A store that stays as it is has been seen as it is.
LEMMA BecomesSame ==
  ASSUME StoreInv, UNCHANGED <<docs, seen, past>> PROVE Becomes([i \in Ids |-> IF i \in {} THEN Absent ELSE docs[i]])
<1>1. docs = [i \in Ids |-> IF i \in {} THEN Absent ELSE docs[i]]
  BY StoreTypes DEF Content
<1>2. seen = [c \in Calls |-> IF c \in Opened THEN seen[c] \union {docs} ELSE seen[c]]
  <2>1. \A c \in Opened : seen[c] \union {docs} = seen[c]
    BY DEF StoreInv, StoreCallOk, ViewOk, Opened
  <2> QED
    BY <2>1, StoreTypes
<1>3. past = [t \in Pages |-> IF past[t] = {} THEN {} ELSE past[t] \union {docs}]
  <2>1. \A t \in Pages : past[t] # {} => past[t] \union {docs} = past[t]
    BY DEF StoreInv, TabOk
  <2> QED
    BY <2>1, StoreTypes
<1> QED
  BY <1>1, <1>2, <1>3 DEF Becomes

LEMMA LostMaps ==
  ASSUME StoreInv, UNCHANGED <<docs, seen, past, landed>>, faults' = faults + 1,
         \A o \in Calls : call'[o] = call[o] \/ (o \in Opened /\ o \in Opened')
  PROVE  Promise!Next
<1> DEFINE I == {}
<1>1. I \in SUBSET Ids /\ Becomes([i \in Ids |-> IF i \in I THEN Absent ELSE docs[i]])
  BY BecomesSame
<1>2. faults' \in {faults, faults + 1} /\ landed' = landed
  OBVIOUS
<1> HIDE DEF I
<1> QED
  BY <1>1, <1>2, OthersMaps

LEMMA LoseMaps == ASSUME StoreInv, NEW c \in Calls, Lose(c) PROVE Promise!Next
<1>1. c \in Opened /\ UNCHANGED <<docs, seen, past, landed>> /\ faults' = faults + 1 /\ Reply(c, "lost", Nothing)
  BY DEF Lose, Reads, Writes, Opened, server
<1>2. \A o \in Calls : call'[o] = call[o] \/ (o \in Opened /\ o \in Opened')
  BY <1>1, AnswersKeepOpen
<1> QED
  BY <1>1, <1>2, LostMaps

LEMMA ForeignMaps == ASSUME StoreInv, StoreInv', Foreign \/ Drop PROVE [Promise!Next]_Promise!vars
<1>1. ASSUME Foreign, UNCHANGED <<docs, seen, past>> PROVE UNCHANGED Promise!vars
  BY <1>1, QuietStep DEF Foreign
<1>2. ASSUME Foreign, NEW i \in Ids, NEW v \in {Other, Absent}, Becomes([docs EXCEPT ![i] = v]) PROVE Promise!Next
  <2> DEFINE I == {i}
  <2>1. [docs EXCEPT ![i] = v] = [j \in Ids |-> IF j \in I THEN v ELSE docs[j]]
    BY StoreTypes DEF Content
  <2>2. I \in SUBSET Ids /\ faults' \in {faults, faults + 1} /\ UNCHANGED <<landed, call>>
    BY <1>2 DEF Foreign
  <2>3. Becomes([j \in Ids |-> IF j \in I THEN v ELSE docs[j]])
    BY <1>2, <2>1
  <2> HIDE DEF I
  <2> QED
    BY <2>2, <2>3, OthersMaps
<1>3. ASSUME Drop PROVE Promise!Next
  <2> DEFINE I == Ids
  <2>1. Nothing = [j \in Ids |-> IF j \in I THEN Absent ELSE docs[j]]
    BY DEF Nothing
  <2>2. Becomes(Nothing) /\ I \in SUBSET Ids /\ faults' \in {faults, faults + 1} /\ UNCHANGED <<landed, call>>
    BY <1>3 DEF Drop
  <2>3. Becomes([j \in Ids |-> IF j \in I THEN Absent ELSE docs[j]])
    BY <2>1, <2>2
  <2> HIDE DEF I
  <2> QED
    BY <2>2, <2>3, OthersMaps
<1> QED
  BY <1>1, <1>2, <1>3 DEF Foreign

LEMMA BeginMaps == ASSUME StoreInv, NEW c \in Calls, Begin(c) PROVE Promise!Next
<1> DEFINE t == TabOf[c]
<1>1. PICK o \in OpsOf[c], known \in SUBSET Ids :
        IF KnowsNothing(t)
        THEN /\ call' = [call EXCEPT ![c] = Send(Opening(o, known), "ask")]
             /\ past' = [past EXCEPT ![t] = Question(t)]
        ELSE call' = [call EXCEPT ![c] = First(Opening(o, known))] /\ past' = past
  BY DEF Begin, Opening
<1>2. /\ call[c] = Idle /\ seen' = [seen EXCEPT ![c] = {docs} \union past[t]] /\ UNCHANGED <<docs, landed, faults>>
  BY DEF Begin
<1>3. t \in Pages /\ past[t] \subseteq Content /\ call[c].pc = "idle"
  BY <1>2, IdleIs, StoreTypes
<1>4. (\A x \in Calls \ {c} : call'[x] = call[x]) /\ call'[c].pc \notin {"idle", "done"}
  <2> DEFINE r == Opening(o, known)
  <2>1. r \in CallType /\ r.op # "none" /\ r.ids # {}
    BY <1>2, BeginsWith
  <2>2. call' = [call EXCEPT ![c] = Send(r, "ask")] \/ call' = [call EXCEPT ![c] = First(r)]
    BY <1>1
  <2> HIDE DEF r
  <2>3. Send(r, "ask").pc = "ask"
    BY <2>1, Sent DEF Places, Asking
  <2>4. First(r).pc \notin {"idle", "done"}
    BY <2>1, Firsts DEF Begun
  <2> QED
    BY <2>2, <2>3, <2>4, StoreTypes
<1>5. Opened' = Opened \union {c} /\ c \notin Opened
  BY <1>3, <1>4 DEF Opened
<1>6. Ended' = Ended /\ Ended[c].op = "none"
  <2>1. \A x \in Calls : call'[x] = call[x] \/ (call[x].pc # "done" /\ call'[x].pc # "done")
    BY <1>3, <1>4
  <2> QED
    BY <1>3, <2>1 DEF Ended
<1>7. IF past[t] = {} THEN past' = past \/ past' = [past EXCEPT ![t] = {docs}] ELSE past' = past
  BY <1>1, <1>3, StoreTypes DEF Question
<1> QED
  BY <1>2, <1>5, <1>6, <1>7 DEF Promise!Begin, Promise!Asks, Promise!Next

\* A call that the news of a missing database ends tells the truth.
LEMMA ToldSays ==
  ASSUME StoreInv, NEW c \in Calls, Answered(call[c], lookup[TabOf[c]], call'[c]), call[c].pc \in Asking,
         call'[c].pc = "done"
  PROVE  Says(c, call'[c])
<1>1. lookup[TabOf[c]] = "missing" /\ call'[c].res = "ok" /\ call'[c].op = call[c].op /\ call'[c].ids = call[c].ids
      /\ call[c].op # "put" /\ (call[c].op \in {"get", "list"} => call'[c].body = Nothing)
  BY DEF Answered, Begun
<1>2. Nothing \in seen[c] /\ call[c].ids \subseteq Ids
  BY <1>1, AskingIs, OpenIs DEF StoreInv, TabOk
<1>3. \A i \in call[c].ids : Held(c, i, Absent)
  BY <1>2, NothingIs DEF Held
<1> QED
  BY <1>1, <1>2, <1>3 DEF Says

LEMMA LookupLandMaps == ASSUME StoreInv, NEW t \in Pages, LookupLand(t) PROVE Promise!Next
<1> DEFINE C == {c \in Waiting(t) : call'[c].pc = "done"}
<1>1. \A c \in Calls : LandOn(t, c)
  BY LandOnOk
<1>2. UNCHANGED <<docs, landed, faults>> /\ past' = [past EXCEPT ![t] = IF Again(t) = {} THEN {} ELSE {docs}]
  BY LandIs
<1>3. \A c \in Waiting(t) : c \in Calls /\ TabOf[c] = t /\ call[c].pc \in Asking /\ c \in Opened
  BY DEF Waiting, Asking, Opened
<1>4. C \in SUBSET Calls /\ C \subseteq Opened
  BY <1>3
<1>5. ASSUME NEW c \in Calls
      PROVE  /\ c \in Opened' <=> c \in Opened /\ c \notin C
             /\ IF c \in C THEN Promise!True(c, Ended'[c]) ELSE Ended'[c] = Ended[c]
             /\ seen'[c] = seen[c] \/ (c \in C /\ seen'[c] = {})
  <2>1. CASE c \notin Waiting(t) /\ call'[c] = call[c] /\ seen'[c] = seen[c]
    BY <2>1 DEF Opened, Ended
  <2>2. CASE c \in Waiting(t) /\ call'[c].pc = "done"
    <3>1. Answered(call[c], lookup[t], call'[c]) /\ seen'[c] = {}
      BY <1>1, <2>2 DEF LandOn
    <3>2. Says(c, call'[c])
      BY <1>3, <2>2, <3>1, ToldSays
    <3>3. PICK q : q = call'[c]
      OBVIOUS
    <3>4. Promise!True(c, [op |-> q.op, ids |-> q.ids, res |-> q.res, val |-> q.body])
      BY <3>2, <3>3, SaysIsTrue
    <3>5. Ended'[c] = [op |-> q.op, ids |-> q.ids, res |-> q.res, val |-> q.body]
      BY <2>2, <3>3 DEF Ended
    <3>6. c \notin Opened' /\ c \in Opened /\ c \in C
      BY <1>3, <2>2 DEF Opened
    <3> QED
      BY <3>1, <3>4, <3>5, <3>6
  <2>3. CASE c \in Waiting(t) /\ call'[c].pc # "done"
    <3>1. call'[c].pc # "idle" /\ seen'[c] = seen[c]
      BY <1>1, <2>3 DEF LandOn, Answered, Begun
    <3>2. call[c].pc # "done" /\ c \in Opened
      BY <1>3, <2>3 DEF Opened
    <3>3. Ended'[c] = Ended[c]
      BY <2>3, <3>2 DEF Ended
    <3> QED
      BY <2>3, <3>1, <3>2, <3>3 DEF Opened
  <2> QED
    BY <1>1, <2>1, <2>2, <2>3 DEF LandOn
<1>6. Opened' = Opened \ C
  BY <1>5 DEF Opened
<1>7. past' = [past EXCEPT ![t] = {}] \/ past' = [past EXCEPT ![t] = {docs}]
  BY <1>2
<1> HIDE DEF C
<1>8. Promise!End(t, C)
  BY <1>2, <1>4, <1>5, <1>6, <1>7 DEF Promise!End, Promise!Asks
<1> QED
  BY <1>4, <1>8 DEF Promise!Next

LEMMA StoreMaps == ASSUME StoreInv, StoreInv', [StoreNext]_storeVars PROVE [Promise!Next]_Promise!vars
<1>1. ASSUME NEW c \in Calls, Begin(c) \/ Serve(c) \/ Land(c) \/ Lose(c) PROVE [Promise!Next]_Promise!vars
  BY <1>1, BeginMaps, ServeMaps, WriteMaps, LandMaps, LoseMaps DEF Serve
<1>2. ASSUME NEW t \in Pages, LookupServe(t) \/ LookupLand(t) \/ LookupLost(t) PROVE [Promise!Next]_Promise!vars
  <2>1. CASE LookupServe(t)
    BY <2>1, QuietStep DEF LookupServe, server
  <2>2. CASE LookupLost(t)
    BY <2>2, LostMaps DEF LookupLost, server
  <2> QED
    BY <1>2, <2>1, <2>2, LookupLandMaps
<1>3. CASE Foreign \/ Drop
  BY <1>3, ForeignMaps
<1>4. CASE UNCHANGED storeVars
  BY <1>4, QuietStep DEF storeVars
<1> QED
  BY <1>1, <1>2, <1>3, <1>4 DEF StoreNext

LEMMA StoreStarts == StoreInit => Promise!Init
<1> SUFFICES ASSUME StoreInit PROVE Promise!Init
  OBVIOUS
<1>1. Opened = {} /\ Ended = [c \in Calls |-> [op |-> "none"]]
  BY IdleIs DEF StoreInit, Opened, Ended
<1> QED
  BY <1>1 DEF StoreInit, Promise!Init

(* Whatever fails, whoever else writes and however often the database comes and    *)
(* goes, a call of CouchCompanionStore changes the store at most once, and what it *)
(* reports was true at some moment after its tab asked.                            *)
THEOREM StoreKeepsItsPromise == StoreSpec => ImplementsDocStore
BY StoreStarts, StoreMaps, StoreAlways, PTL DEF StoreSpec, ImplementsDocStore, Promise!Spec

----------------------------------------------------------------------------
(* The router. *)

\* The router's own writes are among the events it waits for; the others are the
\* user's, and each of those takes back a step that the router still counts.
NavInv ==
  /\ NavTypeOK
  /\ Here => pending <= events /\ depth < idx + (events - pending)
  /\ Here /\ shown # Nowhere /\ events = 0 => shown = Live(Current)

LEMMA EnteredIs ==
  ASSUME NavTypeOK, Here, NEW p \in Addresses
  PROVE  /\ Entered(p, entries) \in Seq(Addresses) /\ Len(Entered(p, entries)) = idx + 1
         /\ Entered(p, entries)[idx + 1] = p
<1>1. idx \in 1 .. Len(entries) /\ entries \in Seq(Addresses)
  BY DEF NavTypeOK, Here
<1>2. SubSeq(entries, 1, idx) \in Seq(Addresses) /\ Len(SubSeq(entries, 1, idx)) = idx
  BY <1>1
<1> QED
  BY <1>1, <1>2 DEF Entered

LEMMA HereIs ==
  ASSUME NavInv, Here
  PROVE  /\ idx \in Nat /\ idx > 0 /\ Current \in Addresses /\ Live(Current) \in Paths /\ Live(Current) # Nowhere
         /\ Target \in Addresses /\ events \in Nat /\ pending \in Nat /\ depth \in Nat
         /\ pending <= events /\ depth < idx + (events - pending)
<1>1. entries \in Seq(Addresses) /\ idx \in 1 .. Len(entries)
  BY DEF NavInv, NavTypeOK, Here
<1>2. Current \in Addresses
  BY <1>1 DEF Current
<1> QED
  BY <1>1, <1>2, NavAssumption DEF NavInv, NavTypeOK, Here, Live, Addresses

\* Resolving the current address: it is shown, or its replacement will be announced.
LEMMA ResolveOk ==
  ASSUME NavInv, Here, NEW n \in Nat, NEW k \in Nat, NEW e \in Nat, k <= n, e < idx + (n - k),
         Resolve(Current, n, k), depth' = e, going' \in 0 .. MaxEvents, Bounded
  PROVE  NavInv'
<1>1. shown' = Live(Current)
  BY DEF Resolve
<1>2. CASE Current \in Retired
  <2>1. entries' = Entered(Target, entries) /\ idx' = idx + 1 /\ events' = n + 1 /\ pending' = k + 1
    BY <1>2 DEF Resolve
  <2>2. entries' \in Seq(Addresses) /\ Len(entries') = idx + 1
    BY <2>1, HereIs, EnteredIs DEF NavInv
  <2>3. NavTypeOK'
    BY <1>1, <2>1, <2>2, HereIs DEF NavTypeOK, Bounded
  <2> QED
    BY <2>1, <2>3, HereIs DEF NavInv
<1>3. CASE Current \notin Retired
  <2>1. entries' = entries /\ idx' = idx /\ events' = n /\ pending' = k
    BY <1>3 DEF Resolve
  <2>2. NavTypeOK'
    BY <1>1, <2>1, HereIs DEF NavInv, NavTypeOK
  <2>3. Live(Current)' = Live(Current)
    BY <2>1 DEF Live, Current
  <2> QED
    BY <1>1, <2>1, <2>2, <2>3, HereIs DEF NavInv
<1> QED
  BY <1>2, <1>3

\* The address changes in the browser, and an event says so later.
LEMMA MoveOk ==
  ASSUME NavInv, Here, UNCHANGED shown, going' \in 0 .. MaxEvents,
         entries' \in Seq(Addresses), Len(entries') \in 1 .. MaxEntries, idx' \in 0 .. Len(entries'),
         pending' \in Nat, depth' \in Nat, events' \in Nat,
         Here' => events' = events + 1 /\ pending' <= events' /\ depth' < idx' + (events' - pending')
  PROVE  NavInv'
<1>1. NavTypeOK'
  BY DEF NavInv, NavTypeOK
<1>2. Here' => events' # 0
  BY HereIs
<1> QED
  BY <1>1, <1>2 DEF NavInv

LEMMA NavigateOk ==
  ASSUME NavInv, NEW p \in Addresses, Navigate(p), Bounded PROVE NavInv'
<1>1. Here /\ going' = going /\ going \in 0 .. MaxEvents
  BY DEF Navigate, NavInv, NavTypeOK
<1>2. CASE p = Current
  <2>1. Resolve(Current, events, pending) /\ depth' = depth
    BY <1>1, <1>2, HereIs DEF Navigate, StepsMade
  <2> QED
    BY <1>1, <2>1, HereIs, ResolveOk
<1>3. CASE p # Current
  <2>1. /\ entries' = Entered(p, entries) /\ idx' = idx + 1 /\ events' = events + 1 /\ pending' = pending + 1
        /\ UNCHANGED shown /\ depth' = depth + 1
    BY <1>3 DEF Navigate, Write, StepsMade
  <2>2. entries' \in Seq(Addresses) /\ Len(entries') = idx + 1
    BY <1>1, <2>1, EnteredIs DEF NavInv
  <2>3. Len(entries') \in 1 .. MaxEntries
    BY <1>1, <2>2, HereIs, NavAssumption DEF Bounded
  <2>4. /\ pending' \in Nat /\ depth' \in Nat /\ events' \in Nat /\ idx' \in 0 .. Len(entries')
        /\ events' = events + 1 /\ pending' <= events' /\ depth' < idx' + (events' - pending')
    BY <1>1, <2>1, <2>2, HereIs
  <2> QED
    BY <1>1, <2>1, <2>2, <2>3, <2>4, MoveOk
<1> QED
  BY <1>2, <1>3

LEMMA StepBackOk ==
  ASSUME NavInv, StepBack, going' \in 0 .. MaxEvents PROVE NavInv'
<1>1. /\ Here /\ idx' = idx - 1 /\ (events' = IF idx = 1 THEN 0 ELSE events + 1)
      /\ UNCHANGED <<entries, depth, pending, shown>>
  BY DEF StepBack
<1>2. entries \in Seq(Addresses) /\ Len(entries) \in 1 .. MaxEntries /\ idx \in 1 .. Len(entries)
  BY <1>1 DEF NavInv, NavTypeOK, Here
<1>3. idx' \in 0 .. Len(entries') /\ events' \in Nat
  BY <1>1, <1>2, HereIs
<1>4. Here' => events' = events + 1 /\ pending' <= events' /\ depth' < idx' + (events' - pending')
  BY <1>1, <1>2, HereIs DEF Here
<1>5. pending' \in Nat /\ depth' \in Nat
  BY <1>1, HereIs
<1> QED
  BY <1>1, <1>2, <1>3, <1>4, <1>5, MoveOk

LEMMA NavStep == ASSUME NavInv, [NavNext]_navVars PROVE NavInv'
<1>1. CASE UNCHANGED navVars
  BY <1>1 DEF navVars, NavInv, NavTypeOK, Here, Live, Current
<1>2. CASE Bounded /\ Boot
  <2>1. Here /\ Resolve(Current, events, pending) /\ UNCHANGED <<going, depth>> /\ going \in 0 .. MaxEvents
    BY <1>2 DEF Boot, NavInv, NavTypeOK
  <2> QED
    BY <1>2, <2>1, HereIs, ResolveOk
<1>3. CASE Traverse \/ BackButton
  <2>1. StepBack /\ going' \in 0 .. MaxEvents
    BY <1>3, NavAssumption DEF Traverse, BackButton, NavInv, NavTypeOK
  <2> QED
    BY <2>1, StepBackOk
<1>4. CASE ForwardButton
  <2>1. /\ Here /\ idx < Len(entries) /\ idx' = idx + 1 /\ events' = events + 1
        /\ UNCHANGED <<entries, going, depth, pending, shown>>
    BY <1>4 DEF ForwardButton
  <2>2. entries \in Seq(Addresses) /\ Len(entries) \in 1 .. MaxEntries /\ going \in 0 .. MaxEvents /\ idx' \in 0 .. Len(entries)
    BY <2>1, HereIs DEF NavInv, NavTypeOK
  <2>3. /\ pending' \in Nat /\ depth' \in Nat /\ events' \in Nat
        /\ pending' <= events' /\ depth' < idx' + (events' - pending')
    BY <2>1, HereIs
  <2> QED
    BY <2>1, <2>2, <2>3, MoveOk
<1>5. CASE Bounded /\ HashChange
  <2> DEFINE k == IF pending > 0 THEN pending - 1 ELSE 0
  <2>1. /\ Here /\ events > 0 /\ depth' = Unwound /\ Resolve(Current, events - 1, k) /\ going' = going /\ going \in 0 .. MaxEvents
    BY <1>5 DEF HashChange, NavInv, NavTypeOK
  <2>2. Unwound \in Nat /\ k \in Nat /\ events - 1 \in Nat /\ k <= events - 1 /\ Unwound < idx + ((events - 1) - k)
    BY <2>1, HereIs DEF Unwound
  <2> HIDE DEF k
  <2> QED
    BY <1>5, <2>1, <2>2, ResolveOk
<1>6. ASSUME NEW p \in Addresses, Bounded, Navigate(p) PROVE NavInv'
  BY <1>6, NavigateOk
<1>7. ASSUME NEW p \in Addresses, Bounded, Typed(p) PROVE NavInv'
  <2>1. /\ Here /\ entries' = Entered(p, entries) /\ idx' = idx + 1 /\ events' = events + 1
        /\ UNCHANGED <<going, depth, pending, shown>> /\ going \in 0 .. MaxEvents
    BY <1>7 DEF Typed, NavInv, NavTypeOK
  <2>2. entries' \in Seq(Addresses) /\ Len(entries') = idx + 1
    BY <2>1, EnteredIs DEF NavInv
  <2>3. Len(entries') \in 1 .. MaxEntries /\ idx' \in 0 .. Len(entries')
    BY <1>7, <2>1, <2>2, HereIs, NavAssumption DEF Bounded
  <2>4. /\ pending' \in Nat /\ depth' \in Nat /\ events' \in Nat
        /\ pending' <= events' /\ depth' < idx' + (events' - pending')
    BY <2>1, HereIs
  <2> QED
    BY <2>1, <2>2, <2>3, <2>4, MoveOk
<1>8. ASSUME NEW p \in Paths, Bounded, Back(p) PROVE NavInv'
  <2>1. CASE depth > 0
    <3>1. going' \in 0 .. MaxEvents /\ UNCHANGED <<entries, idx, events, depth, pending, shown>>
      BY <1>8, <2>1, NavAssumption DEF Back, NavInv, NavTypeOK
    <3> QED
      BY <3>1 DEF NavInv, NavTypeOK, Here, Live, Current
  <2>2. CASE ~(depth > 0)
    <3>1. Navigate(p) /\ p \in Addresses
      BY <1>8, <2>2 DEF Back, Addresses
    <3> QED
      BY <1>8, <3>1, NavigateOk
  <2> QED
    BY <2>1, <2>2
<1> QED
  BY <1>1, <1>2, <1>3, <1>4, <1>5, <1>6, <1>7, <1>8 DEF NavNext

LEMMA NavAlways == NavSpec => []NavInv
<1>1. NavInit => NavInv
  <2> SUFFICES ASSUME NavInit PROVE NavInv
    OBVIOUS
  <2>1. PICK p \in Addresses : entries = <<p>>
    BY DEF NavInit
  <2>2. entries \in Seq(Addresses) /\ Len(entries) = 1 /\ idx = 1 /\ events = 0 /\ depth = 0 /\ pending = 0
        /\ shown = Nowhere /\ going = 0
    BY <2>1 DEF NavInit
  <2> QED
    BY <2>2, NavAssumption DEF NavInv, NavTypeOK, Here
<1> QED
  BY <1>1, NavStep, PTL DEF NavSpec

(* The router's counts and the history have their types. *)
THEOREM NavTypesHold == NavSpec => []NavTypeOK
<1>1. NavInv => NavTypeOK
  BY DEF NavInv
<1> QED
  BY <1>1, NavAlways, PTL

(* However the app's steps, its redirects, the browser's buttons and the late       *)
(* events mix: once they are over, going back from a page stays inside the app.     *)
THEOREM BackStaysInside == NavSpec => []DepthIsHonest
<1>1. NavInv => DepthIsHonest
  <2> SUFFICES ASSUME NavInv, Settled PROVE depth < idx
    BY DEF DepthIsHonest
  <2>1. Here /\ events = 0
    BY DEF Settled
  <2> QED
    BY <2>1, HereIs
<1> QED
  BY <1>1, NavAlways, PTL

(* A settled page shows the screen of its address, a retired one that of its        *)
(* replacement.                                                                     *)
THEOREM ShownIsRight == NavSpec => []ShownIsTheAddress
<1>1. NavInv => ShownIsTheAddress
  BY DEF NavInv, Settled, ShownIsTheAddress
<1> QED
  BY <1>1, NavAlways, PTL

----------------------------------------------------------------------------
(* Git accounts, one job at a time. *)

\* The browser's copy is gone, unless something went wrong that nothing reports.
Clean == idb # None => idbFailed \/ torn
Named == idb # None /\ ~idbFailed /\ ~torn => acct.mode = "indexeddb"

Moving == {"find", "found", "idbClear", "tokRead", "tokRev", "tokPut", "docRev", "docPut"}
Parting == Moving \ {"find", "found"}
Porting == {"tokRead", "tokRev", "tokPut"}
Writing == {"docRev", "docPut"}

\* What holds of a job r of tab t where it is.
Fine(r, t) ==
  /\ r.pc = "read" => r.op \in {"rename", "change", "delete", "save", "use"} /\ (r.op = "save" => r.tok # None /\ r.mode = "none")
  /\ r.pc \in {"find", "found"} => r.op \in {"use", "change"}
  /\ r.pc = "del" => r.op = "delete"
  /\ r.pc = "idbClear" => r.op \in {"delete", "change"} /\ r.goal = None
  /\ r.pc \in Moving /\ r.op = "change" => r.body.there /\ r.body.mode = r.mode /\ r.body.auth = None
  /\ r.pc \in Parting /\ r.op = "change" /\ r.mode # "none" => r.tok # None
  /\ r.pc \in Porting =>
       /\ r.op \in {"delete", "change", "save"} /\ Clean
       /\ r.goal = None => r.op # "save"
       /\ r.goal # None =>
            /\ r.op # "delete" /\ r.mode = "couchdb" /\ acct.mode = "couchdb"
            /\ r.goal = r.tok /\ cache[t] = r.tok
  /\ r.pc \in Porting \ {"tokRead"} => r.held.there /\ r.held.mode = acct.mode /\ r.held.auth = r.goal
  /\ r.pc \in Writing =>
       /\ r.op \in {"connect", "rename", "change"} /\ r.body.there
       /\ r.op = "connect" => r.tok # None /\ Clean /\ r.body.mode = r.mode
                              /\ r.body.auth = (IF r.mode = "couchdb" THEN r.tok ELSE None)
       /\ r.op = "rename" => r.body.mode = acct.mode /\ r.body.auth = acct.auth
       /\ r.op = "change" => Clean
  /\ r.pc = "idbPut" =>
       /\ r.op \in {"connect", "change", "save"} /\ r.tok # None /\ cache[t] = r.tok
       /\ r.mode = "indexeddb" /\ acct.mode = "indexeddb"

AccountInv ==
  /\ AccountTypeOK
  /\ acct.auth # None => acct.mode = "couchdb"
  /\ rev = 0 => acct = NoAccount
  /\ \A i, j \in Running : i = j
  /\ \A j \in Running : Fine(job[j], JobTab[j])
  /\ Named \/ \E j \in Running : job[j].op = "delete" /\ job[j].pc = "idbClear"

LEMMA RestingIs == Resting \in JobType /\ Resting.pc = "idle" /\ Resting.op = "none" /\ Resting.res = "none" /\ Resting.goal = None
                   /\ NoAccount \in Account
BY DEF Resting, JobType, NoAccount, Account, Modes, Steps

LEMMA AtIs ==
  ASSUME NEW r \in JobType, NEW pc \in Steps \union {"idle", "done"}
  PROVE  /\ At(r, pc) \in JobType /\ At(r, pc).pc = pc /\ At(r, pc).op = r.op /\ At(r, pc).mode = r.mode
         /\ At(r, pc).tok = r.tok /\ At(r, pc).body = r.body /\ At(r, pc).held = r.held /\ At(r, pc).rev = r.rev
         /\ At(r, pc).goal = r.goal /\ At(r, pc).res = r.res
BY DEF At, JobType

LEMMA FinishIs ==
  ASSUME NEW r \in JobType, NEW res \in {"ok", "failed", "token_required", "cut"}
  PROVE  Finish(r, res) \in JobType /\ Finish(r, res).pc = "done" /\ (Finish(r, res).res = "ok" => res = "ok")
<1> DEFINE v == IF r.res = "failed" THEN "failed" ELSE res
<1>1. v \in {"none", "ok", "failed", "token_required", "cut"} /\ (v = "ok" => res = "ok")
  OBVIOUS
<1>2. Finish(r, res) = [Resting EXCEPT !.pc = "done", !.res = v]
  BY DEF Finish
<1> HIDE DEF v
<1> QED
  BY <1>1, <1>2, RestingIs DEF JobType

\* What two records of a job agree on.
SameBut(q, r) == q.op = r.op /\ q.mode = r.mode /\ q.tok = r.tok /\ q.body = r.body

LEMMA ForgetIs ==
  ASSUME NEW j \in Jobs, NEW r \in JobType, Forget(j, r)
  PROVE  /\ cache' = [cache EXCEPT ![JobTab[j]] = None]
         /\ \E q \in JobType : job' = [job EXCEPT ![j] = q] /\ SameBut(q, r) /\ q.pc = "idbClear" /\ q.goal = None
<1> DEFINE r0 == [r EXCEPT !.goal = None]
<1>1. r0 \in JobType /\ SameBut(r0, r) /\ r0.goal = None
  BY DEF JobType, SameBut
<1>2. job' = [job EXCEPT ![j] = At(r0, "idbClear")] /\ cache' = [cache EXCEPT ![JobTab[j]] = None]
  BY DEF Forget, Become
<1> HIDE DEF r0
<1>3. At(r0, "idbClear") \in JobType /\ SameBut(At(r0, "idbClear"), r) /\ At(r0, "idbClear").pc = "idbClear"
      /\ At(r0, "idbClear").goal = None
  BY <1>1, AtIs DEF SameBut, Steps
<1> QED
  BY <1>2, <1>3

LEMMA KeepIs ==
  ASSUME NEW j \in Jobs, NEW r \in JobType, Keep(j, r)
  PROVE  /\ cache' = [cache EXCEPT ![JobTab[j]] = r.tok]
         /\ \E q \in JobType :
              /\ job' = [job EXCEPT ![j] = q]
              /\ \/ r.mode = "couchdb" /\ SameBut(q, r) /\ q.pc = "tokRead" /\ q.goal = r.tok
                 \/ r.mode = "indexeddb" /\ SameBut(q, r) /\ q.pc = "idbPut"
                 \/ r.mode = "none" /\ q.pc = "done"
<1>1. cache' = [cache EXCEPT ![JobTab[j]] = r.tok] /\ r.mode \in {"couchdb", "indexeddb", "none"}
  BY DEF Keep, JobType, Modes
<1>2. CASE r.mode = "couchdb"
  <2> DEFINE r0 == [r EXCEPT !.goal = r.tok]
  <2>1. r0 \in JobType /\ SameBut(r0, r) /\ r0.goal = r.tok
    BY DEF JobType, SameBut
  <2>2. job' = [job EXCEPT ![j] = At(r0, "tokRead")]
    BY <1>2 DEF Keep, Become
  <2> HIDE DEF r0
  <2>3. At(r0, "tokRead") \in JobType /\ SameBut(At(r0, "tokRead"), r) /\ At(r0, "tokRead").pc = "tokRead"
        /\ At(r0, "tokRead").goal = r.tok
    BY <2>1, AtIs DEF SameBut, Steps
  <2> QED
    BY <1>1, <1>2, <2>2, <2>3
<1>3. CASE r.mode = "indexeddb"
  <2>1. job' = [job EXCEPT ![j] = At(r, "idbPut")]
    BY <1>3 DEF Keep, Become
  <2>2. At(r, "idbPut") \in JobType /\ SameBut(At(r, "idbPut"), r) /\ At(r, "idbPut").pc = "idbPut"
    BY AtIs DEF SameBut, Steps
  <2> QED
    BY <1>1, <1>3, <2>1, <2>2
<1>4. CASE r.mode = "none"
  <2>1. job' = [job EXCEPT ![j] = Finish(r, "ok")]
    BY <1>4 DEF Keep, Become
  <2> QED
    BY <1>1, <1>4, <2>1, FinishIs
<1> QED
  BY <1>1, <1>2, <1>3, <1>4

\* The one that runs.
LEMMA RunningIs ==
  ASSUME AccountInv, NEW j \in Jobs, job[j].pc \in Steps
  PROVE  /\ j \in Running /\ job[j] \in JobType /\ Fine(job[j], JobTab[j]) /\ acct \in Account
         /\ \A i \in Jobs \ {j} : i \notin Running
         /\ Named \/ (job[j].op = "delete" /\ job[j].pc = "idbClear")
         /\ acct.mode = "couchdb" => Clean \/ (job[j].op = "delete" /\ job[j].pc = "idbClear")
<1>1. j \in Running
  BY DEF Running
<1>2. \A i \in Running : i = j
  BY <1>1 DEF AccountInv
<1>3. Named \/ (job[j].op = "delete" /\ job[j].pc = "idbClear")
  BY <1>2 DEF AccountInv
<1> QED
  BY <1>1, <1>2, <1>3 DEF AccountInv, AccountTypeOK, Named, Clean

LEMMA AccountTypes ==
  ASSUME AccountInv
  PROVE  /\ acct \in Account /\ rev \in Nat /\ (~acct.there => acct = NoAccount) /\ job \in [Jobs -> JobType]
         /\ cache \in [Tabs -> Tokens \union {None}] /\ idb \in Tokens \union {None} /\ trouble \in 0 .. MaxTrouble
         /\ idbFailed \in BOOLEAN /\ torn \in BOOLEAN /\ JobTab \in [Jobs -> Tabs] /\ MaxTrouble \in Nat
         /\ (acct.auth # None => acct.mode = "couchdb") /\ (rev = 0 => acct = NoAccount)
BY AccountAssumption DEF AccountInv, AccountTypeOK

\* A step of the job that runs.
LEMMA WorkStep ==
  ASSUME AccountInv, NEW j \in Jobs, job[j].pc \in Steps, NEW q \in JobType, job' = [job EXCEPT ![j] = q],
         acct' \in Account, ~acct'.there => acct' = NoAccount, rev' \in Nat,
         cache' \in [Tabs -> Tokens \union {None}], idb' \in Tokens \union {None}, trouble' \in 0 .. MaxTrouble,
         idbFailed' \in BOOLEAN, torn' \in BOOLEAN,
         acct'.auth # None => acct'.mode = "couchdb", rev' = 0 => acct' = NoAccount,
         q.pc \in Steps => Fine(q, JobTab[j])',
         Named' \/ (q.op = "delete" /\ q.pc = "idbClear")
  PROVE  AccountInv'
<1>1. job' \in [Jobs -> JobType] /\ job'[j] = q /\ \A i \in Jobs \ {j} : job'[i] = job[i]
  BY AccountTypes
<1>2. \A i \in Running' : i = j
  BY <1>1, RunningIs DEF Running
<1>3. AccountTypeOK'
  BY <1>1 DEF AccountTypeOK
<1>4. \A i \in Running' : Fine(job[i], JobTab[i])'
  BY <1>1, <1>2 DEF Running
<1>5. Named' \/ \E i \in Running' : job'[i].op = "delete" /\ job'[i].pc = "idbClear"
  BY <1>1 DEF Running, Steps
<1>6. \A i, k \in Running' : i = k
  BY <1>2
<1> QED
  BY <1>3, <1>4, <1>5, <1>6 DEF AccountInv

\* The rest stays: only the job, and perhaps what its tab keeps.
LEMMA QuietWork ==
  ASSUME AccountInv, NEW j \in Jobs, job[j].pc \in Steps \ {"idbClear"}, NEW q \in JobType, job' = [job EXCEPT ![j] = q],
         cache' \in [Tabs -> Tokens \union {None}], trouble' \in 0 .. MaxTrouble, UNCHANGED <<acct, rev, idb, idbFailed, torn>>,
         q.pc \in Steps => Fine(q, JobTab[j])'
  PROVE  AccountInv'
<1>1. Named'
  BY RunningIs DEF Named
<1> QED
  BY <1>1, AccountTypes, WorkStep

\* It ends.
LEMMA EndWork ==
  ASSUME AccountInv, NEW j \in Jobs, job[j].pc \in Steps \ {"idbClear"}, NEW q \in JobType, job' = [job EXCEPT ![j] = q],
         q.pc = "done", cache' \in [Tabs -> Tokens \union {None}], trouble' \in 0 .. MaxTrouble,
         UNCHANGED <<acct, rev, idb, idbFailed, torn>>
  PROVE  AccountInv'
<1>1. q.pc \notin Steps
  BY DEF Steps
<1> QED
  BY <1>1, QuietWork

LEMMA CacheTypes ==
  ASSUME AccountInv, NEW j \in Jobs, NEW tok \in Tokens \union {None}, cache' = [cache EXCEPT ![JobTab[j]] = tok] \/ cache' = cache
  PROVE  cache' \in [Tabs -> Tokens \union {None}] /\ (cache' = [cache EXCEPT ![JobTab[j]] = tok] => cache'[JobTab[j]] = tok)
BY AccountTypes

\* A job that forgets goes to IndexedDB first.
LEMMA ForgetOk ==
  ASSUME AccountInv, NEW j \in Jobs, job[j].pc \in Steps \ {"idbClear"}, NEW r \in JobType, Forget(j, r),
         UNCHANGED <<rev, idb, idbFailed, torn, acct>>, trouble' \in 0 .. MaxTrouble, r.op \in {"delete", "change"},
         r.op = "change" => r.body.there /\ r.body.mode = r.mode /\ r.body.auth = None /\ (r.mode # "none" => r.tok # None)
  PROVE  AccountInv'
<1>1. PICK q \in JobType : job' = [job EXCEPT ![j] = q] /\ SameBut(q, r) /\ q.pc = "idbClear" /\ q.goal = None
  BY ForgetIs
<1>2. cache' \in [Tabs -> Tokens \union {None}]
  BY ForgetIs, CacheTypes
<1>3. Fine(q, JobTab[j])'
  BY <1>1 DEF SameBut, Fine, Moving, Parting, Porting, Writing
<1> QED
  BY <1>1, <1>2, <1>3, QuietWork

LEMMA ReadOk == ASSUME AccountInv, NEW j \in Jobs, Read(j) PROVE AccountInv'
<1> DEFINE r == job[j]
           new == [r EXCEPT !.held = acct]
<1>1. r.pc = "read" /\ r.pc \in Steps \ {"idbClear"} /\ UNCHANGED <<acct, rev, idb, trouble, idbFailed, torn>>
  BY DEF Read, Stored, Marks, Steps
<1>2. r \in JobType /\ Fine(r, JobTab[j]) /\ acct \in Account /\ Named /\ (acct.mode = "couchdb" => Clean)
  BY <1>1, RunningIs
<1>3. r.op \in {"rename", "change", "delete", "save", "use"} /\ trouble' \in 0 .. MaxTrouble
  BY <1>1, <1>2, AccountTypes DEF Fine
<1>4. new \in JobType /\ new.op = r.op /\ new.mode = r.mode /\ new.tok = r.tok
  BY <1>2 DEF JobType
<1> HIDE DEF new
<1>5. CASE r.op = "save"
  <2> DEFINE m == IF acct.there THEN acct.mode ELSE "none"
             s == [r EXCEPT !.mode = m]
  <2>1. Keep(j, s)
    BY <1>5 DEF Read
  <2>8. m \in Modes /\ (m # "none" => acct.there /\ m = acct.mode)
    BY <1>2 DEF Account, Modes
  <2> HIDE DEF m
  <2>2. s \in JobType /\ s.op = "save" /\ s.tok = r.tok /\ (s.mode # "none" => acct.there /\ s.mode = acct.mode)
    BY <1>2, <1>5, <2>8 DEF JobType
  <2> HIDE DEF s
  <2>3. s.tok # None /\ s.tok \in Tokens \union {None}
    BY <1>1, <1>2, <1>5, <2>2 DEF Fine, JobType
  <2>4. PICK q \in JobType :
          /\ job' = [job EXCEPT ![j] = q]
          /\ \/ s.mode = "couchdb" /\ SameBut(q, s) /\ q.pc = "tokRead" /\ q.goal = s.tok
             \/ s.mode = "indexeddb" /\ SameBut(q, s) /\ q.pc = "idbPut"
             \/ s.mode = "none" /\ q.pc = "done"
    BY <2>1, <2>2, KeepIs
  <2>5. cache' \in [Tabs -> Tokens \union {None}] /\ cache'[JobTab[j]] = s.tok
    BY <2>1, <2>2, <2>3, KeepIs, CacheTypes
  <2>6. acct.mode = "couchdb" => Clean'
    BY <1>1, <1>2 DEF Clean
  <2>7. q.pc \in Steps => Fine(q, JobTab[j])'
    BY <1>1, <2>2, <2>3, <2>4, <2>5, <2>6 DEF SameBut, Fine, Moving, Parting, Porting, Writing, Steps
  <2> QED
    BY <1>1, <1>3, <2>4, <2>5, <2>7, QuietWork
<1>6. CASE r.op = "delete"
  <2>1. CASE ~acct.there
    <3>1. Forget(j, r)
      BY <1>6, <2>1 DEF Read
    <3> QED
      BY <1>1, <1>2, <1>3, <1>6, <3>1, ForgetOk
  <2>2. CASE acct.there
    <3> DEFINE s == [r EXCEPT !.rev = rev]
    <3>1. s \in JobType /\ s.op = "delete"
      BY <1>2, <1>6, AccountTypes DEF JobType
    <3>2. job' = [job EXCEPT ![j] = At(s, "del")] /\ cache' = cache
      BY <1>6, <2>2 DEF Read, Become
    <3> HIDE DEF s
    <3>3. PICK q \in JobType : q = At(s, "del") /\ q.pc = "del" /\ q.op = "delete"
      BY <3>1, AtIs DEF Steps
    <3>4. Fine(q, JobTab[j])'
      BY <3>3 DEF Fine, Moving, Parting, Porting, Writing
    <3> QED
      BY <1>1, <1>3, <3>2, <3>3, <3>4, QuietWork, AccountTypes
  <2> QED
    BY <2>1, <2>2
<1>7. CASE r.op = "rename"
  <2>1. cache' = cache /\ cache' \in [Tabs -> Tokens \union {None}]
    BY <1>7, AccountTypes DEF Read
  <2>2. CASE acct.there
    <3> DEFINE b == [acct EXCEPT !.label = r.body.label]
               s == [r EXCEPT !.body = b]
    <3>1. b \in Account /\ b.there /\ b.mode = acct.mode /\ b.auth = acct.auth
      BY <1>2, <2>2 DEF JobType, Account
    <3>2. job' = [job EXCEPT ![j] = At(s, "docRev")]
      BY <1>7, <2>2 DEF Read, Become
    <3> HIDE DEF b
    <3>3. s \in JobType /\ s.op = "rename" /\ s.body = b
      BY <1>2, <1>7, <3>1 DEF JobType
    <3> HIDE DEF s
    <3>4. PICK q \in JobType : q = At(s, "docRev") /\ q.pc = "docRev" /\ q.op = "rename" /\ q.body = b
      BY <3>3, AtIs DEF Steps
    <3>5. Fine(q, JobTab[j])'
      BY <1>1, <3>1, <3>4 DEF Fine, Moving, Parting, Porting, Writing
    <3> QED
      BY <1>1, <1>3, <2>1, <3>2, <3>4, <3>5, QuietWork
  <2>3. CASE ~acct.there
    <3>1. job' = [job EXCEPT ![j] = Finish(r, "failed")]
      BY <1>7, <2>3 DEF Read, Become
    <3> QED
      BY <1>1, <1>2, <1>3, <2>1, <3>1, FinishIs, EndWork
  <2> QED
    BY <2>2, <2>3
<1>8. CASE r.op = "use"
  <2>1. cache' = cache /\ cache' \in [Tabs -> Tokens \union {None}]
    BY <1>8, AccountTypes DEF Read
  <2>2. CASE acct.there
    <3>1. job' = [job EXCEPT ![j] = At(new, "find")]
      BY <1>8, <2>2 DEF Read, Become, new
    <3>2. PICK q \in JobType : q = At(new, "find") /\ q.pc = "find" /\ q.op = "use"
      BY <1>4, <1>8, AtIs DEF Steps
    <3>3. Fine(q, JobTab[j])'
      BY <3>2 DEF Fine, Moving, Parting, Porting, Writing
    <3> QED
      BY <1>1, <1>3, <2>1, <3>1, <3>2, <3>3, QuietWork
  <2>3. CASE ~acct.there
    <3>1. job' = [job EXCEPT ![j] = Finish(r, "failed")]
      BY <1>8, <2>3 DEF Read, Become
    <3> QED
      BY <1>1, <1>2, <1>3, <2>1, <3>1, FinishIs, EndWork
  <2> QED
    BY <2>2, <2>3
<1>9. CASE r.op = "change"
  <2>1. CASE ~acct.there
    <3>1. job' = [job EXCEPT ![j] = Finish(r, "failed")] /\ cache' = cache
      BY <1>9, <2>1 DEF Read, Become
    <3> QED
      BY <1>1, <1>2, <1>3, <3>1, FinishIs, EndWork, AccountTypes
  <2>2. CASE acct.there
    <3> DEFINE b == Stripped(acct, r.mode)
               s == [new EXCEPT !.body = b]
    <3>1. b \in Account /\ b.there /\ b.mode = r.mode /\ b.auth = None
      BY <1>2, <2>2 DEF Stripped, Account, JobType
    <3>2. Carry(j, s)
      BY <1>9, <2>2 DEF Read, new
    <3> HIDE DEF b
    <3>3. s \in JobType /\ s.op = "change" /\ s.mode = r.mode /\ s.body = b
      BY <1>4, <1>9, <3>1 DEF JobType
    <3> HIDE DEF s
    <3>4. CASE s.mode = "none"
      <4> DEFINE s0 == [s EXCEPT !.tok = None]
      <4>1. s0 \in JobType /\ s0.op = "change" /\ s0.mode = "none" /\ s0.body = b
        BY <3>3, <3>4 DEF JobType
      <4>2. Forget(j, s0)
        BY <3>2, <3>4 DEF Carry
      <4> HIDE DEF s0
      <4> QED
        BY <1>1, <1>3, <3>1, <3>3, <3>4, <4>1, <4>2, ForgetOk
    <3>5. CASE s.mode # "none" /\ s.tok # None
      <4>1. Forget(j, s)
        BY <3>2, <3>5 DEF Carry
      <4> QED
        BY <1>1, <1>3, <3>1, <3>3, <3>5, <4>1, ForgetOk
    <3>6. CASE s.mode # "none" /\ s.tok = None
      <4>1. job' = [job EXCEPT ![j] = At(s, "find")] /\ cache' = cache
        BY <3>2, <3>6 DEF Carry, Become
      <4>2. PICK q \in JobType : q = At(s, "find") /\ q.pc = "find" /\ q.op = "change" /\ q.body = b /\ q.mode = r.mode
        BY <3>3, AtIs DEF Steps
      <4>3. Fine(q, JobTab[j])'
        BY <3>1, <4>2 DEF Fine, Moving, Parting, Porting, Writing
      <4> QED
        BY <1>1, <1>3, <4>1, <4>2, <4>3, QuietWork, AccountTypes
    <3> QED
      BY <3>4, <3>5, <3>6
  <2> QED
    BY <2>1, <2>2
<1> QED
  BY <1>3, <1>5, <1>6, <1>7, <1>8, <1>9

\* A token was found, or none.
LEMMA WithOk ==
  ASSUME AccountInv, NEW j \in Jobs, job[j].pc \in {"find", "found"}, NEW tok \in Tokens \union {None}, With(j, job[j], tok),
         UNCHANGED <<rev, idb, idbFailed, torn, acct, trouble>>
  PROVE  AccountInv'
<1> DEFINE r == job[j]
<1>1. r.pc \in Steps \ {"idbClear"} /\ trouble' \in 0 .. MaxTrouble
  BY AccountTypes DEF Steps
<1>2. r \in JobType /\ Fine(r, JobTab[j])
  BY <1>1, RunningIs
<1>3. r.op \in {"use", "change"}
  BY <1>2 DEF Fine
<1>4. CASE r.op = "use" \/ tok = None
  <2>1. cache' = cache /\ (job' = [job EXCEPT ![j] = Finish(r, "ok")] \/ job' = [job EXCEPT ![j] = Finish(r, "token_required")])
    BY <1>4 DEF With, Become
  <2> QED
    BY <1>1, <1>2, <2>1, FinishIs, EndWork, AccountTypes
<1>5. CASE r.op # "use" /\ tok # None
  <2> DEFINE s == [r EXCEPT !.tok = tok]
  <2>1. Forget(j, s)
    BY <1>5 DEF With
  <2>2. s \in JobType /\ s.op = "change" /\ s.mode = r.mode /\ s.tok = tok /\ s.body = r.body
    BY <1>2, <1>3, <1>5 DEF JobType
  <2> HIDE DEF s
  <2>3. s.body.there /\ s.body.mode = s.mode /\ s.body.auth = None
    BY <1>2, <1>3, <1>5, <2>2 DEF Fine, Moving
  <2> QED
    BY <1>1, <1>5, <2>1, <2>2, <2>3, ForgetOk
<1> QED
  BY <1>4, <1>5

LEMMA FindOk == ASSUME AccountInv, NEW j \in Jobs, Find(j) PROVE AccountInv'
<1> DEFINE r == job[j]
           cached == cache[JobTab[j]]
           stored == IF r.held.mode = "couchdb" THEN acct.auth ELSE idb
<1>1. r.pc = "find" /\ r.pc \in Steps \ {"idbClear"} /\ UNCHANGED <<acct, rev, idb, trouble, idbFailed, torn>>
  BY DEF Find, Stored, Marks, Steps
<1>2. r \in JobType /\ Fine(r, JobTab[j]) /\ acct \in Account /\ trouble' \in 0 .. MaxTrouble
  BY <1>1, RunningIs, AccountTypes
<1>3. cached \in Tokens \union {None} /\ stored \in Tokens \union {None}
  BY <1>2, AccountTypes DEF Account
<1>4. \/ With(j, r, cached)
      \/ job' = [job EXCEPT ![j] = At([r EXCEPT !.goal = stored], "found")] /\ cache' = cache
  BY DEF Find, Become
<1> HIDE DEF cached, stored
<1>5. CASE With(j, r, cached)
  BY <1>1, <1>3, <1>5, WithOk
<1>6. CASE job' = [job EXCEPT ![j] = At([r EXCEPT !.goal = stored], "found")] /\ cache' = cache
  <2> DEFINE s == [r EXCEPT !.goal = stored]
  <2>1. s \in JobType /\ SameBut(s, r)
    BY <1>2, <1>3 DEF JobType, SameBut
  <2>2. job' = [job EXCEPT ![j] = At(s, "found")] /\ cache' = cache
    BY <1>6
  <2> HIDE DEF s
  <2>3. PICK q \in JobType : q = At(s, "found") /\ q.pc = "found" /\ SameBut(q, r)
    BY <2>1, AtIs DEF Steps, SameBut
  <2>4. Fine(q, JobTab[j])'
    BY <1>1, <1>2, <2>3 DEF Fine, SameBut, Moving, Parting, Porting, Writing
  <2> QED
    BY <1>1, <1>2, <2>2, <2>3, <2>4, QuietWork, AccountTypes
<1> QED
  BY <1>4, <1>5, <1>6

LEMMA FoundOk == ASSUME AccountInv, NEW j \in Jobs, Found(j) PROVE AccountInv'
<1> DEFINE r == job[j]
<1>1. r.pc = "found" /\ r.pc \in Steps \ {"idbClear"} /\ UNCHANGED <<acct, rev, idb, trouble, idbFailed, torn>>
  BY DEF Found, Stored, Marks, Steps
<1>2. r \in JobType /\ r.goal \in Tokens \union {None} /\ trouble' \in 0 .. MaxTrouble
  BY <1>1, RunningIs, AccountTypes DEF JobType
<1>3. CASE r.op = "use" /\ r.goal # None
  <2>1. cache' = [cache EXCEPT ![JobTab[j]] = r.goal] /\ job' = [job EXCEPT ![j] = Finish(r, "ok")]
    BY <1>3 DEF Found, Become
  <2> QED
    BY <1>1, <1>2, <2>1, FinishIs, CacheTypes, EndWork
<1>4. CASE ~(r.op = "use" /\ r.goal # None)
  <2>1. With(j, r, r.goal)
    BY <1>4 DEF Found
  <2> QED
    BY <1>1, <1>2, <2>1, WithOk
<1> QED
  BY <1>3, <1>4

LEMMA IdbClearOk == ASSUME AccountInv, NEW j \in Jobs, IdbClear(j) PROVE AccountInv'
<1> DEFINE r == job[j]
<1>1. r.pc = "idbClear" /\ r.pc \in Steps /\ UNCHANGED <<acct, rev, cache, torn>> /\ job' = [job EXCEPT ![j] = At(r, "tokRead")]
      /\ \/ idb' = None /\ UNCHANGED <<trouble, idbFailed>>
         \/ trouble < MaxTrouble /\ trouble' = trouble + 1 /\ idbFailed' = TRUE /\ idb' = idb
  BY DEF IdbClear, Idb, Become, Steps
<1>2. r \in JobType /\ Fine(r, JobTab[j])
  BY <1>1, RunningIs
<1>3. PICK q \in JobType : q = At(r, "tokRead") /\ q.pc = "tokRead" /\ SameBut(q, r) /\ q.goal = r.goal
  BY <1>2, AtIs DEF SameBut, Steps
<1>4. Clean' /\ Named'
  BY <1>1 DEF Clean, Named
<1>5. Fine(q, JobTab[j])'
  BY <1>1, <1>2, <1>3, <1>4 DEF Fine, SameBut, Moving, Parting, Porting, Writing
<1>6. idb' \in Tokens \union {None} /\ idbFailed' \in BOOLEAN /\ trouble' \in 0 .. MaxTrouble
  <2>1. trouble' \in 0 .. MaxTrouble
    BY <1>1, AccountTypes
  <2> QED
    BY <1>1, <2>1, AccountTypes
<1> QED
  BY <1>1, <1>3, <1>4, <1>5, <1>6, AccountTypes, WorkStep

LEMMA IdbPutOk == ASSUME AccountInv, NEW j \in Jobs, IdbPut(j) PROVE AccountInv'
<1> DEFINE r == job[j]
<1>1. r.pc = "idbPut" /\ r.pc \in Steps /\ UNCHANGED <<acct, rev, cache, torn>> /\ job' = [job EXCEPT ![j] = Finish(r, "ok")]
      /\ \/ idb' = r.tok /\ UNCHANGED <<trouble, idbFailed>>
         \/ trouble < MaxTrouble /\ trouble' = trouble + 1 /\ idbFailed' = TRUE /\ idb' = idb
  BY DEF IdbPut, Idb, Become, Steps
<1>2. r \in JobType /\ acct.mode = "indexeddb"
  BY <1>1, RunningIs DEF Fine
<1>3. PICK q \in JobType : q = Finish(r, "ok") /\ q.pc = "done"
  BY <1>2, FinishIs
<1>4. Named' /\ q.pc \notin Steps
  BY <1>1, <1>2, <1>3 DEF Named, Steps
<1>5. idb' \in Tokens \union {None} /\ idbFailed' \in BOOLEAN /\ trouble' \in 0 .. MaxTrouble
  <2>1. trouble' \in 0 .. MaxTrouble
    BY <1>1, AccountTypes
  <2> QED
    BY <1>1, <1>2, <2>1, AccountTypes DEF JobType
<1> QED
  BY <1>1, <1>3, <1>4, <1>5, AccountTypes, WorkStep

\* What follows the token's write.
LEMMA AfterTokenIs ==
  ASSUME NEW r \in JobType
  PROVE  /\ AfterToken(r) \in JobType
         /\ \/ r.op = "change" /\ r.goal = None /\ AfterToken(r).pc = "docRev" /\ SameBut(AfterToken(r), r)
            \/ ~(r.op = "change" /\ r.goal = None) /\ AfterToken(r).pc = "done"
<1>1. CASE r.op = "change" /\ r.goal = None
  <2>1. AfterToken(r) = At(r, "docRev")
    BY <1>1 DEF AfterToken
  <2> QED
    BY <1>1, <2>1, AtIs DEF SameBut, Steps
<1>2. CASE ~(r.op = "change" /\ r.goal = None)
  <2>1. AfterToken(r) = Finish(r, "ok")
    BY <1>2 DEF AfterToken
  <2> QED
    BY <1>2, <2>1, FinishIs
<1> QED
  BY <1>1, <1>2

LEMMA TokenReadOk == ASSUME AccountInv, NEW j \in Jobs, TokenRead(j) PROVE AccountInv'
<1> DEFINE r == job[j]
           h == [acct EXCEPT !.auth = r.goal]
           s == [r EXCEPT !.held = h]
<1>1. r.pc = "tokRead" /\ r.pc \in Steps \ {"idbClear"} /\ UNCHANGED <<acct, rev, idb, cache, trouble, idbFailed, torn>>
      /\ job' = [job EXCEPT ![j] = IF acct.there THEN At(s, "tokRev") ELSE AfterToken(r)]
  BY DEF TokenRead, Become, Stored, Marks, Steps
<1>2. r \in JobType /\ Fine(r, JobTab[j]) /\ acct \in Account /\ trouble' \in 0 .. MaxTrouble
      /\ cache' \in [Tabs -> Tokens \union {None}]
  BY <1>1, RunningIs, AccountTypes
<1>3. h \in Account /\ h.there = acct.there /\ h.mode = acct.mode /\ h.auth = r.goal
  BY <1>2 DEF Account, JobType
<1> HIDE DEF h
<1>4. s \in JobType /\ SameBut(s, r) /\ s.goal = r.goal /\ s.held = h
  BY <1>2, <1>3 DEF JobType, SameBut
<1> HIDE DEF s
<1>5. CASE acct.there
  <2>1. PICK q \in JobType : q = At(s, "tokRev") /\ q.pc = "tokRev" /\ SameBut(q, r) /\ q.goal = r.goal /\ q.held = h
    BY <1>4, AtIs DEF SameBut, Steps
  <2>2. Clean' <=> Clean
    BY <1>1 DEF Clean
  <2>3. Fine(q, JobTab[j])'
    BY <1>1, <1>2, <1>3, <1>5, <2>1, <2>2 DEF Fine, SameBut, Moving, Parting, Porting, Writing
  <2> QED
    BY <1>1, <1>2, <1>5, <2>1, <2>3, QuietWork
<1>6. CASE ~acct.there
  <2>1. PICK q \in JobType : q = AfterToken(r)
    BY <1>2, AfterTokenIs
  <2>2. Clean' <=> Clean
    BY <1>1 DEF Clean
  <2>3. q.pc \in Steps => Fine(q, JobTab[j])'
    BY <1>1, <1>2, <2>1, <2>2, AfterTokenIs DEF Fine, SameBut, Moving, Parting, Porting, Writing, Steps
  <2> QED
    BY <1>1, <1>2, <1>6, <2>1, <2>3, QuietWork
<1> QED
  BY <1>5, <1>6

LEMMA RevOfOk == ASSUME AccountInv, NEW j \in Jobs, Rev(j) PROVE AccountInv'
<1> DEFINE r == job[j]
           s == [r EXCEPT !.rev = rev]
           pc == IF r.pc = "tokRev" THEN "tokPut" ELSE "docPut"
<1>1. r.pc \in {"tokRev", "docRev"} /\ r.pc \in Steps \ {"idbClear"} /\ UNCHANGED <<acct, rev, idb, cache, trouble, idbFailed, torn>>
      /\ job' = [job EXCEPT ![j] = At(s, pc)]
  BY DEF Rev, Become, Stored, Marks, Steps
<1>2. r \in JobType /\ Fine(r, JobTab[j]) /\ trouble' \in 0 .. MaxTrouble /\ cache' \in [Tabs -> Tokens \union {None}]
  BY <1>1, RunningIs, AccountTypes
<1>3. s \in JobType /\ SameBut(s, r) /\ s.goal = r.goal /\ s.held = r.held
  BY <1>2, AccountTypes DEF JobType, SameBut
<1> HIDE DEF s
<1>4. PICK q \in JobType : q = At(s, pc) /\ q.pc = pc /\ SameBut(q, r) /\ q.goal = r.goal /\ q.held = r.held
  BY <1>3, AtIs DEF SameBut, Steps
<1>5. Clean' <=> Clean
  BY <1>1 DEF Clean
<1>6. Fine(q, JobTab[j])'
  BY <1>1, <1>2, <1>4, <1>5 DEF Fine, SameBut, Moving, Parting, Porting, Writing
<1> QED
  BY <1>1, <1>2, <1>4, <1>6, QuietWork

\* The account document as a token's or a document's write leaves it.
Wrote(r, a) == a = IF r.pc = "tokPut" THEN r.held ELSE r.body

LEMMA WroteOk ==
  ASSUME AccountInv, NEW j \in Jobs, job[j].pc \in {"tokPut", "docPut"}, UNCHANGED <<idb, idbFailed, torn>>, Wrote(job[j], acct')
  PROVE  /\ acct' \in Account /\ acct'.there /\ (acct'.auth # None => acct'.mode = "couchdb") /\ Named'
         /\ job[j] \in JobType /\ Fine(job[j], JobTab[j]) /\ job[j].pc \in Steps \ {"idbClear"}
         /\ Clean' <=> Clean
<1> DEFINE r == job[j]
<1>1. r.pc \in Steps \ {"idbClear"}
  BY DEF Steps
<1>2. r \in JobType /\ Fine(r, JobTab[j]) /\ Named /\ acct \in Account /\ (acct.auth # None => acct.mode = "couchdb")
  BY <1>1, RunningIs, AccountTypes
<1>3. acct' = IF r.pc = "tokPut" THEN r.held ELSE r.body
  BY DEF Wrote
<1>4. Clean' <=> Clean
  BY DEF Clean
<1>5. CASE r.pc = "tokPut"
  <2>1. acct' = r.held /\ r.held \in Account /\ r.held.there /\ r.held.mode = acct.mode /\ r.held.auth = r.goal /\ Clean
        /\ (r.goal # None => acct.mode = "couchdb")
    BY <1>2, <1>3, <1>5 DEF Fine, Porting, JobType
  <2> QED
    BY <1>1, <1>2, <1>4, <2>1 DEF Clean, Named
<1>6. CASE r.pc = "docPut"
  <2>1. acct' = r.body /\ r.body \in Account /\ r.body.there /\ r.op \in {"connect", "rename", "change"}
    BY <1>2, <1>3, <1>6 DEF Fine, Writing, JobType
  <2>2. CASE r.op = "connect"
    <3>1. Clean /\ (r.body.auth # None => r.body.mode = "couchdb")
      BY <1>2, <1>6, <2>2 DEF Fine, Writing
    <3> QED
      BY <1>1, <1>2, <1>4, <2>1, <3>1 DEF Clean, Named
  <2>3. CASE r.op = "change"
    <3>1. Clean /\ r.body.auth = None
      BY <1>2, <1>6, <2>3 DEF Fine, Writing, Moving
    <3> QED
      BY <1>1, <1>2, <1>4, <2>1, <3>1 DEF Clean, Named
  <2>4. CASE r.op = "rename"
    <3>1. r.body.mode = acct.mode /\ r.body.auth = acct.auth
      BY <1>2, <1>6, <2>4 DEF Fine, Writing
    <3> QED
      BY <1>1, <1>2, <1>4, <2>1, <3>1 DEF Named
  <2> QED
    BY <2>1, <2>2, <2>3, <2>4
<1> QED
  BY <1>5, <1>6

\* Somebody else was quicker: the job fails.
LEMMA RefusedOk ==
  ASSUME AccountInv, NEW j \in Jobs, job[j].pc \in Steps \ {"idbClear"},
         job' = [job EXCEPT ![j] = Finish(job[j], "failed")], cache' \in [Tabs -> Tokens \union {None}],
         trouble' \in 0 .. MaxTrouble, UNCHANGED <<acct, rev, idb, idbFailed, torn>>
  PROVE  AccountInv'
<1>1. job[j] \in JobType
  BY RunningIs
<1> QED
  BY <1>1, FinishIs, EndWork

LEMMA PutTokenOk == ASSUME AccountInv, NEW j \in Jobs, PutToken(j) PROVE AccountInv'
<1> DEFINE r == job[j]
<1>1. r.pc = "tokPut" /\ Put(j, r.held) /\ UNCHANGED <<idb, trouble, idbFailed, torn>> /\ trouble' \in 0 .. MaxTrouble
      /\ r.pc \in Steps \ {"idbClear"}
  BY AccountTypes DEF PutToken, Marks, Steps
<1>2. CASE r.rev # rev
  BY <1>1, <1>2, RefusedOk, AccountTypes DEF Put, Become
<1>3. CASE r.rev = rev
  <2>1. acct' = r.held /\ rev' = rev + 1 /\ job' = [job EXCEPT ![j] = AfterToken(r)] /\ cache' = cache
    BY <1>1, <1>3 DEF Put, Become
  <2>2. /\ acct' \in Account /\ acct'.there /\ (acct'.auth # None => acct'.mode = "couchdb") /\ Named'
        /\ r \in JobType /\ Fine(r, JobTab[j]) /\ (Clean' <=> Clean)
    BY <1>1, <2>1, WroteOk DEF Wrote
  <2>3. PICK q \in JobType : q = AfterToken(r)
    BY <2>2, AfterTokenIs
  <2>4. q.pc \in Steps => Fine(q, JobTab[j])'
    BY <1>1, <2>2, <2>3, AfterTokenIs DEF Fine, SameBut, Moving, Parting, Porting, Writing, Steps
  <2>5. rev' \in Nat /\ rev' # 0
    BY <2>1, AccountTypes
  <2>6. job' = [job EXCEPT ![j] = q] /\ idb' \in Tokens \union {None} /\ idbFailed' \in BOOLEAN /\ torn' \in BOOLEAN
        /\ cache' \in [Tabs -> Tokens \union {None}]
    BY <1>1, <2>1, <2>3, AccountTypes
  <2> QED
    BY <1>1, <2>2, <2>4, <2>5, <2>6, WorkStep
<1> QED
  BY <1>2, <1>3

LEMMA PutDocumentOk == ASSUME AccountInv, NEW j \in Jobs, PutDocument(j) PROVE AccountInv'
<1> DEFINE r == job[j]
<1>1. r.pc = "docPut" /\ Put(j, r.body) /\ UNCHANGED <<idb, trouble, idbFailed, torn>> /\ trouble' \in 0 .. MaxTrouble
      /\ r.pc \in Steps \ {"idbClear"}
  BY AccountTypes DEF PutDocument, Marks, Steps
<1>2. CASE r.rev # rev
  BY <1>1, <1>2, RefusedOk, AccountTypes DEF Put, Become
<1>3. CASE r.rev = rev
  <2>1. acct' = r.body /\ rev' = rev + 1
    BY <1>1, <1>3 DEF Put
  <2>2. /\ acct' \in Account /\ acct'.there /\ (acct'.auth # None => acct'.mode = "couchdb") /\ Named'
        /\ r \in JobType /\ Fine(r, JobTab[j]) /\ (Clean' <=> Clean)
    BY <1>1, <2>1, WroteOk DEF Wrote
  <2>3. rev' \in Nat /\ rev' # 0 /\ r.tok \in Tokens \union {None}
    BY <2>1, <2>2, AccountTypes DEF JobType
  <2>4. \/ job' = [job EXCEPT ![j] = Finish(r, "ok")] /\ (cache' = cache \/ cache' = [cache EXCEPT ![JobTab[j]] = r.tok])
        \/ Keep(j, r) /\ r.op # "rename" /\ r.tok # None
    BY <1>1, <1>3 DEF Put, Become
  <2>5. PICK q \in JobType :
          /\ job' = [job EXCEPT ![j] = q] /\ cache' \in [Tabs -> Tokens \union {None}]
          /\ \/ q.pc = "done"
             \/ /\ r.op # "rename" /\ r.tok # None /\ SameBut(q, r) /\ cache'[JobTab[j]] = r.tok
                /\ \/ r.mode = "couchdb" /\ q.pc = "tokRead" /\ q.goal = r.tok
                   \/ r.mode = "indexeddb" /\ q.pc = "idbPut"
    <3>1. CASE Keep(j, r) /\ r.op # "rename" /\ r.tok # None
      BY <2>2, <2>3, <3>1, KeepIs, CacheTypes
    <3>2. CASE job' = [job EXCEPT ![j] = Finish(r, "ok")] /\ (cache' = cache \/ cache' = [cache EXCEPT ![JobTab[j]] = r.tok])
      BY <2>2, <2>3, <3>2, FinishIs, CacheTypes
    <3> QED
      BY <2>4, <3>1, <3>2
  <2>6. r.op \in {"connect", "rename", "change"} /\ (r.op # "rename" => r.body.mode = r.mode /\ Clean)
        /\ (r.op = "connect" /\ r.mode = "couchdb" => q.pc = "done")
        /\ (r.op = "change" => r.body.auth = None /\ r.body.there)
    <3>1. r.op \in {"connect", "rename", "change"} /\ (r.op # "rename" => r.body.mode = r.mode /\ Clean)
          /\ (r.op = "change" => r.body.auth = None /\ r.body.there)
      BY <1>1, <2>2 DEF Fine, Writing, Moving
    <3>2. r.op = "connect" /\ r.mode = "couchdb" => q.pc = "done"
      <4> SUFFICES ASSUME r.op = "connect", r.mode = "couchdb" PROVE q.pc = "done"
        OBVIOUS
      <4>1. job' = [job EXCEPT ![j] = Finish(r, "ok")]
        BY <1>1, <1>3 DEF Put, Become
      <4>2. job'[j] = Finish(r, "ok") /\ job'[j] = q
        BY <2>5, <4>1, AccountTypes
      <4> QED
        BY <2>2, <4>2, FinishIs
    <3> QED
      BY <3>1, <3>2
  <2>7. q.pc \in Steps => Fine(q, JobTab[j])'
    <3>1. CASE q.pc = "done"
      BY <3>1 DEF Steps
    <3>2. CASE q.pc = "tokRead"
      <4>1. q.op = "change" /\ q.mode = "couchdb" /\ q.goal = q.tok /\ q.tok # None /\ q.body = r.body /\ r.op = "change" /\ r.mode = "couchdb"
            /\ cache'[JobTab[j]] = q.tok
        BY <2>5, <2>6, <3>2 DEF SameBut
      <4>2. Clean' /\ acct'.mode = "couchdb"
        BY <2>1, <2>2, <2>6, <4>1
      <4> QED
        BY <2>6, <3>2, <4>1, <4>2 DEF Fine, Moving, Parting, Porting, Writing
    <3>3. CASE q.pc = "idbPut"
      <4>1. q.op \in {"connect", "change"} /\ q.mode = "indexeddb" /\ q.tok # None /\ r.op # "rename" /\ r.mode = "indexeddb"
            /\ cache'[JobTab[j]] = q.tok
        BY <2>5, <2>6, <3>3 DEF SameBut
      <4>2. acct'.mode = "indexeddb"
        BY <2>1, <2>6, <4>1
      <4> QED
        BY <3>3, <4>1, <4>2 DEF Fine, Moving, Parting, Porting, Writing
    <3> QED
      BY <2>5, <3>1, <3>2, <3>3
  <2>8. idb' \in Tokens \union {None} /\ idbFailed' \in BOOLEAN /\ torn' \in BOOLEAN
    BY <1>1, AccountTypes
  <2> QED
    BY <1>1, <2>2, <2>3, <2>5, <2>7, <2>8, WorkStep
<1> QED
  BY <1>2, <1>3

\* The account is deleted, and its token is forgotten next.
LEMMA DeletedOk ==
  ASSUME AccountInv, NEW j \in Jobs, job[j].pc = "del", NEW r \in JobType, r.op = "delete", Forget(j, r),
         acct' = NoAccount, rev' = rev + 1, UNCHANGED <<idb, idbFailed, torn>>, trouble' \in 0 .. MaxTrouble
  PROVE  AccountInv'
<1>1. PICK q \in JobType : job' = [job EXCEPT ![j] = q] /\ SameBut(q, r) /\ q.pc = "idbClear" /\ q.goal = None
  BY ForgetIs
<1>2. cache' \in [Tabs -> Tokens \union {None}]
  BY ForgetIs, CacheTypes
<1>3. Fine(q, JobTab[j])'
  BY <1>1 DEF SameBut, Fine, Moving, Parting, Porting, Writing
<1>4. acct' \in Account /\ acct'.auth = None /\ rev' \in Nat
  BY AccountTypes, RestingIs DEF NoAccount
<1>5. job[j].pc \in Steps /\ q.op = "delete"
  BY <1>1 DEF Steps, SameBut
<1>6. idb' \in Tokens \union {None} /\ idbFailed' \in BOOLEAN /\ torn' \in BOOLEAN
  BY AccountTypes
<1> QED
  BY <1>1, <1>2, <1>3, <1>4, <1>5, <1>6, WorkStep

LEMMA DeleteOk == ASSUME AccountInv, NEW j \in Jobs, Delete(j) PROVE AccountInv'
<1> DEFINE r == job[j]
<1>1. r.pc = "del" /\ r.pc \in Steps \ {"idbClear"} /\ UNCHANGED <<idb, trouble, idbFailed, torn>> /\ trouble' \in 0 .. MaxTrouble
  BY AccountTypes DEF Delete, Marks, Steps
<1>2. r \in JobType /\ r.op = "delete"
  BY <1>1, RunningIs DEF Fine
<1>3. CASE r.rev = rev /\ acct.there
  BY <1>1, <1>2, <1>3, DeletedOk DEF Delete
<1>4. CASE ~(r.rev = rev /\ acct.there)
  <2> DEFINE s == [r EXCEPT !.res = "failed"]
  <2>1. Forget(j, s) /\ UNCHANGED <<acct, rev>>
    BY <1>4 DEF Delete
  <2>2. s \in JobType /\ s.op = "delete"
    BY <1>2 DEF JobType
  <2> HIDE DEF s
  <2> QED
    BY <1>1, <2>1, <2>2, ForgetOk
<1> QED
  BY <1>3, <1>4

LEMMA FailOk == ASSUME AccountInv, NEW j \in Jobs, Fail(j) PROVE AccountInv'
<1> DEFINE r == job[j]
           s == [r EXCEPT !.res = "failed"]
<1>1. /\ r.pc \in Steps \ {"idbClear"} /\ trouble < MaxTrouble /\ trouble' = trouble + 1
      /\ UNCHANGED <<acct, rev, idb, idbFailed, torn>>
      /\ \/ cache' = [cache EXCEPT ![JobTab[j]] = r.tok] /\ job' = [job EXCEPT ![j] = Finish(r, "ok")]
         \/ r.op = "delete" /\ Forget(j, s)
         \/ job' = [job EXCEPT ![j] = Finish(r, "failed")] /\ cache' = cache
  BY DEF Fail, Become, Stored
<1>2. r \in JobType /\ r.tok \in Tokens \union {None}
  BY <1>1, RunningIs DEF JobType
<1>3. trouble' \in 0 .. MaxTrouble
  BY <1>1, AccountTypes
<1>4. s \in JobType /\ s.op = r.op
  BY <1>2 DEF JobType
<1> HIDE DEF s
<1>5. CASE r.op = "delete" /\ Forget(j, s)
  BY <1>1, <1>3, <1>4, <1>5, ForgetOk
<1>6. CASE cache' = [cache EXCEPT ![JobTab[j]] = r.tok] /\ job' = [job EXCEPT ![j] = Finish(r, "ok")]
  BY <1>1, <1>2, <1>3, <1>6, FinishIs, CacheTypes, EndWork
<1>7. CASE job' = [job EXCEPT ![j] = Finish(r, "failed")] /\ cache' = cache
  BY <1>1, <1>3, <1>7, RefusedOk, AccountTypes
<1> QED
  BY <1>1, <1>5, <1>6, <1>7

LEMMA LoseAnswerOk == ASSUME AccountInv, NEW j \in Jobs, LoseAnswer(j) PROVE AccountInv'
<1> DEFINE r == job[j]
           s == [r EXCEPT !.res = "failed"]
<1>1. /\ r.pc \in {"tokPut", "docPut", "del"} /\ trouble < MaxTrouble /\ trouble' = trouble + 1 /\ rev' = rev + 1
      /\ UNCHANGED <<idb, idbFailed, torn>>
      /\ IF r.pc = "del" THEN acct' = NoAccount /\ Forget(j, s)
         ELSE /\ acct' = IF r.pc = "tokPut" THEN r.held ELSE r.body
              /\ job' = [job EXCEPT ![j] = Finish(r, "failed")] /\ cache' = cache
  BY DEF LoseAnswer, Become
<1>2. r \in JobType /\ r.pc \in Steps /\ Fine(r, JobTab[j])
  BY <1>1, RunningIs DEF Steps
<1>3. trouble' \in 0 .. MaxTrouble /\ rev' \in Nat /\ rev' # 0
  BY <1>1, AccountTypes
<1>4. s \in JobType /\ s.op = r.op
  BY <1>2 DEF JobType
<1> HIDE DEF s
<1>5. CASE r.pc = "del"
  <2>1. s.op = "delete"
    BY <1>2, <1>4, <1>5 DEF Fine
  <2> QED
    BY <1>1, <1>3, <1>4, <1>5, <2>1, DeletedOk
<1>6. CASE r.pc # "del"
  <2>1. Wrote(r, acct') /\ r.pc \in {"tokPut", "docPut"}
    BY <1>1, <1>6 DEF Wrote
  <2>2. acct' \in Account /\ acct'.there /\ (acct'.auth # None => acct'.mode = "couchdb") /\ Named'
    BY <1>1, <2>1, WroteOk
  <2>3. PICK q \in JobType : q = Finish(r, "failed") /\ q.pc = "done"
    BY <1>2, FinishIs
  <2>4. job' = [job EXCEPT ![j] = q] /\ q.pc \notin Steps /\ idb' \in Tokens \union {None} /\ idbFailed' \in BOOLEAN /\ torn' \in BOOLEAN
        /\ cache' \in [Tabs -> Tokens \union {None}]
    BY <1>1, <1>6, <2>3, AccountTypes DEF Steps
  <2> QED
    BY <1>2, <1>3, <2>2, <2>4, WorkStep
<1> QED
  BY <1>5, <1>6

LEMMA CloseTabOk == ASSUME AccountInv, NEW t \in Tabs, CloseTab(t) PROVE AccountInv'
<1> DEFINE Cut == [Resting EXCEPT !.pc = "done", !.res = "cut"]
<1>1. /\ trouble < MaxTrouble /\ trouble' = trouble + 1 /\ cache' = [cache EXCEPT ![t] = None]
      /\ job' = [j \in Jobs |-> IF JobTab[j] = t /\ j \in Running THEN Cut ELSE job[j]]
      /\ torn' = (torn \/ \E j \in Running : JobTab[j] = t /\ job[j].op = "delete")
      /\ UNCHANGED <<acct, rev, idb, idbFailed>>
  BY DEF CloseTab, Stored
<1>2. Cut \in JobType /\ Cut.pc = "done" /\ Cut.pc \notin Steps
  BY RestingIs DEF JobType, Steps
<1> HIDE DEF Cut
<1>3. trouble' \in 0 .. MaxTrouble /\ cache' \in [Tabs -> Tokens \union {None}] /\ job' \in [Jobs -> JobType]
  BY <1>1, <1>2, AccountTypes
<1>4. torn' \in BOOLEAN /\ (torn => torn')
  BY <1>1, Zenon
<1>5. AccountTypeOK'
  BY <1>1, <1>3, <1>4, AccountTypes DEF AccountTypeOK
<1>6. ASSUME NEW j \in Running'
      PROVE  j \in Running /\ JobTab[j] # t /\ job'[j] = job[j]
  BY <1>1, <1>2 DEF Running
<1>7. Clean => Clean'
  BY <1>1, <1>4 DEF Clean
<1>8. Named => Named'
  BY <1>1, <1>4 DEF Named
<1>9. ASSUME NEW j \in Running' PROVE Fine(job[j], JobTab[j])'
  <2>1. j \in Running /\ j \in Jobs /\ JobTab[j] # t /\ job'[j] = job[j] /\ JobTab[j] \in Tabs
    BY <1>6, AccountTypes DEF Running
  <2>2. cache'[JobTab[j]] = cache[JobTab[j]]
    BY <1>1, <2>1, AccountTypes
  <2>3. Fine(job[j], JobTab[j])
    BY <2>1 DEF AccountInv
  <2> QED
    BY <1>1, <1>7, <2>1, <2>2, <2>3 DEF Fine
<1>10. Named' \/ \E j \in Running' : job'[j].op = "delete" /\ job'[j].pc = "idbClear"
  <2>1. CASE Named
    BY <1>8, <2>1
  <2>2. ASSUME NEW j \in Running, job[j].op = "delete", job[j].pc = "idbClear", JobTab[j] = t PROVE Named'
    <3>1. torn'
      BY <1>1, <2>2, Zenon
    <3> QED
      BY <3>1 DEF Named
  <2>3. ASSUME NEW j \in Running, job[j].op = "delete", job[j].pc = "idbClear", JobTab[j] # t
        PROVE  j \in Running' /\ job'[j] = job[j]
    BY <1>1, <2>3 DEF Running
  <2> QED
    BY <2>1, <2>2, <2>3 DEF AccountInv
<1>11. \A i, j \in Running' : i = j
  BY <1>6 DEF AccountInv
<1>12. (acct'.auth # None => acct'.mode = "couchdb") /\ (rev' = 0 => acct' = NoAccount)
  BY <1>1, AccountTypes
<1> QED
  BY <1>5, <1>9, <1>10, <1>11, <1>12 DEF AccountInv

\* Nothing runs, so a job may start.
LEMMA NobodyRuns ==
  ASSUME AccountInv, Parallel = 1, Cardinality(Running) < Parallel PROVE Running = {} /\ Named
<1>1. Running = {}
  <2>1. CASE Running # {}
    <3>1. PICK j \in Running : TRUE
      BY <2>1
    <3>2. Running = {j}
      BY <3>1 DEF AccountInv
    <3>3. Cardinality(Running) = 1
      BY <3>2, FS_Singleton
    <3> QED
      BY <3>3
  <2> QED
    BY <2>1
<1> QED
  BY <1>1 DEF AccountInv

\* What a job starts with.
LEMMA StartIs ==
  ASSUME AccountInv, NEW j \in Jobs, NEW op \in {"connect", "rename", "change", "delete", "save", "use"},
         NEW mode \in Modes, NEW tok \in Tokens \union {None}, Start(j, op, mode, tok)
  PROVE  \E q \in JobType :
           /\ job' = [job EXCEPT ![j] = q] /\ q.op = op /\ q.mode = mode /\ q.tok = tok
           /\ \/ op # "connect" /\ q.pc = "read"
              \/ /\ op = "connect" /\ q.pc = "docRev" /\ q.body.there /\ q.body.mode = mode
                 /\ q.body.auth = (IF mode = "couchdb" THEN tok ELSE None)
<1>1. PICK label \in Labels :
        LET r == [Resting EXCEPT !.op = op, !.mode = mode, !.tok = tok] IN
        job' = [job EXCEPT ![j] =
          IF op = "connect"
          THEN At([r EXCEPT !.body = [there |-> TRUE, mode |-> mode, label |-> label,
                                      auth |-> IF mode = "couchdb" THEN tok ELSE None]], "docRev")
          ELSE At([r EXCEPT !.body.label = label], "read")]
  BY DEF Start, Become
<1> DEFINE r == [Resting EXCEPT !.op = op, !.mode = mode, !.tok = tok]
           auth == IF mode = "couchdb" THEN tok ELSE None
           b == [there |-> TRUE, mode |-> mode, label |-> label, auth |-> auth]
           b1 == [r.body EXCEPT !.label = label]
<1>2. r \in JobType /\ r.op = op /\ r.mode = mode /\ r.tok = tok /\ r.body = NoAccount
  BY RestingIs DEF JobType, Resting
<1>3. auth \in Tokens \union {None}
  OBVIOUS
<1> HIDE DEF r
<1>4. CASE op = "connect"
  <2>1. b \in Account /\ b.there /\ b.mode = mode /\ b.auth = auth
    BY <1>3 DEF Account
  <2> DEFINE s == [r EXCEPT !.body = b]
  <2>2. job' = [job EXCEPT ![j] = At(s, "docRev")]
    BY <1>1, <1>4 DEF r
  <2> HIDE DEF b
  <2>3. s \in JobType /\ s.op = op /\ s.mode = mode /\ s.tok = tok /\ s.body = b
    BY <1>2, <2>1 DEF JobType
  <2> HIDE DEF s
  <2>4. PICK q \in JobType : q = At(s, "docRev") /\ q.pc = "docRev" /\ q.op = op /\ q.mode = mode /\ q.tok = tok /\ q.body = b
    BY <2>3, AtIs DEF Steps
  <2> QED
    BY <1>4, <2>1, <2>2, <2>4
<1>5. CASE op # "connect"
  <2>1. b1 \in Account
    BY <1>2, RestingIs DEF Account, NoAccount
  <2> DEFINE s == [r EXCEPT !.body = b1]
  <2>2. s = [r EXCEPT !.body.label = label]
    BY <1>2
  <2>3. job' = [job EXCEPT ![j] = At(s, "read")]
    BY <1>1, <1>5, <2>2 DEF r
  <2> HIDE DEF b1
  <2>4. s \in JobType /\ s.op = op /\ s.mode = mode /\ s.tok = tok
    BY <1>2, <2>1 DEF JobType
  <2> HIDE DEF s
  <2>5. PICK q \in JobType : q = At(s, "read") /\ q.pc = "read" /\ q.op = op /\ q.mode = mode /\ q.tok = tok
    BY <2>4, AtIs DEF Steps
  <2> QED
    BY <1>5, <2>3, <2>5
<1> QED
  BY <1>4, <1>5

LEMMA StartOk ==
  ASSUME AccountInv, Parallel = 1, NEW j \in Jobs, NEW op \in {"connect", "rename", "change", "delete", "save", "use"},
         NEW mode \in Modes, NEW tok \in Tokens \union {None}, Start(j, op, mode, tok)
  PROVE  AccountInv'
<1>1. /\ UNCHANGED <<acct, rev, idb, cache, trouble, idbFailed, torn>> /\ Cardinality(Running) < Parallel
      /\ (op = "connect" => rev = 0) /\ (op \in {"connect", "save"} => tok # None) /\ (op = "save" => mode = "none")
  BY DEF Start, Stored, Marks
<1>2. Running = {} /\ Named
  BY <1>1, NobodyRuns
<1>3. PICK q \in JobType :
        /\ job' = [job EXCEPT ![j] = q] /\ q.op = op /\ q.mode = mode /\ q.tok = tok
        /\ \/ op # "connect" /\ q.pc = "read"
           \/ /\ op = "connect" /\ q.pc = "docRev" /\ q.body.there /\ q.body.mode = mode
              /\ q.body.auth = (IF mode = "couchdb" THEN tok ELSE None)
  BY StartIs
<1>4. job' \in [Jobs -> JobType] /\ job'[j] = q /\ \A i \in Jobs \ {j} : job'[i] = job[i]
  BY <1>3, AccountTypes
<1>5. Running' \subseteq {j}
  BY <1>2, <1>4 DEF Running
<1>6. rev = 0 => Clean
  <2>1. NoAccount.mode = "none"
    BY DEF NoAccount
  <2> QED
    BY <1>2, <2>1, AccountTypes DEF Clean, Named
<1>7. Fine(q, JobTab[j])'
  <2>1. rev = 0 => Clean'
    BY <1>1, <1>6 DEF Clean
  <2> QED
    BY <1>1, <1>3, <2>1 DEF Fine, Moving, Parting, Porting, Writing
<1>8. \A i \in Running' : Fine(job[i], JobTab[i])'
  BY <1>4, <1>5, <1>7
<1>9. AccountTypeOK' /\ Named'
  BY <1>1, <1>2, <1>4 DEF AccountInv, AccountTypeOK, Named
<1>10. (acct'.auth # None => acct'.mode = "couchdb") /\ (rev' = 0 => acct' = NoAccount) /\ \A i, k \in Running' : i = k
  BY <1>1, <1>5, AccountTypes
<1> QED
  BY <1>8, <1>9, <1>10 DEF AccountInv

LEMMA AccountStep == ASSUME AccountInv, Parallel = 1, [AccountNext]_accountVars PROVE AccountInv'
<1>1. ASSUME NEW j \in Jobs, Work(j) \/ Fail(j) \/ LoseAnswer(j) PROVE AccountInv'
  BY <1>1, ReadOk, FindOk, FoundOk, IdbClearOk, IdbPutOk, TokenReadOk, RevOfOk, PutTokenOk, PutDocumentOk, DeleteOk,
     FailOk, LoseAnswerOk DEF Work
<1>2. ASSUME NEW j \in Jobs, NEW op \in {"connect", "rename", "change", "delete", "save", "use"},
             NEW mode \in Modes, NEW tok \in Tokens \union {None}, Start(j, op, mode, tok)
      PROVE  AccountInv'
  BY <1>2, StartOk
<1>3. ASSUME NEW t \in Tabs, CloseTab(t) PROVE AccountInv'
  BY <1>3, CloseTabOk
<1>4. ASSUME UNCHANGED accountVars PROVE AccountInv'
  <2>1. UNCHANGED <<acct, rev, cache, idb, job, trouble, idbFailed, torn>>
    BY <1>4 DEF accountVars
  <2>2. Running' = Running
    BY <2>1 DEF Running
  <2>3. AccountTypeOK'
    BY <2>1 DEF AccountInv, AccountTypeOK
  <2>4. ASSUME NEW j \in Running' PROVE Fine(job[j], JobTab[j])'
    <3>1. Fine(job[j], JobTab[j])
      BY <2>2 DEF AccountInv
    <3> QED
      BY <2>1, <3>1 DEF Fine, Clean
  <2>5. Named' \/ \E j \in Running' : job'[j].op = "delete" /\ job'[j].pc = "idbClear"
    BY <2>1, <2>2 DEF AccountInv, Named
  <2>6. \A i, j \in Running' : i = j
    BY <2>2 DEF AccountInv
  <2>7. (acct'.auth # None => acct'.mode = "couchdb") /\ (rev' = 0 => acct' = NoAccount)
    BY <2>1, AccountTypes
  <2> QED
    BY <2>3, <2>4, <2>5, <2>6, <2>7 DEF AccountInv
<1> QED
  BY <1>1, <1>2, <1>3, <1>4 DEF AccountNext

LEMMA AccountAlways == ASSUME Parallel = 1 PROVE AccountSpec => []AccountInv
<1>1. AccountInit => AccountInv
  <2> SUFFICES ASSUME AccountInit PROVE AccountInv
    OBVIOUS
  <2>1. Running = {}
    BY RestingIs DEF AccountInit, Running, Steps
  <2>2. AccountTypeOK
    <3>1. acct \in Account /\ rev \in Nat /\ (~acct.there => acct = NoAccount)
      BY RestingIs DEF AccountInit
    <3>2. cache \in [Tabs -> Tokens \union {None}] /\ idb \in Tokens \union {None} /\ job \in [Jobs -> JobType]
      BY RestingIs DEF AccountInit
    <3>3. trouble \in 0 .. MaxTrouble
      BY AccountAssumption DEF AccountInit
    <3>4. idbFailed \in BOOLEAN /\ torn \in BOOLEAN
      BY DEF AccountInit
    <3> QED
      BY <3>1, <3>2, <3>3, <3>4 DEF AccountTypeOK
  <2>3. Named /\ acct.auth = None /\ acct = NoAccount
    BY DEF AccountInit, Named, NoAccount
  <2> QED
    BY <2>1, <2>2, <2>3 DEF AccountInv
<1> QED
  BY <1>1, AccountStep, PTL DEF AccountSpec

(* The account, its copies and the jobs have their types, one job at a time.        *)
THEOREM AccountTypesHold == ASSUME Parallel = 1 PROVE AccountSpec => []AccountTypeOK
<1>1. AccountInv => AccountTypeOK
  BY DEF AccountInv
<1> QED
  BY <1>1, AccountAlways, PTL

(* Whatever failed on the way and whichever tab was closed: between jobs no copy of  *)
(* the token is in a store that its account's mode does not name, unless IndexedDB   *)
(* failed or a tab was closed in the middle of a deletion.                           *)
THEOREM TokensHaveOneHome == ASSUME Parallel = 1 PROVE AccountSpec => []OneHome
<1>1. AccountInv => OneHome
  BY DEF AccountInv, OneHome, Named
<1> QED
  BY <1>1, AccountAlways, PTL

\* A job says it is done, and nothing went wrong that it could not know of.
SaysKept(j) ==
  /\ job[j].pc # "done" /\ job'[j].pc = "done" /\ job'[j].res = "ok"
  /\ job[j].op \in {"connect", "save", "change"} /\ ~idbFailed' /\ ~torn
\* Its token is where its mode says.
Left(j) ==
  /\ job[j].mode = "couchdb" => acct'.auth = job[j].tok /\ idb' = None
  /\ job[j].mode = "indexeddb" => idb' = job[j].tok /\ acct'.auth = None
  /\ job[j].mode # "none" => cache'[JobTab[j]] = job[j].tok

LEMMA NotDone ==
  ASSUME AccountInv, NEW j \in Jobs, NEW q \in JobType, job' = [job EXCEPT ![j] = q], q.pc # "done" \/ q.res # "ok"
  PROVE  ~SaysKept(j)
BY AccountTypes DEF SaysKept

LEMMA FailedIsNotDone ==
  ASSUME AccountInv, NEW j \in Jobs, job[j].pc \in Steps, NEW res \in {"failed", "token_required"},
         job' = [job EXCEPT ![j] = Finish(job[j], res)]
  PROVE  ~SaysKept(j)
BY RunningIs, FinishIs, NotDone

LEMMA ForgetIsNotDone ==
  ASSUME AccountInv, NEW j \in Jobs, NEW r \in JobType, Forget(j, r) PROVE ~SaysKept(j)
BY ForgetIs, NotDone

LEMMA ReadLeft == ASSUME AccountInv, NEW j \in Jobs, Read(j), SaysKept(j) PROVE Left(j)
<1> DEFINE r == job[j]
           new == [r EXCEPT !.held = acct]
<1>1. r.pc = "read" /\ r.pc \in Steps
  BY DEF Read, Steps
<1>2. r \in JobType /\ Fine(r, JobTab[j]) /\ acct \in Account /\ r.op \in {"connect", "save", "change"}
  BY <1>1, RunningIs DEF SaysKept
<1>3. CASE r.op = "save"
  BY <1>1, <1>2, <1>3 DEF Fine, Left
<1>4. CASE r.op = "change"
  <2>1. CASE ~acct.there
    <3>1. job' = [job EXCEPT ![j] = Finish(r, "failed")]
      BY <1>4, <2>1 DEF Read, Become
    <3> QED
      BY <1>1, <3>1, FailedIsNotDone
  <2>2. CASE acct.there
    <3> DEFINE b == Stripped(acct, r.mode)
               s == [new EXCEPT !.body = b]
    <3>1. b \in Account
      BY <1>2, <2>2 DEF Stripped, Account, JobType
    <3>2. Carry(j, s)
      BY <1>4, <2>2 DEF Read
    <3> HIDE DEF b
    <3>3. s \in JobType
      BY <1>2, <3>1 DEF JobType
    <3> HIDE DEF s
    <3>4. CASE s.mode = "none"
      <4> DEFINE s0 == [s EXCEPT !.tok = None]
      <4>1. s0 \in JobType
        BY <3>3 DEF JobType
      <4>2. Forget(j, s0)
        BY <3>2, <3>4 DEF Carry
      <4> HIDE DEF s0
      <4> QED
        BY <4>1, <4>2, ForgetIsNotDone
    <3>5. CASE s.mode # "none" /\ s.tok # None
      <4>1. Forget(j, s)
        BY <3>2, <3>5 DEF Carry
      <4> QED
        BY <3>3, <4>1, ForgetIsNotDone
    <3>6. CASE s.mode # "none" /\ s.tok = None
      <4>1. job' = [job EXCEPT ![j] = At(s, "find")]
        BY <3>2, <3>6 DEF Carry, Become
      <4>2. PICK q \in JobType : q = At(s, "find") /\ q.pc = "find"
        BY <3>3, AtIs DEF Steps
      <4> QED
        BY <4>1, <4>2, NotDone
    <3> QED
      BY <3>4, <3>5, <3>6
  <2> QED
    BY <2>1, <2>2
<1> QED
  BY <1>1, <1>2, <1>3, <1>4 DEF Fine

\* Looking for a token keeps none.
LEMMA WithLeft ==
  ASSUME AccountInv, NEW j \in Jobs, job[j].pc \in Steps, NEW tok \in Tokens \union {None}, With(j, job[j], tok),
         job[j].op # "use"
  PROVE  ~SaysKept(j)
<1> DEFINE r == job[j]
<1>1. r \in JobType
  BY RunningIs
<1>2. CASE tok = None
  <2>1. job' = [job EXCEPT ![j] = Finish(r, "token_required")]
    BY <1>2 DEF With, Become
  <2> QED
    BY <2>1, FailedIsNotDone
<1>3. CASE tok # None
  <2> DEFINE s == [r EXCEPT !.tok = tok]
  <2>1. Forget(j, s)
    BY <1>3 DEF With
  <2>2. s \in JobType
    BY <1>1 DEF JobType
  <2> HIDE DEF s
  <2> QED
    BY <2>1, <2>2, ForgetIsNotDone
<1> QED
  BY <1>2, <1>3

LEMMA SearchLeft == ASSUME AccountInv, NEW j \in Jobs, Find(j) \/ Found(j), job[j].op # "use" PROVE ~SaysKept(j)
<1> DEFINE r == job[j]
           cached == cache[JobTab[j]]
           stored == IF r.held.mode = "couchdb" THEN acct.auth ELSE idb
<1>1. r.pc \in {"find", "found"} /\ r.pc \in Steps
  BY DEF Find, Found, Steps
<1>2. r \in JobType /\ acct \in Account
  BY <1>1, RunningIs
<1>3. cached \in Tokens \union {None} /\ stored \in Tokens \union {None} /\ r.goal \in Tokens \union {None}
  BY <1>2, AccountTypes DEF Account, JobType
<1>4. \/ With(j, r, cached) \/ With(j, r, r.goal)
      \/ job' = [job EXCEPT ![j] = At([r EXCEPT !.goal = stored], "found")]
  BY DEF Find, Found, Become
<1> HIDE DEF cached, stored
<1>5. CASE job' = [job EXCEPT ![j] = At([r EXCEPT !.goal = stored], "found")]
  <2> DEFINE s == [r EXCEPT !.goal = stored]
  <2>1. s \in JobType
    BY <1>2, <1>3 DEF JobType
  <2>2. job' = [job EXCEPT ![j] = At(s, "found")]
    BY <1>5
  <2> HIDE DEF s
  <2>3. PICK q \in JobType : q = At(s, "found") /\ q.pc = "found"
    BY <2>1, AtIs DEF Steps
  <2> QED
    BY <2>2, <2>3, NotDone
<1> QED
  BY <1>1, <1>3, <1>4, <1>5, WithLeft

LEMMA IdbLeft == ASSUME AccountInv, NEW j \in Jobs, IdbPut(j), SaysKept(j) PROVE Left(j)
<1> DEFINE r == job[j]
<1>1. r.pc = "idbPut" /\ r.pc \in Steps /\ UNCHANGED <<acct, cache>> /\ (idb' = r.tok \/ idbFailed' = TRUE)
  BY DEF IdbPut, Idb, Steps
<1>2. r.mode = "indexeddb" /\ acct.mode = "indexeddb" /\ cache[JobTab[j]] = r.tok
  BY <1>1, RunningIs DEF Fine
<1>3. acct.auth = None
  BY <1>2, AccountTypes
<1> QED
  BY <1>1, <1>2, <1>3 DEF Left, SaysKept

LEMMA TokenLeft == ASSUME AccountInv, NEW j \in Jobs, TokenRead(j), SaysKept(j) PROVE Left(j)
<1> DEFINE r == job[j]
           h == [acct EXCEPT !.auth = r.goal]
           s == [r EXCEPT !.held = h]
<1>1. r.pc = "tokRead" /\ r.pc \in Steps
      /\ job' = [job EXCEPT ![j] = IF acct.there THEN At(s, "tokRev") ELSE AfterToken(r)]
  BY DEF TokenRead, Become, Steps
<1>2. r \in JobType /\ Fine(r, JobTab[j]) /\ acct \in Account /\ r.op \in {"connect", "save", "change"}
  BY <1>1, RunningIs DEF SaysKept
<1>3. h \in Account
  BY <1>2 DEF Account, JobType
<1> HIDE DEF h
<1>4. s \in JobType
  BY <1>2, <1>3 DEF JobType
<1> HIDE DEF s
<1>5. CASE acct.there
  <2>1. PICK q \in JobType : q = At(s, "tokRev") /\ q.pc = "tokRev"
    BY <1>4, AtIs DEF Steps
  <2> QED
    BY <1>1, <1>5, <2>1, NotDone
<1>6. CASE ~acct.there
  <2>1. acct.mode = "none"
    BY <1>6, AccountTypes DEF NoAccount
  <2>2. r.op = "change" /\ r.goal = None
    BY <1>1, <1>2, <2>1 DEF Fine, Porting
  <2>3. PICK q \in JobType : q = AfterToken(r) /\ q.pc = "docRev"
    BY <1>2, <2>2, AfterTokenIs
  <2> QED
    BY <1>1, <1>6, <2>3, NotDone
<1> QED
  BY <1>5, <1>6

LEMMA RevIsNotDone == ASSUME AccountInv, NEW j \in Jobs, Rev(j) PROVE ~SaysKept(j)
<1> DEFINE r == job[j]
           s == [r EXCEPT !.rev = rev]
           pc == IF r.pc = "tokRev" THEN "tokPut" ELSE "docPut"
<1>1. r.pc \in Steps /\ job' = [job EXCEPT ![j] = At(s, pc)]
  BY DEF Rev, Become, Steps
<1>2. r \in JobType
  BY <1>1, RunningIs
<1>3. s \in JobType
  BY <1>2, AccountTypes DEF JobType
<1> HIDE DEF s
<1>4. PICK q \in JobType : q = At(s, pc) /\ q.pc = pc
  BY <1>3, AtIs DEF Steps
<1> QED
  BY <1>1, <1>4, NotDone

LEMMA ClearIsNotDone == ASSUME AccountInv, NEW j \in Jobs, IdbClear(j) PROVE ~SaysKept(j)
<1>1. job[j].pc \in Steps /\ job' = [job EXCEPT ![j] = At(job[j], "tokRead")]
  BY DEF IdbClear, Idb, Become, Steps
<1>2. PICK q \in JobType : q = At(job[j], "tokRead") /\ q.pc = "tokRead"
  BY <1>1, RunningIs, AtIs DEF Steps
<1> QED
  BY <1>1, <1>2, NotDone

LEMMA PutTokenLeft == ASSUME AccountInv, NEW j \in Jobs, PutToken(j), SaysKept(j) PROVE Left(j)
<1> DEFINE r == job[j]
<1>1. r.pc = "tokPut" /\ r.pc \in Steps /\ Put(j, r.held) /\ UNCHANGED <<idb, idbFailed>>
  BY DEF PutToken, Marks, Steps
<1>2. r \in JobType /\ Fine(r, JobTab[j]) /\ r.op \in {"connect", "save", "change"}
  BY <1>1, RunningIs DEF SaysKept
<1>3. CASE r.rev # rev
  <2>1. job' = [job EXCEPT ![j] = Finish(r, "failed")]
    BY <1>1, <1>3 DEF Put, Become
  <2> QED
    BY <1>1, <2>1, FailedIsNotDone
<1>4. CASE r.rev = rev
  <2>1. acct' = r.held /\ job' = [job EXCEPT ![j] = AfterToken(r)] /\ cache' = cache
    BY <1>1, <1>4 DEF Put, Become
  <2>2. PICK q \in JobType : q = AfterToken(r)
    BY <1>2, AfterTokenIs
  <2>3. CASE r.goal = None
    <3>1. r.op = "change"
      BY <1>1, <1>2, <2>3 DEF Fine, Porting
    <3>2. q.pc = "docRev"
      BY <1>2, <2>2, <2>3, <3>1, AfterTokenIs
    <3> QED
      BY <2>1, <2>2, <3>2, NotDone
  <2>4. CASE r.goal # None
    <3>1. r.mode = "couchdb" /\ r.goal = r.tok /\ cache[JobTab[j]] = r.tok /\ Clean /\ r.held.auth = r.goal
      BY <1>1, <1>2, <2>4 DEF Fine, Porting
    <3>2. idb' = None
      BY <1>1, <3>1 DEF Clean, SaysKept
    <3> QED
      BY <2>1, <3>1, <3>2 DEF Left
  <2> QED
    BY <2>3, <2>4
<1> QED
  BY <1>3, <1>4

LEMMA PutDocumentLeft == ASSUME AccountInv, NEW j \in Jobs, PutDocument(j), SaysKept(j) PROVE Left(j)
<1> DEFINE r == job[j]
<1>1. r.pc = "docPut" /\ r.pc \in Steps /\ Put(j, r.body) /\ UNCHANGED <<idb, idbFailed>>
  BY DEF PutDocument, Marks, Steps
<1>2. r \in JobType /\ Fine(r, JobTab[j]) /\ r.op \in {"connect", "change"}
  BY <1>1, RunningIs DEF SaysKept, Fine, Writing
<1>3. CASE r.rev # rev
  <2>1. job' = [job EXCEPT ![j] = Finish(r, "failed")]
    BY <1>1, <1>3 DEF Put, Become
  <2> QED
    BY <1>1, <2>1, FailedIsNotDone
<1>4. CASE r.rev = rev
  <2>1. acct' = r.body /\ Clean /\ r.tok \in Tokens \union {None} /\ (r.op = "change" /\ r.mode # "none" => r.tok # None)
        /\ (r.op = "connect" => r.tok # None /\ r.body.auth = (IF r.mode = "couchdb" THEN r.tok ELSE None))
    BY <1>1, <1>2, <1>4 DEF Put, Fine, Writing, Parting, Moving, JobType
  <2>2. CASE r.op = "connect" /\ r.mode = "couchdb"
    <3>1. cache' = [cache EXCEPT ![JobTab[j]] = r.tok]
      BY <1>1, <1>4, <2>1, <2>2 DEF Put
    <3>2. cache'[JobTab[j]] = r.tok /\ acct'.auth = r.tok
      BY <2>1, <2>2, <3>1, AccountTypes
    <3>3. idb' = None
      BY <1>1, <2>1 DEF Clean, SaysKept
    <3> QED
      BY <2>2, <3>2, <3>3 DEF Left
  <2>3. CASE r.tok = None
    BY <1>2, <2>1, <2>3 DEF Left
  <2>4. CASE ~(r.op = "connect" /\ r.mode = "couchdb") /\ r.tok # None
    <3>1. Keep(j, r)
      BY <1>1, <1>2, <1>4, <2>4 DEF Put
    <3>2. r.mode # "none" => ~SaysKept(j)
      BY <1>2, <3>1, KeepIs, NotDone
    <3> QED
      BY <3>2 DEF Left
  <2> QED
    BY <2>2, <2>3, <2>4
<1> QED
  BY <1>3, <1>4

LEMMA DeleteIsNotDone == ASSUME AccountInv, NEW j \in Jobs, Delete(j) PROVE ~SaysKept(j)
<1>1. job[j].pc = "del" /\ job[j].pc \in Steps
  BY DEF Delete, Steps
<1> QED
  BY <1>1, RunningIs DEF Fine, SaysKept

LEMMA FailLeft == ASSUME AccountInv, NEW j \in Jobs, Fail(j), SaysKept(j) PROVE Left(j)
<1> DEFINE r == job[j]
<1>1. r.pc \in Steps /\ r.op # "delete"
      /\ ((r.op = "save" /\ r.pc = "read") \/ job' = [job EXCEPT ![j] = Finish(r, "failed")])
  BY DEF Fail, Become, SaysKept
<1>2. CASE r.op = "save" /\ r.pc = "read"
  BY <1>1, <1>2, RunningIs DEF Fine, Left
<1>3. CASE job' = [job EXCEPT ![j] = Finish(r, "failed")]
  BY <1>1, <1>3, FailedIsNotDone
<1> QED
  BY <1>1, <1>2, <1>3

LEMMA LostIsNotDone == ASSUME AccountInv, NEW j \in Jobs, LoseAnswer(j) PROVE ~SaysKept(j)
<1>1. job[j].pc \in Steps /\ (job[j].pc = "del" \/ job' = [job EXCEPT ![j] = Finish(job[j], "failed")])
  BY DEF LoseAnswer, Become, Steps
<1>2. CASE job[j].pc = "del"
  BY <1>1, <1>2, RunningIs DEF Fine, SaysKept
<1> QED
  BY <1>1, <1>2, FailedIsNotDone

LEMMA WorkLeft == ASSUME AccountInv, NEW j \in Jobs, Work(j) \/ Fail(j) \/ LoseAnswer(j), SaysKept(j) PROVE Left(j)
<1>1. job[j].op # "use"
  BY DEF SaysKept
<1> QED
  BY <1>1, ReadLeft, SearchLeft, IdbLeft, TokenLeft, RevIsNotDone, ClearIsNotDone, PutTokenLeft, PutDocumentLeft,
     DeleteIsNotDone, FailLeft, LostIsNotDone DEF Work

\* A step of one job leaves the others where they are.
LEMMA OthersStay ==
  ASSUME AccountInv, NEW j \in Jobs, Work(j) \/ Fail(j) \/ LoseAnswer(j), NEW i \in Jobs \ {j}
  PROVE  ~SaysKept(i)
<1>1. \E q : job' = [job EXCEPT ![j] = q]
  <2>1. CASE Read(j)
    <3>1. \A r \in JobType : Keep(j, r) => \E q : job' = [job EXCEPT ![j] = q]
      BY DEF Keep, Become
    <3>2. \A r : Forget(j, r) => \E q : job' = [job EXCEPT ![j] = q]
      BY DEF Forget, Become
    <3>3. \A r : Carry(j, r) => \E q : job' = [job EXCEPT ![j] = q]
      BY <3>2 DEF Carry, Become
    <3>4. job[j] \in JobType /\ job[j].op \in {"rename", "change", "delete", "save", "use"} /\ acct \in Account
      <4>1. job[j].pc = "read" /\ job[j].pc \in Steps
        BY <2>1 DEF Read, Steps
      <4> QED
        BY <4>1, RunningIs DEF Fine
    <3>5. CASE job[j].op = "save"
      <4> DEFINE m == IF acct.there THEN acct.mode ELSE "none"
                 s == [job[j] EXCEPT !.mode = m]
      <4>1. Keep(j, s)
        BY <2>1, <3>5 DEF Read
      <4>2. m \in Modes
        BY <3>4 DEF Account, Modes
      <4> HIDE DEF m
      <4>3. s \in JobType
        BY <3>4, <4>2 DEF JobType
      <4> HIDE DEF s
      <4> QED
        BY <3>1, <4>1, <4>3
    <3>6. CASE job[j].op = "delete"
      BY <2>1, <3>2, <3>6 DEF Read, Become
    <3>7. CASE job[j].op = "change"
      BY <2>1, <3>3, <3>7 DEF Read, Become
    <3>8. CASE job[j].op \in {"rename", "use"}
      BY <2>1, <3>8 DEF Read, Become
    <3> QED
      BY <3>4, <3>5, <3>6, <3>7, <3>8
  <2>2. CASE Find(j) \/ Found(j)
    BY <2>2 DEF Find, Found, With, Forget, Become
  <2>3. CASE IdbClear(j) \/ IdbPut(j) \/ TokenRead(j) \/ Rev(j)
    BY <2>3 DEF IdbClear, IdbPut, Idb, TokenRead, Rev, Become
  <2>4. CASE PutToken(j) \/ PutDocument(j)
    BY <2>4 DEF PutToken, PutDocument, Put, Keep, Become
  <2>5. CASE Delete(j) \/ Fail(j) \/ LoseAnswer(j)
    BY <2>5 DEF Delete, Fail, LoseAnswer, Forget, Become
  <2> QED
    BY <2>1, <2>2, <2>3, <2>4, <2>5 DEF Work
<1> QED
  BY <1>1, AccountTypes DEF SaysKept

LEMMA EveryEndIsTrue == ASSUME AccountInv, [AccountNext]_accountVars, NEW i \in Jobs, SaysKept(i) PROVE Left(i)
<1>1. ASSUME NEW j \in Jobs, Work(j) \/ Fail(j) \/ LoseAnswer(j) PROVE Left(i)
  BY <1>1, WorkLeft, OthersStay
<1>2. ASSUME NEW j \in Jobs, NEW op \in {"connect", "rename", "change", "delete", "save", "use"},
             NEW mode \in Modes, NEW tok \in Tokens \union {None}, Start(j, op, mode, tok)
      PROVE  Left(i)
  <2>1. PICK q \in JobType : job' = [job EXCEPT ![j] = q] /\ q.pc \in {"read", "docRev"}
    BY <1>2, StartIs
  <2>2. job'[j] = q /\ (i # j => job'[i] = job[i])
    BY <2>1, AccountTypes
  <2> QED
    BY <2>1, <2>2 DEF SaysKept
<1>3. ASSUME NEW t \in Tabs, CloseTab(t) PROVE Left(i)
  <2> DEFINE Cut == [Resting EXCEPT !.pc = "done", !.res = "cut"]
  <2>1. job'[i] = Cut \/ job'[i] = job[i]
    BY <1>3 DEF CloseTab
  <2>2. Cut.res # "ok"
    BY DEF Resting
  <2> QED
    BY <2>1, <2>2 DEF SaysKept
<1>4. ASSUME UNCHANGED accountVars PROVE Left(i)
  BY <1>4 DEF accountVars, SaysKept
<1> QED
  BY <1>1, <1>2, <1>3, <1>4 DEF AccountNext

(* A job that says a token is kept has left it exactly where the mode says: in the   *)
(* account document and not in IndexedDB, or in IndexedDB and not in the document,   *)
(* and in the session cache of its tab.                                              *)
THEOREM TokensAreKept == ASSUME Parallel = 1 PROVE AccountSpec => KeptWhereSaid
<1>1. AccountInv /\ [AccountNext]_accountVars =>
        [\A j \in Jobs :
           LET r == job[j] IN
           (r.pc # "done" /\ job'[j].pc = "done" /\ job'[j].res = "ok"
              /\ r.op \in {"connect", "save", "change"} /\ ~idbFailed' /\ ~torn)
           => /\ (r.mode = "couchdb" => acct'.auth = r.tok /\ idb' = None)
              /\ (r.mode = "indexeddb" => idb' = r.tok /\ acct'.auth = None)
              /\ (r.mode # "none" => cache'[JobTab[j]] = r.tok)]_accountVars
  BY EveryEndIsTrue DEF SaysKept, Left
<1> QED
  BY <1>1, AccountAlways, PTL DEF AccountSpec, KeptWhereSaid

----------------------------------------------------------------------------
(* Status dots and view runs, each with its module's own constants. *)

CONSTANTS Dots, Slots
VARIABLES po_up, po_hidden, po_listeners, po_shown, po_last, po_timer, po_versioned, po_checks

Polling == INSTANCE Poller WITH
  up <- po_up, hidden <- po_hidden, listeners <- po_listeners, shown <- po_shown, last <- po_last,
  timer <- po_timer, versioned <- po_versioned, checks <- po_checks

\* Without subscribers there is no status, and no check that could publish one.
Abandoned ==
  po_listeners = {} => po_last = "unknown" /\ \A s \in Slots : po_checks[s] \in {Polling!Free, "dropped"}
PollInv ==
  /\ Polling!TypeOK /\ Polling!DotsAgree /\ Polling!PolledWhileWatched
  /\ po_timer # "dead" /\ Abandoned

LEMMA PollStep == ASSUME PollInv, [Polling!Next]_Polling!vars PROVE PollInv'
<1> USE DEF PollInv, Abandoned, Polling!TypeOK, Polling!DotsAgree, Polling!PolledWhileWatched, Polling!Free, Polling!Phases,
            Polling!Statuses
<1>1. CASE Polling!Tick
  BY <1>1 DEF Polling!Tick, Polling!Check
<1>2. CASE Polling!Hide
  BY <1>2 DEF Polling!Hide, Polling!StopTimer
<1>3. CASE Polling!Show
  BY <1>3 DEF Polling!Show, Polling!Check, Polling!StartTimer
<1>4. CASE Polling!Turn
  <2>1. po_up' \in BOOLEAN
    BY <1>4, Zenon DEF Polling!Turn
  <2> QED
    BY <1>4, <2>1 DEF Polling!Turn
<1>5. ASSUME NEW s \in Slots, Polling!Answer(s) PROVE PollInv'
  <2>1. CASE Polling!AnswerUp(s)
    BY <2>1 DEF Polling!AnswerUp
  <2>2. CASE Polling!AnswerWelcome(s)
    <3>1. po_versioned' \in BOOLEAN
      BY <2>2, Zenon DEF Polling!AnswerWelcome
    <3> QED
      BY <2>2, <3>1 DEF Polling!AnswerWelcome
  <2>3. CASE Polling!Publish(s)
    BY <2>3 DEF Polling!Publish
  <2>4. CASE Polling!Dropped(s)
    BY <2>4 DEF Polling!Dropped
  <2> QED
    BY <1>5, <2>1, <2>2, <2>3, <2>4 DEF Polling!Answer
<1>6. ASSUME NEW d \in Dots, Polling!MountFirst(d) PROVE PollInv'
  BY <1>6 DEF Polling!MountFirst, Polling!Check, Polling!StartTimer
<1>7. ASSUME NEW d \in Dots, Polling!MountLater(d) PROVE PollInv'
  BY <1>7 DEF Polling!MountLater, Polling!Replay
<1>8. ASSUME NEW d \in Dots, Polling!Unmount(d) PROVE PollInv'
  BY <1>8 DEF Polling!Unmount, Polling!StopTimer
<1>9. CASE UNCHANGED Polling!vars
  BY <1>9 DEF Polling!vars
<1> QED
  BY <1>1, <1>2, <1>3, <1>4, <1>5, <1>6, <1>7, <1>8, <1>9 DEF Polling!Next

(* Reachability, for any number of dots and overlapping checks: the dots of one      *)
(* server agree, and a page somebody looks at is polled.                             *)
THEOREM DotsTellOneStory == Polling!Spec => [](Polling!TypeOK /\ Polling!DotsAgree /\ Polling!PolledWhileWatched)
<1>1. Polling!Init => PollInv
  BY DEF Polling!Init, PollInv, Abandoned, Polling!TypeOK, Polling!DotsAgree, Polling!PolledWhileWatched, Polling!Free,
         Polling!Phases, Polling!Statuses
<1>2. PollInv => Polling!TypeOK /\ Polling!DotsAgree /\ Polling!PolledWhileWatched
  BY DEF PollInv
<1> QED
  BY <1>1, <1>2, PollStep, PTL DEF Polling!Spec

CONSTANTS Keys, Values, Text, MaxDocs, MaxEmits, FALLBACK_MAX_DOCS
VARIABLES vr_docs, vr_reduce, vr_worker, vr_timer, vr_pc, vr_answers, vr_result

Viewing == INSTANCE ViewRunner WITH
  docs <- vr_docs, reduce <- vr_reduce, worker <- vr_worker, timer <- vr_timer, pc <- vr_pc,
  answers <- vr_answers, result <- vr_result

\* Nothing is set up before a run starts.
RunInv ==
  /\ vr_pc \in {"idle", "waiting", "settled"} /\ Viewing!AnsweredOnce
  /\ vr_pc = "idle" => vr_worker = "none" /\ vr_timer = "off"

LEMMA RunStep == ASSUME RunInv, [Viewing!Next]_Viewing!vars PROVE RunInv'
<1> USE DEF RunInv, Viewing!AnsweredOnce
<1>1. CASE Viewing!RunInPage \/ Viewing!NoStart
  <2>1. vr_pc = "idle" /\ vr_pc' = "settled" /\ vr_answers' = vr_answers + 1 /\ UNCHANGED <<vr_worker, vr_timer>>
    BY <1>1 DEF Viewing!RunInPage, Viewing!NoStart
  <2>2. vr_answers' = 1
    BY <2>1
  <2> QED
    BY <2>1, <2>2
<1>2. CASE Viewing!Start \/ Viewing!Compute
  BY <1>2 DEF Viewing!Start, Viewing!Compute
<1>3. ASSUME NEW res, Viewing!Finish(res) PROVE RunInv'
  BY <1>3 DEF Viewing!Finish, Viewing!Fresh
<1>4. CASE Viewing!OnMessage \/ Viewing!OnError \/ Viewing!OnTimeout
  BY <1>3, <1>4 DEF Viewing!OnMessage, Viewing!OnError, Viewing!OnTimeout
<1>5. CASE Viewing!Done \/ UNCHANGED Viewing!vars
  BY <1>5 DEF Viewing!Done, Viewing!vars
<1> QED
  BY <1>1, <1>2, <1>4, <1>5 DEF Viewing!Next

(* A view run is answered once, whichever of the worker's message, its error and the *)
(* timeout comes first, and leaves neither timer nor worker behind.                  *)
THEOREM RunsAnswerOnce == Viewing!Spec => []Viewing!AnsweredOnce
<1>1. Viewing!Init => RunInv
  BY DEF Viewing!Init, RunInv, Viewing!AnsweredOnce
<1>2. RunInv => Viewing!AnsweredOnce
  BY DEF RunInv
<1> QED
  BY <1>1, <1>2, RunStep, PTL DEF Viewing!Spec

=============================================================================
