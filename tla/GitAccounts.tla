------------------------------ MODULE GitAccounts ------------------------------
(* One git account and the copies of its token: the account document             *)
(* (DesignMgmtService, accounts part), the session cache of each tab and the     *)
(* browser's IndexedDB (GitCredentialStore), and the CouchTokenIo port between   *)
(* them.  Every document read and write, and every IndexedDB request, is a step; *)
(* each may fail, and a tab may be closed between two of them.                   *)
EXTENDS FiniteSets, Naturals

CONSTANTS
  Tabs, Jobs,
  JobTab,       \* the tab each job runs in
  Tokens, Labels,
  None,         \* no token
  Parallel,     \* bound: jobs that run at the same time
  MaxTrouble    \* bound: failed requests and closed tabs

ASSUME AccountAssumption ==
  /\ JobTab \in [Jobs -> Tabs] /\ None \notin Tokens
  /\ Parallel \in Nat /\ MaxTrouble \in Nat

VARIABLES
  acct,         \* the account document
  rev,          \* its revision
  cache,        \* per tab: the session cache
  idb,          \* the IndexedDB copy
  job,
  trouble,
  idbFailed,    \* an IndexedDB write failed, which nothing reports
  torn          \* a tab was closed in the middle of a deletion

accountVars == <<acct, rev, cache, idb, job, trouble, idbFailed, torn>>

Modes == {"none", "indexeddb", "couchdb"}
NoAccount == [there |-> FALSE, mode |-> "none", auth |-> None, label |-> "none"]
Account == [there : BOOLEAN, mode : Modes, auth : Tokens \union {None},
            label : Labels \union {"none"}]
Resting == [op |-> "none", pc |-> "idle", mode |-> "none", tok |-> None, body |-> NoAccount,
            held |-> NoAccount, rev |-> 0, goal |-> None, res |-> "none"]

Steps == {"read", "find", "found", "del", "idbClear", "idbPut", "tokRead", "tokRev", "tokPut",
          "docRev", "docPut"}
JobType == [op : {"none", "connect", "rename", "change", "delete", "save", "use"},
            pc : Steps \union {"idle", "done"}, mode : Modes, tok : Tokens \union {None},
            body : Account, held : Account, rev : Nat, goal : Tokens \union {None},
            res : {"none", "ok", "failed", "token_required", "cut"}]
Running == {j \in Jobs : job[j].pc \in Steps}

AccountTypeOK ==
  /\ acct \in Account /\ rev \in Nat /\ (~acct.there => acct = NoAccount)
  /\ cache \in [Tabs -> Tokens \union {None}] /\ idb \in Tokens \union {None}
  /\ job \in [Jobs -> JobType] /\ trouble \in 0..MaxTrouble
  /\ idbFailed \in BOOLEAN /\ torn \in BOOLEAN

AccountInit ==
  /\ acct = NoAccount /\ rev = 0 /\ idb = None
  /\ cache = [t \in Tabs |-> None] /\ job = [j \in Jobs |-> Resting]
  /\ trouble = 0 /\ idbFailed = FALSE /\ torn = FALSE

-------------------------------------------------------------------------------
Become(j, r) == job' = [job EXCEPT ![j] = r]
Finish(r, res) == [Resting EXCEPT !.pc = "done", !.res = IF r.res = "failed" THEN "failed" ELSE res]
At(r, pc) == [r EXCEPT !.pc = pc]
Stored == <<acct, rev, idb>>
Marks == <<trouble, idbFailed, torn>>

Keep_Remember(j, r) ==
  cache' = [cache EXCEPT ![JobTab[j]] = r.tok] /\ Become(j, Finish(r, "ok"))
(* GitCredentialStore.put: the session cache at once, then the mode's own store. *)
Keep(j, r) ==
  /\ cache' = [cache EXCEPT ![JobTab[j]] = r.tok]
  /\ Become(j, CASE r.mode = "couchdb" -> At([r EXCEPT !.goal = r.tok], "tokRead")
                 [] r.mode = "indexeddb" -> At(r, "idbPut")
                 [] r.mode = "none" -> Finish(r, "ok"))

(* GitCredentialStore.forget starts with the session cache. *)
Forget(j, r) ==
  /\ cache' = [cache EXCEPT ![JobTab[j]] = None]
  /\ Become(j, At([r EXCEPT !.goal = None], "idbClear"))

Start(j, op, mode, tok) ==
  /\ job[j] = Resting /\ Cardinality(Running) < Parallel
  /\ op = "connect" => rev = 0
  /\ op \in {"connect", "save"} => tok # None
  /\ op \in {"rename", "delete", "use"} => tok = None
  /\ op \in {"rename", "delete", "use", "save"} => mode = "none"
  /\ \E label \in Labels :
       LET r == [Resting EXCEPT !.op = op, !.mode = mode, !.tok = tok] IN
       IF op = "connect"
       THEN Become(j, At([r EXCEPT !.body = [there |-> TRUE, mode |-> mode, label |-> label,
                            auth |-> IF mode = "couchdb" THEN tok ELSE None]], "docRev"))
       ELSE Become(j, At([r EXCEPT !.body.label = label], "read"))
  /\ UNCHANGED <<Stored, cache, Marks>>

(* changeCredentialMode writes the document back without its token. *)
Stripped(a, mode) == [a EXCEPT !.auth = None, !.mode = mode]

(* changeCredentialMode: the token to carry is the one typed, or else the one found. *)
Carry(j, r) ==
  IF r.mode = "none" THEN Forget(j, [r EXCEPT !.tok = None])
  ELSE IF r.tok # None THEN Forget(j, r)
  ELSE Become(j, At(r, "find")) /\ UNCHANGED cache

Read(j) ==
  LET r == job[j]
      label == r.body.label
      new == [r EXCEPT !.held = acct] IN
  /\ r.pc = "read"
  /\ CASE r.op = "save" ->
            Keep(j, [r EXCEPT !.mode = IF acct.there THEN acct.mode ELSE "none"])
       [] r.op = "delete" ->
            IF acct.there THEN Become(j, At([r EXCEPT !.rev = rev], "del")) /\ UNCHANGED cache
            ELSE Forget(j, r)
       [] r.op = "rename" ->
            /\ Become(j, IF acct.there THEN At([r EXCEPT !.body = [acct EXCEPT !.label = label]], "docRev")
                         ELSE Finish(r, "failed"))
            /\ UNCHANGED cache
       [] r.op = "use" ->
            /\ Become(j, IF acct.there THEN At(new, "find") ELSE Finish(r, "failed"))
            /\ UNCHANGED cache
       [] r.op = "change" ->
            IF acct.there
            THEN Carry(j, [new EXCEPT !.body = Stripped(acct, r.mode)])
            ELSE Become(j, Finish(r, "failed")) /\ UNCHANGED cache
  /\ UNCHANGED <<Stored, Marks>>

(* GitCredentialStore.get: the session cache first, then the store of the mode. *)
With(j, r, tok) ==
  IF r.op = "use" THEN Become(j, Finish(r, "ok")) /\ UNCHANGED cache
  ELSE IF tok = None THEN Become(j, Finish(r, "token_required")) /\ UNCHANGED cache
  ELSE Forget(j, [r EXCEPT !.tok = tok])

Find(j) ==
  LET r == job[j]
      cached == cache[JobTab[j]]
      stored == IF r.held.mode = "couchdb" THEN acct.auth ELSE idb IN
  /\ r.pc = "find"
  /\ IF cached # None \/ r.held.mode = "none" THEN With(j, r, cached)
     ELSE Become(j, At([r EXCEPT !.goal = stored], "found")) /\ UNCHANGED cache
  /\ UNCHANGED <<Stored, Marks>>

(* A stored token goes to the session cache when it arrives; a job that moves it     *)
(* forgets it there again.                                                           *)
Found(j) ==
  LET r == job[j] IN
  /\ r.pc = "found"
  /\ IF r.op = "use" /\ r.goal # None
     THEN /\ cache' = [cache EXCEPT ![JobTab[j]] = r.goal]
          /\ Become(j, Finish(r, "ok"))
     ELSE With(j, r, r.goal)
  /\ UNCHANGED <<Stored, Marks>>

-------------------------------------------------------------------------------
(* IndexedDB: a write that fails is not reported.                                *)

Idb(j, value, next) ==
  \/ idb' = value /\ Become(j, next) /\ UNCHANGED <<trouble, idbFailed>>
  \/ /\ trouble < MaxTrouble /\ trouble' = trouble + 1
     /\ idbFailed' = TRUE /\ Become(j, next) /\ UNCHANGED idb

IdbClear(j) ==
  /\ job[j].pc = "idbClear" /\ Idb(j, None, At(job[j], "tokRead"))
  /\ UNCHANGED <<acct, rev, cache, torn>>
IdbPut(j) ==
  /\ job[j].pc = "idbPut" /\ Idb(j, job[j].tok, Finish(job[j], "ok"))
  /\ UNCHANGED <<acct, rev, cache, torn>>

-------------------------------------------------------------------------------
(* CouchTokenIo.writeToken: reads the account, strips or replaces auth, and puts   *)
(* the whole document; when the account is gone there is nothing to do.            *)

AfterToken(r) ==
  IF r.op = "change" /\ r.goal = None THEN At(r, "docRev") ELSE Finish(r, "ok")

TokenRead(j) ==
  /\ job[j].pc = "tokRead"
  /\ Become(j, IF acct.there
               THEN At([job[j] EXCEPT !.held = [acct EXCEPT !.auth = job[j].goal]], "tokRev")
               ELSE AfterToken(job[j]))
  /\ UNCHANGED <<Stored, cache, Marks>>

(* CouchCompanionStore.put: the revision, then the write on that revision.         *)
Rev(j) ==
  /\ job[j].pc \in {"tokRev", "docRev"}
  /\ Become(j, At([job[j] EXCEPT !.rev = rev],
                  IF job[j].pc = "tokRev" THEN "tokPut" ELSE "docPut"))
  /\ UNCHANGED <<Stored, cache, Marks>>

Put(j, body) ==
  IF job[j].rev # rev THEN Become(j, Finish(job[j], "failed")) /\ UNCHANGED <<acct, rev, cache>>
  ELSE /\ acct' = body /\ rev' = rev + 1
       /\ IF job[j].pc = "tokPut" THEN Become(j, AfterToken(job[j])) /\ UNCHANGED cache
          ELSE CASE job[j].op = "rename" -> Become(j, Finish(job[j], "ok")) /\ UNCHANGED cache
                 [] job[j].op = "connect" /\ job[j].mode = "couchdb" ->
                      /\ cache' = [cache EXCEPT ![JobTab[j]] = job[j].tok]
                      /\ Become(j, Finish(job[j], "ok"))
                 [] job[j].tok = None -> Become(j, Finish(job[j], "ok")) /\ UNCHANGED cache
                 [] OTHER -> Keep(j, job[j])

PutToken(j) ==
  /\ job[j].pc = "tokPut" /\ Put(j, job[j].held)
  /\ UNCHANGED <<idb, Marks>>
PutDocument(j) ==
  /\ job[j].pc = "docPut" /\ Put(j, job[j].body)
  /\ UNCHANGED <<idb, Marks>>

(* deleteGitAccount: whatever the deletion answers, the token is forgotten.       *)
Delete(j) ==
  /\ job[j].pc = "del"
  /\ IF job[j].rev = rev /\ acct.there
     THEN acct' = NoAccount /\ rev' = rev + 1 /\ Forget(j, job[j])
     ELSE Forget(j, [job[j] EXCEPT !.res = "failed"]) /\ UNCHANGED <<acct, rev>>
  /\ UNCHANGED <<idb, Marks>>

-------------------------------------------------------------------------------
(* A document request fails: the account prompt keeps the token for the tab, a     *)
(* deletion forgets it all the same, everything else ends there.                   *)
Fail(j) ==
  LET r == job[j] IN
  /\ r.pc \in Steps \ {"idbClear", "idbPut"} /\ (r.pc \in {"find", "found"} => r.held.mode = "couchdb")
  /\ trouble < MaxTrouble /\ trouble' = trouble + 1
  /\ CASE r.op = "save" /\ r.pc = "read" ->
            /\ cache' = [cache EXCEPT ![JobTab[j]] = r.tok] /\ Become(j, Finish(r, "ok"))
       [] r.op = "delete" /\ r.pc \in {"read", "del"} -> Forget(j, [r EXCEPT !.res = "failed"])
       [] OTHER -> Become(j, Finish(r, "failed")) /\ UNCHANGED cache
  /\ UNCHANGED <<Stored, idbFailed, torn>>

(* A write is done and its answer is lost. *)
LoseAnswer(j) ==
  LET r == job[j] IN
  /\ r.pc \in {"tokPut", "docPut", "del"} /\ r.rev = rev
  /\ trouble < MaxTrouble /\ trouble' = trouble + 1 /\ rev' = rev + 1
  /\ IF r.pc = "del"
     THEN acct' = NoAccount /\ Forget(j, [r EXCEPT !.res = "failed"])
     ELSE /\ acct' = IF r.pc = "tokPut" THEN r.held ELSE r.body
          /\ Become(j, Finish(r, "failed")) /\ UNCHANGED cache
  /\ UNCHANGED <<idb, idbFailed, torn>>

CloseTab(t) ==
  /\ trouble < MaxTrouble /\ trouble' = trouble + 1
  /\ cache' = [cache EXCEPT ![t] = None]
  /\ job' = [j \in Jobs |-> IF JobTab[j] = t /\ j \in Running
                            THEN [Resting EXCEPT !.pc = "done", !.res = "cut"] ELSE job[j]]
  /\ torn' = (torn \/ \E j \in Running : JobTab[j] = t /\ job[j].op = "delete")
  /\ UNCHANGED <<Stored, idbFailed>>

Work(j) == Read(j) \/ Find(j) \/ Found(j) \/ IdbClear(j) \/ IdbPut(j) \/ TokenRead(j) \/ Rev(j)
           \/ PutToken(j) \/ PutDocument(j) \/ Delete(j)

AccountNext ==
  \/ \E j \in Jobs : Work(j) \/ Fail(j) \/ LoseAnswer(j)
  \/ \E j \in Jobs, op \in {"connect", "rename", "change", "delete", "save", "use"},
       mode \in Modes, tok \in Tokens \union {None} : Start(j, op, mode, tok)
  \/ \E t \in Tabs : CloseTab(t)

AccountSpec == AccountInit /\ [][AccountNext]_accountVars

-------------------------------------------------------------------------------
(* "Deleting an account can never leave its token behind", and a token lives only  *)
(* where its account's mode says: between jobs no copy is in a store the mode does *)
(* not name, whatever failed on the way - unless IndexedDB itself failed, or the    *)
(* tab was closed in the middle of a deletion.                                      *)
OneHome ==
  Running = {} =>
    /\ acct.auth # None => acct.mode = "couchdb"
    /\ (idb # None /\ ~idbFailed /\ ~torn) => acct.mode = "indexeddb"

(* A job that says a token is kept under a mode has left it exactly there.          *)
KeptWhereSaid ==
  [][\A j \in Jobs :
       LET r == job[j] IN
       (r.pc # "done" /\ job'[j].pc = "done" /\ job'[j].res = "ok"
          /\ r.op \in {"connect", "save", "change"} /\ ~idbFailed' /\ ~torn)
       => /\ (r.mode = "couchdb" => acct'.auth = r.tok /\ idb' = None)
          /\ (r.mode = "indexeddb" => idb' = r.tok /\ acct'.auth = None)
          /\ (r.mode # "none" => cache'[JobTab[j]] = r.tok)]_accountVars
===============================================================================
