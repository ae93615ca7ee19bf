-------------------------- MODULE ReplicationEditor --------------------------
(***************************************************************************)
(* Editing a replication: the form of cca-repl-editor                      *)
(* (src/src/plugins/replication/repl-editor.ts), the service behind it     *)
(* (src/src/services/replication-service.ts), and one document of          *)
(* CouchDB's _replicator database, which other people edit as well.        *)
(*                                                                         *)
(* What is read is masked: a URL comes back with *** for its credentials.  *)
(* What is saved is merged over the stored document, a mask being replaced *)
(* by what it stands for.  A credential is named by the server it is for.  *)
(***************************************************************************)
EXTENDS Naturals, FiniteSets

CONSTANTS
  Kinds,       \* the endpoints of a replication: "source", "target"
  Hosts, Dbs,  \* servers (origins) and databases
  Values,      \* values of a clearable key: selector, filter, doc_ids, ...
  None,
  MaxOthers,   \* bound: changes by others
  MaxEdits,    \* bound: changes of the form
  MaxSaves     \* bound: saves

Absent == "absent"
Ids    == {0, 1, 2}   \* doc_ids: none, those that were loaded, others
Mask   == "***"

\* An endpoint URL, with the credentials in it.
Url(creds) == [host : Hosts, db : Dbs, cred : creds]
Real       == Hosts \cup {Absent}
Shown      == Real \cup {Mask}
\* The document: its revision, per endpoint a URL and an auth header, and
\* the clearable key, which may be absent.
Doc(creds) == [rev : Nat, url : [Kinds -> Url(creds)],
               auth : [Kinds -> Real], key : Values \cup {Absent}]

VARIABLES
  stored,      \* the document in CouchDB, or None
  revs,        \* the revisions it had
  mode,        \* "create", "edit", or "left" the screen
  form,        \* the state of the form; see Blank
  loads,       \* the two reads of opening the screen
  saving,      \* handleSubmit under way; see Idle
  missing,     \* missingDocIds: for which db and ids, or None
  verifying,   \* the verify under way: for which db and ids, or None
  others, edits, saves

vars == <<stored, revs, mode, form, loads, saving, missing, verifying,
          others, edits, saves>>

\* server, db: the two fields of an endpoint; over: the URL it was loaded
\* or pasted with, which they override once edited; loaded: the URL at load;
\* hadKey: loadedManagedKeys; ids: the document ids to verify.
Form == [server : [Kinds -> [host : Hosts, cred : Shown]],
         db     : [Kinds -> Dbs \cup {None}],
         over   : [Kinds -> Url(Shown) \cup {None}],
         loaded : [Kinds -> Url(Shown) \cup {None}],
         auth   : [Kinds -> Real],
         key    : Values \cup {Absent},
         hadKey : BOOLEAN, rev : Nat, ids : Ids]

\* The server this app is served for.
Home  == CHOOSE h \in Hosts : TRUE
Blank == [server |-> [k \in Kinds |-> [host |-> Home, cred |-> Absent]],
          db     |-> [k \in Kinds |-> None],
          over   |-> [k \in Kinds |-> None],
          loaded |-> [k \in Kinds |-> None],
          auth   |-> [k \in Kinds |-> Absent],
          key    |-> Absent, hadKey |-> FALSE, rev |-> 0, ids |-> 0]

\* A save: where it stands, what the caller sends, what was read back, and
\* the revision the form was loaded from.
Idle == [pc |-> "idle", url |-> [k \in Kinds |-> None],
         auth |-> [k \in Kinds |-> Absent], key |-> Absent,
         clear |-> FALSE, rev |-> 0, read |-> None]

TypeOK ==
  /\ stored \in Doc(Shown) \cup {None}
  /\ revs \in Nat
  /\ mode \in {"create", "edit", "left"}
  /\ form \in Form
  /\ loads \in [1 .. 2 -> [pc : {"none", "asked", "read"}, doc : Doc(Shown) \cup {None}]]
  /\ saving.pc \in {"idle", "reading", "writing", "creating"}
  /\ missing \in [db : Dbs \cup {None}, ids : Ids] \cup {None}
  /\ verifying \in [db : Dbs \cup {None}, ids : Ids, host : Hosts,
                    answered : BOOLEAN] \cup {None}
  /\ others \in 0 .. MaxOthers /\ edits \in 0 .. MaxEdits /\ saves \in 0 .. MaxSaves

Unread(pc) == [i \in 1 .. 2 |-> [pc |-> pc, doc |-> None]]
NoLoads    == Unread("none")

\* A document with another server at its ends, its credentials in the URLs
\* or in the headers; or none yet.
Init ==
  /\ \/ stored = None
     \/ \E h \in Hosts \ {Home}, c \in BOOLEAN, v \in Values \cup {Absent} :
          stored = [rev |-> 1, key |-> v,
                    url |-> [k \in Kinds |-> [host |-> h, db |-> CHOOSE d \in Dbs : TRUE,
                                              cred |-> IF c THEN h ELSE Absent]],
                    auth |-> [k \in Kinds |-> IF c THEN Absent ELSE h]]
  /\ revs = 1
  /\ mode = "left" /\ form = Blank /\ loads = NoLoads /\ saving = Idle
  /\ missing = None /\ verifying = None
  /\ others = 0 /\ edits = 0 /\ saves = 0

Counters == <<others, edits, saves>>

-----------------------------------------------------------------------------
(* replication-service.ts: masks.                                          *)

MaskUrl(u)  == IF u.cred = Absent THEN u ELSE [u EXCEPT !.cred = Mask]
Masked(doc) == [doc EXCEPT !.url = [k \in Kinds |-> MaskUrl(doc.url[k])]]

\* Mutant: the stored credentials are put on whatever URL the caller sent.
SameOrigin_Any(a, b) == TRUE

SameOrigin(a, b) == b # None /\ a.host = b.host

\* resolveEndpoint: a masked URL of the stored origin gets the stored
\* credentials, of another origin it is ignored; any other is taken.
Resolve(was, u) ==
  IF u.cred # Mask THEN u
  ELSE IF SameOrigin(u, was) THEN [u EXCEPT !.cred = was.cred] ELSE was

-----------------------------------------------------------------------------
(* The form.                                                               *)

\* connectedCallback, and the first updated(): an edit reads its document
\* twice.
Open(m) ==
  /\ mode = "left" /\ saving.pc = "idle"
  /\ m = "create" => stored = None
  /\ mode' = m /\ form' = Blank /\ missing' = None /\ verifying' = None
  /\ loads' = IF m = "edit" THEN Unread("asked") ELSE NoLoads
  /\ UNCHANGED <<stored, revs, saving>> /\ UNCHANGED Counters

Leave ==
  /\ mode # "left" /\ saving.pc = "idle"
  /\ mode' = "left" /\ loads' = NoLoads
  /\ UNCHANGED <<stored, revs, form, saving, missing, verifying>> /\ UNCHANGED Counters

\* CouchDB answers a read; one of a document that is not there fails.
Served(i) ==
  /\ loads[i].pc = "asked"
  /\ loads' = [loads EXCEPT ![i] = [pc  |-> "read",
                  doc |-> IF stored = None THEN None ELSE Masked(stored)]]
  /\ UNCHANGED <<stored, revs, mode, form, saving, missing, verifying>>
  /\ UNCHANGED Counters

\* populateFormFromDoc: all of the form, whatever was typed meanwhile.
Populated(doc) ==
  [server |-> [k \in Kinds |-> [host |-> doc.url[k].host, cred |-> doc.url[k].cred]],
   db     |-> [k \in Kinds |-> doc.url[k].db],
   over   |-> [k \in Kinds |-> doc.url[k]],
   loaded |-> [k \in Kinds |-> doc.url[k]],
   auth   |-> doc.auth, key |-> doc.key, hadKey |-> doc.key # Absent,
   rev    |-> doc.rev, ids |-> 1]

Land(i) ==
  /\ loads[i].pc = "read"
  /\ loads' = [loads EXCEPT ![i] = [pc |-> "none", doc |-> None]]
  /\ IF loads[i].doc = None THEN UNCHANGED <<form, missing>>
     ELSE form' = Populated(loads[i].doc) /\ missing' = None
  /\ UNCHANGED <<stored, revs, mode, saving, verifying>> /\ UNCHANGED Counters

\* What would be saved: effectiveSourceUrl, effectiveTargetUrl.
EffectiveUrl(k) ==
  IF form.over[k] # None THEN form.over[k]
  ELSE [host |-> form.server[k].host, db |-> form.db[k], cred |-> form.server[k].cred]

Edited(f) ==
  /\ mode # "left" /\ edits < MaxEdits
  /\ edits' = edits + 1 /\ form' = f
  /\ UNCHANGED <<stored, revs, mode, loads, saving, verifying, others, saves>>

\* handleEndpointChange: either field drops the override; a source database
\* drops what was verified, a server does not.
ChooseServer(k) == \E h \in Hosts, c \in Real :
  /\ c \in {h, Absent}
  /\ Edited([form EXCEPT !.server[k] = [host |-> h, cred |-> c], !.over[k] = None])
  /\ UNCHANGED missing

ChooseDb(k) == \E d \in Dbs :
  /\ Edited([form EXCEPT !.db[k] = d, !.over[k] = None])
  /\ missing' = IF k = "source" THEN None ELSE missing

EditAuth(k) == \E a \in Real :
  Edited([form EXCEPT !.auth[k] = a]) /\ UNCHANGED missing

EditKey == \E v \in Values \cup {Absent} :
  Edited([form EXCEPT !.key = v]) /\ UNCHANGED missing

EditIds == \E n \in Ids \ {form.ids} :
  Edited([form EXCEPT !.ids = n]) /\ missing' = None

\* applySourceToDesign: the document as it was edited in the JSON view, the
\* revision kept or deleted, the endpoint of one kind pasted.  The baselines
\* of the load, loaded and hadKey, stay.
ApplySource(k) == \E u \in Url(Shown), v \in Values \cup {Absent}, keep \in BOOLEAN :
  /\ u.cred \in {u.host, Absent, Mask}
  /\ \A j \in Kinds : form.db[j] # None
  /\ Edited([form EXCEPT
       !.server[k] = [host |-> u.host, cred |-> u.cred], !.db[k] = u.db,
       !.over = [j \in Kinds |-> IF j = k THEN u ELSE EffectiveUrl(j)],
       !.key = v, !.rev = IF keep THEN @ ELSE 0])
  /\ missing' = None

-----------------------------------------------------------------------------
(* Verify.                                                                 *)

VerifyDocs ==
  /\ mode # "left" /\ verifying = None
  /\ form.db["source"] # None /\ form.ids # 0
  /\ verifying' = [db |-> form.db["source"], ids |-> form.ids, answered |-> FALSE,
                   host |-> form.server["source"].host]
  /\ UNCHANGED <<stored, revs, mode, form, loads, saving, missing>>
  /\ UNCHANGED Counters

StillCurrent(v) == /\ v.host = form.server["source"].host
                   /\ v.db = form.db["source"] /\ v.ids = form.ids

VerifyLands ==
  /\ verifying # None /\ verifying' = None
  /\ missing' = IF ~StillCurrent(verifying) \/ mode = "left" THEN missing
                ELSE [db |-> verifying.db, ids |-> verifying.ids]
  /\ UNCHANGED <<stored, revs, mode, form, loads, saving>> /\ UNCHANGED Counters

-----------------------------------------------------------------------------
(* Save.                                                                   *)

\* computeSafetyRails, those that block.
Complete == \A k \in Kinds : form.over[k] # None \/ form.db[k] # None
MaskHasItsServer(k) ==
  EffectiveUrl(k).cred = Mask => SameOrigin(EffectiveUrl(k), form.loaded[k])

\* setOrClearManaged: an explicit null for a key that was there at load.
Clears == mode = "edit" /\ form.key = Absent /\ form.hadKey

\* handleSubmit: the document is built from the form, then an update reads
\* what is stored and a creation writes at once.
Submit ==
  /\ mode # "left" /\ saving.pc = "idle" /\ saves < MaxSaves
  /\ Complete /\ \A k \in Kinds : MaskHasItsServer(k)
  /\ saves' = saves + 1
  /\ saving' = [pc |-> IF mode = "edit" THEN "reading" ELSE "creating",
                url |-> [k \in Kinds |-> EffectiveUrl(k)], auth |-> form.auth,
                key |-> form.key, clear |-> Clears,
                rev |-> IF mode = "edit" THEN form.rev ELSE 0, read |-> None]
  /\ UNCHANGED <<stored, revs, mode, form, loads, missing, verifying, others, edits>>

\* updateReplication's GET; a document that is gone ends the save.
ReadBack ==
  /\ saving.pc = "reading"
  /\ saving' = IF stored = None THEN Idle
               ELSE [saving EXCEPT !.pc = "writing", !.read = stored]
  /\ UNCHANGED <<stored, revs, mode, form, loads, missing, verifying>>
  /\ UNCHANGED Counters

\* Mutant: the revision that was just read is sent.
SentRev_Read(s) == s.read.rev

\* { ...stored, ...safeDoc }: the caller's _rev wins when it has one.
SentRev(s) == IF s.rev # 0 THEN s.rev ELSE s.read.rev

Merged(s) ==
  [rev  |-> revs + 1,
   url  |-> [k \in Kinds |-> Resolve(s.read.url[k], s.url[k])],
   auth |-> s.auth,
   key  |-> IF s.key # Absent THEN s.key
            ELSE IF s.clear THEN Absent ELSE s.read.key]

\* The PUT: CouchDB takes it when the revision is the current one.  A save
\* that succeeds leaves the screen.
Put ==
  /\ saving.pc = "writing" /\ saving' = Idle
  /\ IF stored # None /\ stored.rev = SentRev(saving)
     THEN /\ stored' = Merged(saving) /\ revs' = revs + 1
          /\ mode' = "left" /\ loads' = NoLoads
     ELSE UNCHANGED <<stored, revs, mode, loads>>
  /\ UNCHANGED <<form, missing, verifying>> /\ UNCHANGED Counters

Create ==
  /\ saving.pc = "creating" /\ saving' = Idle
  /\ stored = None
  /\ stored' = [rev |-> revs + 1, url |-> saving.url, auth |-> saving.auth,
                key |-> saving.key]
  /\ revs' = revs + 1 /\ mode' = "left"
  /\ UNCHANGED <<form, loads, missing, verifying>> /\ UNCHANGED Counters

-----------------------------------------------------------------------------
(* Others, and the delete of the list: it reads the revision it deletes.   *)

Moved == \E k \in Kinds, h \in Hosts :
           stored' = [stored EXCEPT !.rev = revs + 1, !.url[k].host = h,
                                    !.url[k].cred = h, !.auth[k] = Absent]
Rekeyed == \E v \in Values \cup {Absent} :
             stored' = [stored EXCEPT !.rev = revs + 1, !.key = v]
DeleteReplication == stored' = None

Others ==
  /\ stored # None /\ others < MaxOthers /\ others' = others + 1
  /\ Moved \/ Rekeyed \/ DeleteReplication
  /\ revs' = revs + 1
  /\ UNCHANGED <<mode, form, loads, saving, missing, verifying, edits, saves>>

Next ==
  \/ \E m \in {"create", "edit"} : Open(m)
  \/ Leave \/ EditKey \/ EditIds \/ VerifyDocs \/ VerifyLands
  \/ Submit \/ ReadBack \/ Put \/ Create \/ Others
  \/ \E i \in 1 .. 2 : Served(i) \/ Land(i)
  \/ \E k \in Kinds : ChooseServer(k) \/ ChooseDb(k) \/ EditAuth(k) \/ ApplySource(k)

Spec == Init /\ [][Next]_vars

-----------------------------------------------------------------------------
\* No save stores the mask of a URL for its credential, and none moves a
\* credential stored in a URL to the URL of another server, whatever was edited
\* on either side meanwhile (resolveEndpoint).  Of headers nothing is said: they
\* are saved beside whatever server the form names.
UrlCredentialsStayHome ==
  stored # None => \A k \in Kinds : stored.url[k].cred \in {stored.url[k].host, Absent}

\* A save that succeeds with the revision the form was loaded from stores
\* what the form showed: each endpoint where it said, a masked credential
\* being the one that was stored; the key as it was set, gone if it was
\* cleared; and no change of somebody else's is written over.
SaveIsWhatWasShownStep ==
  Put /\ saving.rev # 0 /\ stored' # stored
     => /\ stored.rev = saving.rev
        /\ stored'.key = saving.key
        /\ \A k \in Kinds :
             /\ stored'.url[k].host = saving.url[k].host
             /\ stored'.url[k].db = saving.url[k].db
             /\ saving.url[k].cred = Mask =>
                  stored'.url[k].cred = stored.url[k].cred
SaveIsWhatWasShown == [][SaveIsWhatWasShownStep]_vars

\* The list of missing ids on the screen is about the database and the ids
\* that are on the screen.
VerifiedIsCurrent ==
  mode # "left" /\ missing # None =>
    missing.db = form.db["source"] /\ missing.ids = form.ids
=============================================================================
