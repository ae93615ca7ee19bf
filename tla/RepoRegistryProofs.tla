------------------------- MODULE RepoRegistryProofs -------------------------
(***************************************************************************)
(* Safety of the repository registry, for any databases, repositories and  *)
(* number of calls: the types, and what one call promises that has the     *)
(* registry to itself (alone), whatever earlier races and failures left.   *)
(*                                                                         *)
(* No promise is inductive: each is about a single write, and the write is *)
(* harmless only because of what the call has read or written before.      *)
(* Own states that: until it writes, the call's listing is still true; a   *)
(* registration claims its database before it strips another; a strip      *)
(* reaches a repository's document only once its records are swept.        *)
(***************************************************************************)
EXTENDS RepoRegistry, FiniteSetTheorems, WellFoundedInduction, TLAPS

\* A document that is gone has no targets.
Tidy == \A id \in Ids : ~repo[id].live => repo[id].targets = {}

\* A call names a database from its start on; it strips nothing before its own write.
JobOk(c) == pc[c] \notin {"idle", "over"} \/ Stripping(c) # {} => job[c].db \in Dbs
Fresh(c) == (pc[c] \in {"idle", "get", "put"} => Stripping(c) = {}) /\ (pc[c] = "idle" => ~alone[c])

\* The strip of one repository, by a call that has been alone.
StripOwn(c, id) ==
  strip[c][id].at # "done" =>
    /\ job[c].kind \in {"register", "unlink", "delete"}
    /\ job[c].kind = "register" => id # job[c].id
    /\ job[c].kind # "delete" => repo[id] = seen[c][id]
    /\ strip[c][id].at = "sweep" => strip[c][id].rows = {<<db, mark[db].rev>> : db \in Records(c, id)}
    /\ strip[c][id].at \in {"get", "write"} => Records(c, id) = {}

RegisterOwn(c) ==
  /\ pc[c] \in {"get", "put"} => seen[c] = repo
  /\ pc[c] \in {"strip", "over"} => Tracking(job[c].id, job[c].db)
  /\ pc[c] = "strip" =>
       \A id \in Ids : Tracking(id, job[c].db) /\ id # job[c].id => strip[c][id].at # "done"

Own(c) ==
  /\ pc[c] \in {"get", "put"} => job[c].kind \in {"register", "sync"}
  /\ job[c].kind = "register" => RegisterOwn(c)
  /\ job[c].kind = "sync" => Tracking(job[c].id, job[c].db)
  /\ \A id \in Ids : StripOwn(c, id)

AloneOk(c) == alone[c] => (\A o \in Calls \ {c} : ~Active(o)) /\ Own(c)

Inv == TypeOK /\ Tidy /\ \A c \in Calls : JobOk(c) /\ Fresh(c) /\ AloneOk(c)

----------------------------------------------------------------------------
(* Operators. *)

LEMMA MinOk == ASSUME NEW S \in SUBSET Ids, S # {} PROVE Min(S) \in S
<1>1. S \subseteq Nat
  BY IdsAssumption
<1>2. PICK x \in S : \A y \in S : ~(<<y, x>> \in OpToRel(<, Nat))
  BY <1>1, WFMin, NatLessThanWellFounded
<1>3. ASSUME NEW y \in S PROVE x =< y
  <2>1. x \in Nat /\ y \in Nat
    BY <1>1
  <2>2. ~(y < x)
    BY <2>1, <1>2 DEF OpToRel
  <2> QED
    BY <2>1, <2>2
<1> QED
  BY <1>3 DEF Min

----------------------------------------------------------------------------
(* What every step of a call does, alone or not. *)

Shape == TypeOK /\ Tidy /\ \A c \in Calls : JobOk(c) /\ Fresh(c)

\* The other calls are where they were.
Frame(c) == \A o \in Calls \ {c} : pc'[o] = pc[o] /\ strip'[o] = strip[o] /\ job'[o] = job[o]

StepOk(c) ==
  /\ TypeOK' /\ Tidy' /\ JobOk(c)' /\ Fresh(c)'
  /\ Frame(c)
  /\ \A o \in Calls : alone'[o] => alone[o]

LEMMA Blanks == Unwritten \in RepoType /\ NoMark \in [rev : Nat, live : BOOLEAN, owner : Ids]
                /\ NoStrip \in [at : {"list", "sweep", "get", "write", "done"}, rows : SUBSET (Dbs \X Nat), rev : Nat]
                /\ NoJob.id \in Ids
<1>1. Min(Ids) \in Ids
  BY MinOk, IdsAssumption
<1> QED
  BY <1>1 DEF Unwritten, NoMark, NoStrip, NoJob, RepoType

LEMMA JobBlank == NoJob \in [kind : {"none", "register", "unlink", "delete", "sync"}, db : Dbs \cup {Nowhere}, id : Ids,
                       url : Urls \cup {Nowhere}]
BY Blanks DEF NoJob

\* A call that has forgotten everything keeps the types.
LEMMA Forgets ==
  ASSUME TypeOK, NEW c \in Calls, Forgotten(c)
  PROVE  /\ alone' \in [Calls -> BOOLEAN] /\ ~alone'[c]
         /\ job' \in [Calls -> [kind : {"none", "register", "unlink", "delete", "sync"}, db : Dbs \cup {Nowhere},
                       id : Ids, url : Urls \cup {Nowhere}]]
         /\ seen' \in [Calls -> [Ids -> RepoType]]
         /\ \A o \in Calls \ {c} : job'[o] = job[o]
         /\ \A o \in Calls : alone'[o] => alone[o]
<1>1. [id \in Ids |-> Unwritten] \in [Ids -> RepoType]
  BY Blanks
<1>2. alone' = [alone EXCEPT ![c] = FALSE]
      /\ job' = [job EXCEPT ![c] = NoJob] /\ seen' = [seen EXCEPT ![c] = [id \in Ids |-> Unwritten]]
  BY DEF Forgotten
<1>3. job' \in [Calls -> [kind : {"none", "register", "unlink", "delete", "sync"}, db : Dbs \cup {Nowhere},
                       id : Ids, url : Urls \cup {Nowhere}]]
  BY <1>2, JobBlank DEF TypeOK
<1>4. seen' \in [Calls -> [Ids -> RepoType]]
  BY <1>1, <1>2, Zenon DEF TypeOK
<1>5. alone' \in [Calls -> BOOLEAN] /\ ~alone'[c] /\ \A o \in Calls : alone'[o] => alone[o]
  BY <1>2, Zenon DEF TypeOK
<1>6. \A o \in Calls \ {c} : job'[o] = job[o]
  BY <1>2 DEF TypeOK
<1> QED
  BY <1>3, <1>4, <1>5, <1>6

LEMMA ForgottenOk ==
  ASSUME TypeOK, NEW c \in Calls, Over(c), Forgotten(c)
  PROVE  /\ pc' \in [Calls -> {"idle", "get", "put", "strip", "over"}]
         /\ got' \in [Calls -> Nat] /\ alone' \in [Calls -> BOOLEAN]
         /\ job' \in [Calls -> [kind : {"none", "register", "unlink", "delete", "sync"}, db : Dbs \cup {Nowhere},
                       id : Ids, url : Urls \cup {Nowhere}]]
         /\ seen' \in [Calls -> [Ids -> RepoType]]
         /\ pc'[c] = "over" /\ ~alone'[c]
         /\ \A o \in Calls \ {c} : pc'[o] = pc[o] /\ job'[o] = job[o]
         /\ \A o \in Calls : alone'[o] => alone[o]
<1>1. pc' = [pc EXCEPT ![c] = "over"] /\ got' = [got EXCEPT ![c] = 0]
  BY DEF Over
<1>2. /\ pc' \in [Calls -> {"idle", "get", "put", "strip", "over"}] /\ got' \in [Calls -> Nat] /\ pc'[c] = "over"
      /\ \A o \in Calls \ {c} : pc'[o] = pc[o]
  BY <1>1 DEF TypeOK
<1> QED
  BY <1>2, Forgets

\* What the steps that end a call, and touch none of its strips, have in common.
LEMMA EndOk ==
  ASSUME Shape, NEW c \in Calls, Over(c), Forgotten(c), UNCHANGED <<repo, strip>>, Stripping(c) = {},
         mark' \in [Dbs -> [rev : Nat, live : BOOLEAN, owner : Ids]]
  PROVE  StepOk(c)
<1>1. TypeOK'
  BY ForgottenOk DEF TypeOK, Shape
<1>2. Tidy'
  BY DEF Tidy, Shape
<1>3. Stripping(c)' = {} /\ pc'[c] = "over"
  BY ForgottenOk DEF Stripping, Shape
<1>4. JobOk(c)' /\ Fresh(c)'
  BY <1>3 DEF JobOk, Fresh
<1> QED
  BY <1>1, <1>2, <1>3, <1>4, ForgottenOk DEF StepOk, Frame, Shape

LEMMA GetRevOk == ASSUME Shape, NEW c \in Calls, GetRev(c) PROVE StepOk(c)
<1>1. Target(c).rev \in Nat /\ OwnRev(c) \in Nat
  <2>1. job[c].id \in Ids /\ job[c].db \in Dbs
    BY DEF Shape, TypeOK, JobOk, GetRev
  <2>2. repo[job[c].id] \in RepoType /\ mark[job[c].db] \in [rev : Nat, live : BOOLEAN, owner : Ids]
        /\ seen[c][job[c].id] \in RepoType
    BY <2>1 DEF Shape, TypeOK
  <2> QED
    BY <2>2 DEF Target, OwnRev, RepoType
<1>2. got' \in [Calls -> Nat]
  BY <1>1 DEF Shape, TypeOK, GetRev, Carried
<1>3. pc' = [pc EXCEPT ![c] = "put"] /\ UNCHANGED <<repo, mark, job, seen, strip, alone>> /\ pc[c] = "get"
  BY DEF GetRev
<1>4. TypeOK' /\ Tidy'
  BY <1>2, <1>3 DEF Shape, TypeOK, Tidy
<1>5. pc'[c] = "put" /\ job[c].db \in Dbs /\ Stripping(c) = {} /\ Stripping(c)' = {}
  BY <1>3 DEF Shape, TypeOK, Fresh, JobOk, Stripping
<1>6. JobOk(c)' /\ Fresh(c)'
  BY <1>3, <1>5 DEF JobOk, Fresh
<1>7. Frame(c) /\ \A o \in Calls : alone'[o] => alone[o]
  BY <1>3 DEF Shape, TypeOK, Frame
<1> QED
  BY <1>4, <1>6, <1>7 DEF StepOk

LEMMA PutRepoOk == ASSUME Shape, NEW c \in Calls, PutRepo(c) PROVE StepOk(c)
<1> DEFINE id == job[c].id
           db == job[c].db
           doc == RepoDoc(id, job[c].url, seen[c][id].targets \cup {db})
           strips == [other \in Ids |-> IF other \in Others(c) THEN Listing(db, other) ELSE NoStrip]
<1>1. /\ repo' = [repo EXCEPT ![id] = doc] /\ strip' = [strip EXCEPT ![c] = strips]
      /\ pc' = [pc EXCEPT ![c] = "strip"] /\ got' = [got EXCEPT ![c] = 0]
      /\ UNCHANGED <<mark, job, seen, alone>> /\ pc[c] = "put"
  BY DEF PutRepo
<1>2. id \in Ids /\ db \in Dbs /\ job[c].url \in Urls \cup {Nowhere}
  BY <1>1 DEF Shape, TypeOK, JobOk
<1>3. repo[id] \in RepoType /\ seen[c][id] \in RepoType
  BY <1>2 DEF Shape, TypeOK
<1>4. doc \in RepoType /\ doc.live
  BY <1>2, <1>3 DEF RepoDoc, RepoType
<1>5. strips \in [Ids -> [at : {"list", "sweep", "get", "write", "done"}, rows : SUBSET (Dbs \X Nat), rev : Nat]]
  BY Blanks DEF Listing
<1> HIDE DEF doc, strips
<1>6. TypeOK'
  <2>1. repo' \in [Ids -> RepoType]
    BY <1>1, <1>4 DEF Shape, TypeOK
  <2>2. strip' \in [Calls -> [Ids -> [at : {"list", "sweep", "get", "write", "done"},
                                rows : SUBSET (Dbs \X Nat), rev : Nat]]]
    BY <1>1, <1>5, Zenon DEF Shape, TypeOK
  <2> QED
    BY <1>1, <2>1, <2>2 DEF Shape, TypeOK
<1>7. Tidy'
  BY <1>1, <1>2, <1>4 DEF Shape, Tidy, TypeOK
<1>8. JobOk(c)' /\ Fresh(c)'
  <2>1. pc'[c] = "strip" /\ job'[c].db \in Dbs
    BY <1>1, <1>2 DEF Shape, TypeOK
  <2> QED
    BY <2>1 DEF JobOk, Fresh
<1>9. Frame(c) /\ \A o \in Calls : alone'[o] => alone[o]
  BY <1>1 DEF Shape, TypeOK, Frame
<1> QED
  BY <1>6, <1>7, <1>8, <1>9 DEF StepOk

LEMMA PutMarkOk == ASSUME Shape, NEW c \in Calls, PutMark(c) PROVE StepOk(c)
<1>1. /\ mark' = [mark EXCEPT ![job[c].db] = [rev |-> mark[job[c].db].rev + 1, live |-> TRUE, owner |-> job[c].id]]
      /\ Over(c) /\ Forgotten(c) /\ UNCHANGED <<repo, strip>> /\ pc[c] = "put"
  BY DEF PutMark
<1>2. job[c].db \in Dbs /\ job[c].id \in Ids /\ Stripping(c) = {}
  BY <1>1 DEF Shape, TypeOK, JobOk, Fresh
<1>3. mark' \in [Dbs -> [rev : Nat, live : BOOLEAN, owner : Ids]]
  BY <1>1, <1>2 DEF Shape, TypeOK
<1> QED
  BY <1>1, <1>2, <1>3, EndOk

LEMMA FinishOk == ASSUME Shape, NEW c \in Calls, Finish(c) PROVE StepOk(c)
BY EndOk DEF Finish, Shape, TypeOK

LEMMA CallFailsOk == ASSUME Shape, NEW c \in Calls, CallFails(c) PROVE StepOk(c)
<1>1. Stripping(c) = {}
  BY DEF CallFails, Shape, Fresh
<1> QED
  BY <1>1, EndOk DEF CallFails, Shape, TypeOK

LEMMA CloseOk == ASSUME Shape, NEW c \in Calls, Close(c) PROVE StepOk(c)
<1> DEFINE none == [id \in Ids |-> NoStrip]
<1>1. /\ strip' = [strip EXCEPT ![c] = none] /\ Over(c) /\ Forgotten(c) /\ UNCHANGED <<repo, mark>>
  BY DEF Close
<1>2. none \in [Ids -> [at : {"list", "sweep", "get", "write", "done"}, rows : SUBSET (Dbs \X Nat), rev : Nat]]
  BY Blanks
<1>3. \A id \in Ids : none[id].at = "done"
  BY DEF NoStrip
<1> HIDE DEF none
<1>4. strip' \in [Calls -> [Ids -> [at : {"list", "sweep", "get", "write", "done"},
                                rows : SUBSET (Dbs \X Nat), rev : Nat]]]
  BY <1>1, <1>2, Zenon DEF Shape, TypeOK
<1>5. TypeOK'
  BY <1>1, <1>4, ForgottenOk DEF TypeOK, Shape
<1>6. Tidy'
  BY <1>1 DEF Tidy, Shape
<1>7. strip'[c] = none /\ pc'[c] = "over"
  BY <1>1, ForgottenOk, Zenon DEF Shape, TypeOK
<1>8. Stripping(c)' = {}
  BY <1>3, <1>7 DEF Stripping
<1>9. JobOk(c)' /\ Fresh(c)'
  BY <1>7, <1>8 DEF JobOk, Fresh
<1>10. Frame(c)
  BY <1>1, ForgottenOk DEF Frame, Shape, TypeOK
<1>11. \A o \in Calls : alone'[o] => alone[o]
  BY <1>1, ForgottenOk DEF Shape
<1> QED
  BY <1>5, <1>6, <1>9, <1>10, <1>11 DEF StepOk

----------------------------------------------------------------------------
(* The strips. *)

StripType == [at : {"list", "sweep", "get", "write", "done"}, rows : SUBSET (Dbs \X Nat), rev : Nat]

LEMMA StripSet ==
  ASSUME TypeOK, NEW c \in Calls, NEW id \in Ids, NEW s \in StripType, strip' = [strip EXCEPT ![c][id] = s]
  PROVE  /\ strip' \in [Calls -> [Ids -> StripType]]
         /\ strip'[c][id] = s
         /\ \A o \in Ids \ {id} : strip'[c][o] = strip[c][o]
         /\ \A o \in Calls \ {c} : strip'[o] = strip[o]
<1> DEFINE mine == [strip[c] EXCEPT ![id] = s]
<1>1. strip \in [Calls -> [Ids -> StripType]] /\ strip' = [strip EXCEPT ![c] = mine]
  BY DEF TypeOK, StripType
<1>2. mine \in [Ids -> StripType] /\ mine[id] = s /\ \A o \in Ids \ {id} : mine[o] = strip[c][o]
  BY <1>1, Zenon
<1> HIDE DEF mine
<1>3. strip'[c] = mine /\ \A o \in Calls \ {c} : strip'[o] = strip[o]
  BY <1>1, Zenon
<1>4. strip' \in [Calls -> [Ids -> StripType]]
  BY <1>1, <1>2, Zenon
<1> QED
  BY <1>2, <1>3, <1>4

LEMMA StripsLeft ==
  ASSUME TypeOK, NEW c \in Calls, NEW id \in Ids, strip' = [strip EXCEPT ![c][id] = NoStrip]
  PROVE  Stripping(c)' = Stripping(c) \ {id}
<1>1. NoStrip \in StripType /\ NoStrip.at = "done"
  BY Blanks DEF StripType, NoStrip
<1>2. strip'[c][id] = NoStrip /\ \A o \in Ids \ {id} : strip'[c][o] = strip[c][o]
  BY <1>1, StripSet
<1>3. \A o \in Ids : strip'[c][o].at # "done" <=> strip[c][o].at # "done" /\ o # id
  BY <1>1, <1>2
<1> QED
  BY <1>3 DEF Stripping

\* A call with a strip under way knows its database, and is past its own write.
LEMMA StripsLate ==
  ASSUME Shape, NEW c \in Calls, NEW id \in Ids, strip[c][id].at # "done"
  PROVE  pc[c] \in {"strip", "over"} /\ job[c].db \in Dbs /\ Active(c)
BY DEF Shape, TypeOK, JobOk, Fresh, Stripping, Active

\* A step of one strip: the call itself stays where it was ...
LEMMA SlotOk ==
  ASSUME Shape, NEW c \in Calls, NEW id \in Ids, NEW s \in StripType, strip' = [strip EXCEPT ![c][id] = s],
         strip[c][id].at # "done", UNCHANGED <<pc, job, seen, got, alone>>,
         repo' \in [Ids -> RepoType], mark' \in [Dbs -> [rev : Nat, live : BOOLEAN, owner : Ids]], Tidy'
  PROVE  StepOk(c)
<1>1. TypeOK'
  BY StripSet DEF Shape, TypeOK, StripType
<1>2. JobOk(c)' /\ Fresh(c)'
  <2>1. pc'[c] \in {"strip", "over"} /\ job'[c].db \in Dbs
    BY StripsLate
  <2> QED
    BY <2>1 DEF JobOk, Fresh
<1>3. Frame(c)
  BY StripSet DEF Shape, Frame
<1> QED
  BY <1>1, <1>2, <1>3 DEF StepOk

\* ... or has made its last step, and forgets.
LEMMA LastOk ==
  ASSUME Shape, NEW c \in Calls, NEW id \in Ids, strip' = [strip EXCEPT ![c][id] = NoStrip],
         Over(c), Stripping(c) = {id}, Forgotten(c),
         repo' \in [Ids -> RepoType], mark' \in [Dbs -> [rev : Nat, live : BOOLEAN, owner : Ids]], Tidy'
  PROVE  StepOk(c)
<1>1. NoStrip \in StripType
  BY Blanks DEF StripType
<1>2. TypeOK'
  BY <1>1, StripSet, ForgottenOk DEF Shape, TypeOK, StripType
<1>3. Stripping(c)' = {}
  BY StripsLeft DEF Shape
<1>4. pc'[c] = "over"
  BY ForgottenOk DEF Shape
<1>5. JobOk(c)' /\ Fresh(c)'
  BY <1>3, <1>4 DEF JobOk, Fresh
<1>6. Frame(c) /\ \A o \in Calls : alone'[o] => alone[o]
  BY <1>1, StripSet, ForgottenOk DEF Frame, Shape
<1> QED
  BY <1>2, <1>5, <1>6 DEF StepOk

LEMMA FailedOk ==
  ASSUME Shape, NEW c \in Calls, NEW id \in Ids, Failed(c, id), strip[c][id].at # "done", UNCHANGED repo,
         mark' \in [Dbs -> [rev : Nat, live : BOOLEAN, owner : Ids]]
  PROVE  StepOk(c)
<1>1. repo' \in [Ids -> RepoType] /\ Tidy'
  BY DEF Shape, TypeOK, Tidy
<1>2. strip' = [strip EXCEPT ![c][id] = NoStrip] /\ Over(c)
  BY DEF Failed
<1>3. CASE Stripping(c) = {id}
  BY <1>1, <1>2, <1>3, LastOk DEF Failed
<1>4. CASE Stripping(c) # {id}
  <2>1. UNCHANGED <<job, seen, alone>> /\ pc' = [pc EXCEPT ![c] = "over"] /\ got' = [got EXCEPT ![c] = 0]
    BY <1>4 DEF Failed, Over
  <2>2. NoStrip \in StripType
    BY Blanks DEF StripType
  <2>3. TypeOK'
    <3>1. pc' \in [Calls -> {"idle", "get", "put", "strip", "over"}] /\ got' \in [Calls -> Nat]
      BY <2>1 DEF Shape, TypeOK
    <3> QED
      BY <1>1, <1>2, <2>1, <2>2, <3>1, StripSet DEF Shape, TypeOK, StripType
  <2>4. pc'[c] = "over" /\ job'[c].db \in Dbs /\ \A o \in Calls \ {c} : pc'[o] = pc[o]
    BY <2>1, StripsLate DEF Shape, TypeOK
  <2>5. JobOk(c)' /\ Fresh(c)'
    BY <2>4 DEF JobOk, Fresh
  <2>6. Frame(c)
    BY <1>2, <2>1, <2>2, <2>4, StripSet DEF Shape, Frame
  <2> QED
    BY <1>1, <2>1, <2>3, <2>5, <2>6 DEF StepOk
<1> QED
  BY <1>3, <1>4

LEMMA StrippedOk ==
  ASSUME Shape, NEW c \in Calls, NEW id \in Ids, Stripped(c, id), strip[c][id].at # "done",
         repo' \in [Ids -> RepoType], mark' \in [Dbs -> [rev : Nat, live : BOOLEAN, owner : Ids]], Tidy'
  PROVE  StepOk(c)
<1>1. strip' = [strip EXCEPT ![c][id] = NoStrip] /\ UNCHANGED <<pc, got>> /\ NoStrip \in StripType
  BY Blanks DEF Stripped, StripType
<1>2. CASE pc[c] = "over" /\ Stripping(c) = {id}
  <2>1. Forgotten(c)
    BY <1>2 DEF Stripped
  <2>2. TypeOK'
    <3>1. /\ job' \in [Calls -> [kind : {"none", "register", "unlink", "delete", "sync"}, db : Dbs \cup {Nowhere},
                       id : Ids, url : Urls \cup {Nowhere}]]
          /\ seen' \in [Calls -> [Ids -> RepoType]] /\ alone' \in [Calls -> BOOLEAN]
      BY <2>1, Forgets DEF Shape
    <3> QED
      BY <1>1, <3>1, StripSet DEF Shape, TypeOK, StripType
  <2>3. Stripping(c)' = {} /\ pc'[c] = "over"
    BY <1>1, <1>2, StripsLeft DEF Shape
  <2>4. JobOk(c)' /\ Fresh(c)'
    BY <2>3 DEF JobOk, Fresh
  <2>5. Frame(c) /\ \A o \in Calls : alone'[o] => alone[o]
    BY <1>1, <2>1, StripSet, Forgets DEF Frame, Shape
  <2> QED
    BY <2>2, <2>4, <2>5 DEF StepOk
<1>3. CASE ~(pc[c] = "over" /\ Stripping(c) = {id})
  <2>1. UNCHANGED <<pc, job, seen, got, alone>>
    BY <1>1, <1>3 DEF Stripped
  <2> QED
    BY <1>1, <2>1, SlotOk
<1> QED
  BY <1>2, <1>3

LEMMA RecordsOk == ASSUME NEW c \in Calls, NEW id \in Ids PROVE Records(c, id) \subseteq Dbs
BY DEF Records

LEMMA ListRecordsOk == ASSUME Shape, NEW c \in Calls, NEW id \in Ids, ListRecords(c, id) PROVE StepOk(c)
<1> DEFINE s == [at |-> IF Records(c, id) = {} THEN "get" ELSE "sweep",
                 rows |-> {<<db, mark[db].rev>> : db \in Records(c, id)}, rev |-> 0]
<1>1. strip' = [strip EXCEPT ![c][id] = s] /\ strip[c][id].at # "done"
      /\ UNCHANGED <<repo, mark, pc, job, seen, got, alone>>
  BY DEF ListRecords
<1>2. s \in StripType
  BY RecordsOk DEF StripType, Shape, TypeOK
<1> HIDE DEF s
<1>3. repo' \in [Ids -> RepoType] /\ mark' \in [Dbs -> [rev : Nat, live : BOOLEAN, owner : Ids]] /\ Tidy'
  BY <1>1 DEF Shape, TypeOK, Tidy
<1> QED
  BY <1>1, <1>2, <1>3, SlotOk

LEMMA SweepOk == ASSUME Shape, NEW c \in Calls, NEW id \in Ids, Sweep(c, id) PROVE StepOk(c)
<1> DEFINE rows == strip[c][id].rows
           gone == {row \in rows : Current(row)}
           s == [at |-> "get", rows |-> {}, rev |-> 0]
<1>1. mark' = [db \in Dbs |-> IF \E row \in gone : row[1] = db THEN Tombstone(NoMark, mark[db]) ELSE mark[db]]
      /\ UNCHANGED repo /\ strip[c][id].at # "done"
  BY DEF Sweep
<1> HIDE DEF gone
<1>2. \A db \in Dbs : Tombstone(NoMark, mark[db]) \in [rev : Nat, live : BOOLEAN, owner : Ids]
  <2>1. ASSUME NEW db \in Dbs PROVE Tombstone(NoMark, mark[db]) \in [rev : Nat, live : BOOLEAN, owner : Ids]
    <3>1. mark[db].rev + 1 \in Nat
      BY DEF Shape, TypeOK
    <3> QED
      BY <3>1, Blanks DEF Tombstone, NoMark
  <2> QED
    BY <2>1
<1>3. mark' \in [Dbs -> [rev : Nat, live : BOOLEAN, owner : Ids]]
  BY <1>1, <1>2 DEF Shape, TypeOK
<1>4. CASE gone = rows
  <2>1. strip' = [strip EXCEPT ![c][id] = s] /\ UNCHANGED <<pc, job, seen, got, alone>>
    BY <1>4 DEF Sweep, gone
  <2>2. s \in StripType
    BY DEF StripType
  <2>3. repo' \in [Ids -> RepoType] /\ Tidy'
    BY <1>1 DEF Shape, TypeOK, Tidy
  <2> QED
    BY <1>1, <1>3, <2>1, <2>2, <2>3, SlotOk
<1>5. CASE gone # rows
  <2>1. Failed(c, id)
    BY <1>5 DEF Sweep, gone
  <2> QED
    BY <1>1, <1>3, <2>1, FailedOk
<1> QED
  BY <1>4, <1>5

LEMMA GetVictimOk == ASSUME Shape, NEW c \in Calls, NEW id \in Ids, GetVictim(c, id) PROVE StepOk(c)
<1>1. strip[c][id].at # "done" /\ UNCHANGED <<repo, mark>>
  BY DEF GetVictim
<1>2. repo' \in [Ids -> RepoType] /\ mark' \in [Dbs -> [rev : Nat, live : BOOLEAN, owner : Ids]] /\ Tidy'
  BY <1>1 DEF Shape, TypeOK, Tidy
<1>3. CASE Remaining(c, id) = {} /\ ~repo[id].live
  BY <1>1, <1>2, <1>3, StrippedOk DEF GetVictim
<1>4. CASE ~(Remaining(c, id) = {} /\ ~repo[id].live)
  <2> DEFINE s == [at |-> "write", rows |-> {}, rev |-> Carried(repo[id], seen[c][id].rev)]
  <2>1. strip' = [strip EXCEPT ![c][id] = s] /\ UNCHANGED <<pc, job, seen, got, alone>>
    BY <1>4 DEF GetVictim
  <2>2. s \in StripType
    BY DEF StripType, Carried, Shape, TypeOK, RepoType
  <2> HIDE DEF s
  <2> QED
    BY <1>1, <1>2, <2>1, <2>2, SlotOk
<1> QED
  BY <1>3, <1>4

\* What a strip writes: a tombstone, or the targets that are left.
Victim(c, id) ==
  IF Remaining(c, id) = {} THEN Tombstone(Unwritten, repo[id])
  ELSE RepoDoc(id, seen[c][id].url, Remaining(c, id))

LEMMA VictimOk ==
  ASSUME Shape, NEW c \in Calls, NEW id \in Ids
  PROVE  /\ Victim(c, id) \in RepoType
         /\ ~Victim(c, id).live => Victim(c, id).targets = {}
         /\ \A db \in Dbs : Victim(c, id).live /\ db \in Victim(c, id).targets <=> db \in Remaining(c, id)
<1>1. repo[id] \in RepoType /\ seen[c][id] \in RepoType
  BY DEF Shape, TypeOK
<1>2. repo[id].rev + 1 \in Nat /\ seen[c][id].url \in Urls \cup {Nowhere} /\ seen[c][id].targets \subseteq Dbs
  BY <1>1 DEF RepoType
<1>3. Remaining(c, id) \subseteq Dbs
  BY <1>2 DEF Remaining
<1>4. Unwritten.targets = {} /\ ~Unwritten.live /\ Unwritten \in RepoType
  BY Blanks DEF Unwritten
<1>5. CASE Remaining(c, id) = {}
  BY <1>2, <1>5 DEF Victim, Tombstone, Unwritten, RepoType
<1>6. CASE Remaining(c, id) # {}
  BY <1>2, <1>3, <1>6 DEF Victim, RepoDoc, RepoType
<1> QED
  BY <1>5, <1>6

LEMMA VictimWritten ==
  ASSUME NEW c \in Calls, NEW id \in Ids, WriteVictim(c, id)
  PROVE  repo' = [repo EXCEPT ![id] = Victim(c, id)] /\ Stripped(c, id) /\ UNCHANGED mark /\ strip[c][id].at = "write"
BY DEF WriteVictim, Victim

LEMMA WriteVictimOk == ASSUME Shape, NEW c \in Calls, NEW id \in Ids, WriteVictim(c, id) PROVE StepOk(c)
<1>1. repo' = [repo EXCEPT ![id] = Victim(c, id)] /\ Stripped(c, id) /\ UNCHANGED mark /\ strip[c][id].at # "done"
  BY VictimWritten
<1>2. repo' \in [Ids -> RepoType] /\ Tidy'
  BY <1>1, VictimOk DEF Shape, TypeOK, Tidy
<1>3. mark' \in [Dbs -> [rev : Nat, live : BOOLEAN, owner : Ids]]
  BY <1>1 DEF Shape, TypeOK
<1> QED
  BY <1>1, <1>2, <1>3, StrippedOk

LEMMA StripFailsOk == ASSUME Shape, NEW c \in Calls, NEW id \in Ids, StripFails(c, id) PROVE StepOk(c)
<1>1. Failed(c, id) /\ strip[c][id].at # "done" /\ UNCHANGED <<repo, mark>>
  BY DEF StripFails
<1>2. mark' \in [Dbs -> [rev : Nat, live : BOOLEAN, owner : Ids]]
  BY <1>1 DEF Shape, TypeOK
<1> QED
  BY <1>1, <1>2, FailedOk

LEMMA StepsOk == ASSUME Shape, NEW c \in Calls, Step(c) PROVE StepOk(c) /\ Active(c)
<1>1. Active(c)
  <2>1. CASE GetRev(c) \/ PutRepo(c) \/ PutMark(c) \/ Finish(c) \/ CallFails(c) \/ Close(c)
    BY <2>1 DEF GetRev, PutRepo, PutMark, Finish, CallFails, Close, Active
  <2>2. CASE \E id \in Ids : StripStep(c, id)
    BY <2>2, StripsLate DEF StripStep, ListRecords, Sweep, GetVictim, WriteVictim, StripFails
  <2> QED
    BY <2>1, <2>2 DEF Step
<1>2. StepOk(c)
  BY GetRevOk, PutRepoOk, PutMarkOk, FinishOk, CallFailsOk, CloseOk,
     ListRecordsOk, SweepOk, GetVictimOk, WriteVictimOk, StripFailsOk DEF Step, StripStep
<1> QED
  BY <1>1, <1>2

----------------------------------------------------------------------------
(* The start of a call. *)

\* Whoever starts is alone exactly if nobody else is under way, and knows what it has listed.
BeginOk(c) ==
  /\ TypeOK' /\ Tidy' /\ JobOk(c)' /\ Fresh(c)'
  /\ Frame(c)
  /\ \A o \in Calls : alone'[o] => o = c /\ \A other \in Calls : ~Active(other)
  /\ Own(c)'

Begun(c, asked) ==
  /\ \A o \in Calls \ {c} : job'[o] = job[o]
  /\ job'[c] = asked
  /\ job' \in [Calls -> [kind : {"none", "register", "unlink", "delete", "sync"}, db : Dbs \cup {Nowhere},
                          id : Ids, url : Urls \cup {Nowhere}]]
  /\ alone' \in [Calls -> BOOLEAN]
  /\ \A o \in Calls : alone'[o] => o = c /\ \A other \in Calls : ~Active(other)
  /\ repo' \in [Ids -> RepoType] /\ mark' \in [Dbs -> [rev : Nat, live : BOOLEAN, owner : Ids]]
  /\ Tidy' /\ got' \in [Calls -> Nat] /\ Stripping(c) = {}

LEMMA BeginsOk ==
  ASSUME Shape, NEW c \in Calls, NEW kind \in {"register", "unlink", "delete", "sync"}, NEW db \in Dbs, NEW id \in Ids,
         NEW url \in Urls \cup {Nowhere}, StartCall(c, kind, db, id, url)
  PROVE  Begun(c, [kind |-> kind, db |-> db, id |-> id, url |-> url])
<1> DEFINE new == [kind |-> kind, db |-> db, id |-> id, url |-> url]
<1>1. /\ pc[c] = "idle" /\ job' = [job EXCEPT ![c] = new]
      /\ alone' = [o \in Calls |-> o = c /\ \A other \in Calls : ~Active(other)]
      /\ UNCHANGED <<repo, mark, got>>
  BY DEF StartCall
<1>2. new \in [kind : {"none", "register", "unlink", "delete", "sync"}, db : Dbs \cup {Nowhere},
                       id : Ids, url : Urls \cup {Nowhere}]
  OBVIOUS
<1> HIDE DEF new
<1>3. /\ \A o \in Calls \ {c} : job'[o] = job[o]
      /\ job'[c] = new
      /\ job' \in [Calls -> [kind : {"none", "register", "unlink", "delete", "sync"}, db : Dbs \cup {Nowhere},
                       id : Ids, url : Urls \cup {Nowhere}]]
  BY <1>1, <1>2 DEF Shape, TypeOK
<1>4. \A o \in Calls : alone'[o] => o = c /\ \A other \in Calls : ~Active(other)
  BY <1>1
<1>5. alone' \in [Calls -> BOOLEAN]
  BY <1>1, Zenon
<1>6. Stripping(c) = {}
  BY <1>1 DEF Shape, Fresh
<1>7. /\ repo' \in [Ids -> RepoType] /\ mark' \in [Dbs -> [rev : Nat, live : BOOLEAN, owner : Ids]]
      /\ Tidy' /\ got' \in [Calls -> Nat]
  BY <1>1 DEF Shape, TypeOK, Tidy
<1> QED
  BY <1>3, <1>4, <1>5, <1>6, <1>7 DEF new, Begun

LEMMA StartRegisterOk ==
  ASSUME Shape, NEW c \in Calls, NEW db \in Dbs, NEW url \in Urls, StartRegister(c, db, url)
  PROVE  BeginOk(c)
<1>1. /\ seen' = [seen EXCEPT ![c] = repo] /\ pc' = [pc EXCEPT ![c] = "get"] /\ UNCHANGED strip
  BY DEF StartRegister
<1>2. PICK id \in Ids : StartCall(c, "register", db, id, url)
  <2> DEFINE existing == {o \in Ids : repo[o].live /\ repo[o].url = url}
  <2>1. CASE existing # {}
    <3>1. Min(existing) \in Ids
      BY <2>1, MinOk
    <3>2. StartCall(c, "register", db, Min(existing), url)
      BY <2>1 DEF StartRegister
    <3> QED
      BY <3>1, <3>2
  <2>2. CASE existing = {}
    BY <2>2 DEF StartRegister
  <2> QED
    BY <2>1, <2>2
<1>b. Begun(c, [kind |-> "register", db |-> db, id |-> id, url |-> url])
  BY <1>2, BeginsOk
<1>3. /\ TypeOK' /\ Frame(c) /\ pc'[c] = "get" /\ seen'[c] = repo /\ job'[c].db = db /\ Stripping(c)' = {}
      /\ job'[c].kind = "register" /\ repo' = repo
  <2>1. seen' \in [Calls -> [Ids -> RepoType]] /\ seen'[c] = repo
    BY <1>1, Zenon DEF Shape, TypeOK
  <2>2. pc' \in [Calls -> {"idle", "get", "put", "strip", "over"}] /\ pc'[c] = "get"
        /\ \A o \in Calls \ {c} : pc'[o] = pc[o]
    BY <1>1 DEF Shape, TypeOK
  <2>3. TypeOK'
    BY <1>1, <1>b, <2>1, <2>2 DEF Shape, TypeOK, Begun
  <2>4. Frame(c)
    BY <1>1, <1>b, <2>2 DEF Frame, Begun
  <2>5. Stripping(c)' = {}
    BY <1>1, <1>b DEF Stripping, Begun
  <2>6. job'[c].db = db /\ job'[c].kind = "register"
    BY <1>b DEF Begun
  <2>7. repo' = repo
    BY <1>2 DEF StartCall
  <2> QED
    BY <2>1, <2>2, <2>3, <2>4, <2>5, <2>6, <2>7
<1>4. JobOk(c)' /\ Fresh(c)'
  BY <1>3 DEF JobOk, Fresh
<1>5. \A o \in Ids : strip'[c][o].at = "done"
  BY <1>3 DEF Stripping
<1>6. Own(c)'
  BY <1>3, <1>5 DEF Own, RegisterOwn, StripOwn
<1> QED
  BY <1>b, <1>3, <1>4, <1>6 DEF BeginOk, Begun

LEMMA StartSyncOk ==
  ASSUME Shape, NEW c \in Calls, NEW db \in Dbs, NEW id \in Ids, StartSync(c, id, db)
  PROVE  BeginOk(c)
<1>1. /\ StartCall(c, "sync", db, id, repo[id].url) /\ pc' = [pc EXCEPT ![c] = "get"] /\ UNCHANGED <<seen, strip>>
      /\ Tracking(id, db) /\ repo' = repo
  BY DEF StartSync, StartCall
<1>2. repo[id].url \in Urls \cup {Nowhere}
  BY DEF Shape, TypeOK, RepoType
<1>b. Begun(c, [kind |-> "sync", db |-> db, id |-> id, url |-> repo[id].url])
  BY <1>1, <1>2, BeginsOk
<1>3. pc' \in [Calls -> {"idle", "get", "put", "strip", "over"}] /\ pc'[c] = "get"
        /\ \A o \in Calls \ {c} : pc'[o] = pc[o]
  BY <1>1 DEF Shape, TypeOK
<1>4. TypeOK'
  BY <1>1, <1>b, <1>3 DEF Shape, TypeOK, Begun
<1>5. Frame(c) /\ Stripping(c)' = {} /\ job'[c].db = db /\ job'[c].id = id /\ job'[c].kind = "sync"
  BY <1>1, <1>b, <1>3 DEF Frame, Stripping, Begun
<1>6. JobOk(c)' /\ Fresh(c)'
  BY <1>3, <1>5 DEF JobOk, Fresh
<1>7. \A o \in Ids : strip'[c][o].at = "done"
  BY <1>5 DEF Stripping
<1>8. Tracking(id, db)'
  BY <1>1 DEF Tracking
<1>9. Own(c)'
  BY <1>3, <1>5, <1>7, <1>8 DEF Own, StripOwn, Tracking
<1> QED
  BY <1>b, <1>4, <1>5, <1>6, <1>9 DEF BeginOk, Begun

\* unlinkRepo and deleteRepo begin with the strip of one repository.
LEMMA FirstStrip ==
  ASSUME Shape, NEW c \in Calls, NEW kind \in {"unlink", "delete"}, NEW db \in Dbs, NEW id \in Ids,
         StartCall(c, kind, db, id, repo[id].url), strip' = [strip EXCEPT ![c][id] = Listing(db, id)],
         pc' = [pc EXCEPT ![c] = "strip"],
         seen' \in [Calls -> [Ids -> RepoType]], kind = "unlink" => seen'[c][id] = repo[id]
  PROVE  BeginOk(c)
<1>1. repo[id].url \in Urls \cup {Nowhere} /\ kind \in {"register", "unlink", "delete", "sync"}
  BY DEF Shape, TypeOK, RepoType
<1>b. Begun(c, [kind |-> kind, db |-> db, id |-> id, url |-> repo[id].url])
  BY <1>1, BeginsOk
<1>2. pc' \in [Calls -> {"idle", "get", "put", "strip", "over"}] /\ pc'[c] = "strip"
        /\ \A o \in Calls \ {c} : pc'[o] = pc[o]
  BY DEF Shape, TypeOK
<1>3. Listing(db, id) \in StripType /\ Listing(db, id).at = "list"
  BY DEF Listing, StripType
<1>4. TypeOK'
  BY <1>b, <1>2, <1>3, StripSet DEF Shape, TypeOK, StripType, Begun
<1>5. Frame(c)
  BY <1>b, <1>2, <1>3, StripSet DEF Shape, Frame, Begun
<1>6. job'[c].db = db /\ job'[c].kind = kind /\ repo' = repo
  BY <1>b DEF StartCall, Begun
<1>7. JobOk(c)' /\ Fresh(c)'
  BY <1>2, <1>6 DEF JobOk, Fresh
<1>8. strip'[c][id].at = "list" /\ \A o \in Ids \ {id} : strip'[c][o].at = "done"
  <2>1. \A o \in Ids : strip[c][o].at = "done"
    BY <1>b DEF Stripping, Begun
  <2> QED
    BY <1>3, <2>1, StripSet DEF Shape
<1>9. Own(c)'
  BY <1>2, <1>6, <1>8 DEF Own, StripOwn
<1> QED
  BY <1>b, <1>4, <1>5, <1>7, <1>9 DEF BeginOk, Begun

LEMMA StartUnlinkOk ==
  ASSUME Shape, NEW c \in Calls, NEW db \in Dbs, NEW id \in Ids, StartUnlink(c, id, db)
  PROVE  BeginOk(c)
<1> DEFINE mine == [seen[c] EXCEPT ![id] = repo[id]]
<1>1. /\ seen' = [seen EXCEPT ![c] = mine] /\ strip' = [strip EXCEPT ![c][id] = Listing(db, id)]
      /\ StartCall(c, "unlink", db, id, repo[id].url) /\ pc' = [pc EXCEPT ![c] = "strip"]
  BY DEF StartUnlink
<1>2. mine \in [Ids -> RepoType] /\ mine[id] = repo[id]
  <2>1. seen[c] \in [Ids -> RepoType] /\ repo[id] \in RepoType
    BY DEF Shape, TypeOK
  <2> QED
    BY <2>1, Zenon
<1> HIDE DEF mine
<1>3. seen' \in [Calls -> [Ids -> RepoType]] /\ seen'[c][id] = repo[id]
  BY <1>1, <1>2, Zenon DEF Shape, TypeOK
<1> QED
  BY <1>1, <1>3, FirstStrip

LEMMA StartDeleteOk ==
  ASSUME Shape, NEW c \in Calls, NEW db \in Dbs, NEW id \in Ids, StartDelete(c, id, db)
  PROVE  BeginOk(c)
<1>1. seen' \in [Calls -> [Ids -> RepoType]]
  BY DEF StartDelete, Shape, TypeOK
<1> QED
  BY <1>1, FirstStrip DEF StartDelete

LEMMA StartsOk == ASSUME Shape, NEW c \in Calls, Start(c) PROVE BeginOk(c)
BY StartRegisterOk, StartUnlinkOk, StartDeleteOk, StartSyncOk DEF Start

----------------------------------------------------------------------------
(* What a call that is alone knows stays true of its own steps. *)

LEMMA InvShape == ASSUME Inv PROVE Shape /\ \A c \in Calls : alone[c] => Own(c)
BY DEF Inv, Shape, AloneOk

LEMMA Listed ==
  ASSUME Inv, NEW c \in Calls, alone[c], job[c].kind = "register", pc[c] \in {"get", "put"}
  PROVE  seen[c] = repo
BY InvShape DEF Own, RegisterOwn

LEMMA OwnGetRev ==
  ASSUME Inv, NEW c \in Calls, alone[c], GetRev(c) PROVE Own(c)'
<1>1. UNCHANGED <<repo, mark, job, seen, strip, alone>> /\ pc[c] = "get" /\ pc'[c] = "put"
  BY InvShape DEF GetRev, Shape, TypeOK
<1>2. Own(c)
  BY InvShape
<1>3. \A id \in Ids : StripOwn(c, id)'
  BY <1>1, <1>2 DEF Own, StripOwn, Records
<1> QED
  BY <1>1, <1>2, <1>3 DEF Own, RegisterOwn, Tracking

\* The write of a registration, alone: the document keeps what it tracked, and gains the database.
LEMMA Merged ==
  ASSUME Inv, NEW c \in Calls, alone[c], PutRepo(c)
  PROVE  /\ \A id \in Ids \ {job[c].id} : repo'[id] = repo[id]
         /\ \A id \in Ids, db \in Dbs :
              Tracking(id, db)' <=> Tracking(id, db) \/ (id = job[c].id /\ db = job[c].db)
         /\ seen[c] = repo
<1> DEFINE mine == job[c].id
           doc == RepoDoc(mine, job[c].url, seen[c][mine].targets \cup {job[c].db})
<1>1. repo' = [repo EXCEPT ![mine] = doc]
  BY DEF PutRepo
<1>2. seen[c] = repo
  BY Listed DEF PutRepo
<1>3. mine \in Ids /\ job[c].db \in Dbs
  BY InvShape DEF Shape, TypeOK, JobOk, PutRepo
<1>4. doc.live /\ doc.targets = repo[mine].targets \cup {job[c].db}
  BY <1>2 DEF RepoDoc
<1> HIDE DEF doc
<1>5. repo'[mine] = doc /\ \A other \in Ids \ {mine} : repo'[other] = repo[other]
  BY <1>1, <1>3, InvShape DEF Shape, TypeOK
<1>6. ~repo[mine].live => repo[mine].targets = {}
  BY <1>3, InvShape DEF Shape, Tidy
<1>7. \A id \in Ids, db \in Dbs :
        Tracking(id, db)' <=> Tracking(id, db) \/ (id = mine /\ db = job[c].db)
  BY <1>3, <1>4, <1>5, <1>6 DEF Tracking
<1> QED
  BY <1>2, <1>5, <1>7

LEMMA OwnPutRepo ==
  ASSUME Inv, NEW c \in Calls, alone[c], PutRepo(c) PROVE Own(c)'
<1> DEFINE strips == [other \in Ids |-> IF other \in Others(c) THEN Listing(job[c].db, other) ELSE NoStrip]
<1>1. /\ strip' = [strip EXCEPT ![c] = strips]
      /\ pc'[c] = "strip" /\ UNCHANGED <<mark, job, seen>> /\ job[c].kind = "register"
  BY InvShape DEF PutRepo, Shape, TypeOK
<1>2. \A id \in Ids : IF id \in Others(c) THEN strips[id].at = "list" ELSE strips[id].at = "done"
  BY DEF NoStrip, Listing
<1> HIDE DEF strips
<1>3. strip'[c] = strips
  BY <1>1, InvShape, Zenon DEF Shape, TypeOK
<1>4. job[c].id \in Ids /\ job[c].db \in Dbs
  BY InvShape DEF Shape, TypeOK, JobOk, PutRepo
<1>5. seen[c] = repo /\ \A id \in Ids \ {job[c].id} : repo'[id] = repo[id]
  BY Merged
<1>6. Tracking(job[c].id, job[c].db)'
  <2>1. PICK id \in Ids, db \in Dbs : id = job[c].id /\ db = job[c].db
    BY <1>4
  <2>2. Tracking(id, db)'
    BY <2>1, Merged
  <2> QED
    BY <1>1, <2>1, <2>2 DEF Tracking
<1>7. Others(c) = {id \in Ids \ {job[c].id} : Tracking(id, job[c].db)}
  BY <1>5 DEF Others, Tracking
<1>8. \A id \in Ids : Tracking(id, job[c].db)' /\ id # job[c].id => strip'[c][id].at # "done"
  BY <1>1, <1>2, <1>3, <1>5, <1>7 DEF Tracking
<1>9. \A id \in Ids : StripOwn(c, id)'
  BY <1>1, <1>2, <1>3, <1>5, <1>7 DEF StripOwn
<1>10. RegisterOwn(c)'
  BY <1>1, <1>6, <1>8 DEF RegisterOwn, Tracking
<1> QED
  BY <1>1, <1>9, <1>10 DEF Own

\* A step of the strip of one repository leaves what is known of the others.
LEMMA OwnSlot ==
  ASSUME Inv, NEW c \in Calls, alone[c], NEW id \in Ids, strip[c][id].at # "done",
         UNCHANGED <<job, seen>>, pc'[c] \in {pc[c], "over"},
         \A o \in Ids \ {id} : strip'[c][o] = strip[c][o],
         \A o \in Ids \ {id} : repo'[o] = repo[o],
         \A o \in Ids \ {id} : Records(c, o)' = Records(c, o),
         \A o \in Ids \ {id} : \A db \in Records(c, o) : mark'[db].rev = mark[db].rev,
         strip'[c][id].at = "done" /\ pc'[c] = "strip" => ~Tracking(id, job[c].db)',
         StripOwn(c, id)'
  PROVE  Own(c)'
<1>1. Own(c) /\ Shape
  BY InvShape
<1>2. pc[c] \in {"strip", "over"} /\ job[c].db \in Dbs
  BY <1>1, StripsLate
<1>3. StripOwn(c, id)
  BY <1>1 DEF Own
<1>4. ASSUME NEW o \in Ids PROVE StripOwn(c, o)'
  <2>1. CASE o = id
    BY <2>1
  <2>2. CASE o # id
    <3>1. StripOwn(c, o)
      BY <1>1 DEF Own
    <3>2. strip'[c][o] = strip[c][o] /\ repo'[o] = repo[o] /\ Records(c, o)' = Records(c, o)
      BY <2>2
    <3>3. {<<db, mark[db].rev>> : db \in Records(c, o)}' = {<<db, mark[db].rev>> : db \in Records(c, o)}
      BY <2>2, <3>2
    <3> QED
      BY <3>1, <3>2, <3>3 DEF StripOwn
  <2> QED
    BY <2>1, <2>2
<1>5. ASSUME job[c].kind = "register" PROVE RegisterOwn(c)'
  <2>1. RegisterOwn(c) /\ id # job[c].id /\ job[c].id \in Ids
    BY <1>1, <1>3, <1>5 DEF Own, StripOwn, Shape, TypeOK
  <2>2. Tracking(job[c].id, job[c].db)'
    BY <1>2, <2>1 DEF RegisterOwn, Tracking
  <2>3. ASSUME pc'[c] = "strip", NEW o \in Ids, Tracking(o, job[c].db)', o # job[c].id
        PROVE  strip'[c][o].at # "done"
    <3>1. CASE o = id
      BY <2>3, <3>1
    <3>2. CASE o # id
      BY <1>2, <2>1, <2>3, <3>2 DEF RegisterOwn, Tracking
    <3> QED
      BY <3>1, <3>2
  <2>4. \A o \in Ids : pc'[c] = "strip" /\ Tracking(o, job[c].db)' /\ o # job[c].id => strip'[c][o].at # "done"
    BY <2>3
  <2> QED
    BY <1>2, <2>2, <2>4 DEF RegisterOwn, Tracking
<1>6. job[c].kind # "sync"
  BY <1>3 DEF StripOwn
<1> QED
  BY <1>2, <1>4, <1>5, <1>6 DEF Own

LEMMA OwnListRecords ==
  ASSUME Inv, NEW c \in Calls, alone[c], NEW id \in Ids, ListRecords(c, id) PROVE Own(c)'
<1> DEFINE s == [at |-> IF Records(c, id) = {} THEN "get" ELSE "sweep",
                 rows |-> {<<db, mark[db].rev>> : db \in Records(c, id)}, rev |-> 0]
<1>1. strip' = [strip EXCEPT ![c][id] = s] /\ strip[c][id].at = "list"
      /\ UNCHANGED <<repo, mark, pc, job, seen>>
  BY DEF ListRecords
<1>2. s \in StripType /\ Shape
  BY InvShape, RecordsOk DEF StripType, Shape, TypeOK
<1>3. s.at \in {"get", "sweep"} /\ s.rows = {<<db, mark[db].rev>> : db \in Records(c, id)}
      /\ (s.at = "get" => Records(c, id) = {})
  OBVIOUS
<1> HIDE DEF s
<1>4. strip'[c][id] = s /\ \A o \in Ids \ {id} : strip'[c][o] = strip[c][o]
  BY <1>1, <1>2, StripSet DEF Shape
<1>5. \A o \in Ids : Records(c, o)' = Records(c, o)
  BY <1>1 DEF Records
<1>6. StripOwn(c, id)
  BY InvShape DEF Own
<1>7. {<<db, mark[db].rev>> : db \in Records(c, id)}' = {<<db, mark[db].rev>> : db \in Records(c, id)}
  BY <1>1, <1>5
<1>8. StripOwn(c, id)'
  BY <1>1, <1>3, <1>4, <1>5, <1>6, <1>7 DEF StripOwn
<1>9. \A o \in Ids \ {id} : \A db \in Records(c, o) : mark'[db].rev = mark[db].rev
  BY <1>1
<1>10. strip'[c][id].at # "done" /\ strip[c][id].at # "done" /\ UNCHANGED <<job, seen, pc, repo>>
  BY <1>1, <1>3, <1>4
<1> QED
  BY <1>4, <1>5, <1>8, <1>9, <1>10, OwnSlot

\* The sweep of a call that is alone finds every record as it listed it, and leaves none.
LEMMA Swept ==
  ASSUME Inv, NEW c \in Calls, alone[c], NEW id \in Ids, Sweep(c, id)
  PROVE  /\ strip' = [strip EXCEPT ![c][id] = [at |-> "get", rows |-> {}, rev |-> 0]]
         /\ UNCHANGED <<repo, pc, job, seen, got, alone>>
         /\ \A db \in Dbs : IF db \in Records(c, id) THEN ~mark'[db].live ELSE mark'[db] = mark[db]
<1> DEFINE rows == strip[c][id].rows
           gone == {row \in rows : Current(row)}
<1>1. rows = {<<db, mark[db].rev>> : db \in Records(c, id)}
  BY InvShape DEF Own, StripOwn, Sweep
<1>2. \A row \in rows : Current(row)
  BY <1>1 DEF Current, Records
<1>3. gone = rows
  BY <1>2
<1>4. mark' = [db \in Dbs |-> IF \E row \in rows : row[1] = db THEN Tombstone(NoMark, mark[db]) ELSE mark[db]]
  BY <1>3 DEF Sweep
<1>5. \A db \in Dbs : (\E row \in rows : row[1] = db) <=> db \in Records(c, id)
  <2>1. \A row \in rows : row[1] \in Records(c, id)
    BY <1>1
  <2>2. \A db \in Records(c, id) : <<db, mark[db].rev>> \in rows /\ <<db, mark[db].rev>>[1] = db
    BY <1>1
  <2> QED
    BY <2>1, <2>2
<1>6. \A db \in Dbs : ~Tombstone(NoMark, mark[db]).live
  BY DEF Tombstone, NoMark
<1>7. \A db \in Dbs : IF db \in Records(c, id) THEN ~mark'[db].live ELSE mark'[db] = mark[db]
  BY <1>4, <1>5, <1>6
<1> QED
  BY <1>3, <1>7 DEF Sweep

LEMMA OwnSweep ==
  ASSUME Inv, NEW c \in Calls, alone[c], NEW id \in Ids, Sweep(c, id) PROVE Own(c)'
<1> DEFINE s == [at |-> "get", rows |-> {}, rev |-> 0]
<1>1. /\ strip' = [strip EXCEPT ![c][id] = s]
      /\ UNCHANGED <<repo, pc, job, seen, got, alone>>
      /\ \A db \in Dbs : IF db \in Records(c, id) THEN ~mark'[db].live ELSE mark'[db] = mark[db]
      /\ strip[c][id].at = "sweep"
  BY Swept DEF Sweep
<1>2. s \in StripType /\ s.at = "get" /\ Shape
  BY InvShape DEF StripType
<1> HIDE DEF s
<1>3. strip'[c][id] = s /\ \A o \in Ids \ {id} : strip'[c][o] = strip[c][o]
  BY <1>1, <1>2, StripSet DEF Shape
<1>4. Records(c, id)' = {}
  <2>1. \A db \in Dbs : ~(mark'[db].live /\ mark'[db].owner = id /\ (job[c].kind # "delete" => db = job[c].db))
    BY <1>1 DEF Records
  <2> QED
    BY <1>1, <2>1 DEF Records
<1>5. \A o \in Ids \ {id} : \A db \in Records(c, o) : mark'[db] = mark[db]
  BY <1>1 DEF Records
<1>6. ASSUME NEW o \in Ids \ {id} PROVE Records(c, o)' = Records(c, o)
  <2>1. \A db \in Dbs : mark'[db].live /\ mark'[db].owner = o <=> mark[db].live /\ mark[db].owner = o
    BY <1>1 DEF Records
  <2> QED
    BY <1>1, <2>1 DEF Records
<1>7. StripOwn(c, id)
  BY InvShape DEF Own
<1>8. StripOwn(c, id)'
  BY <1>1, <1>2, <1>3, <1>4, <1>7 DEF StripOwn
<1> QED
  BY <1>1, <1>2, <1>3, <1>5, <1>6, <1>8, OwnSlot

\* A strip that fails: the call is over, and what it claimed stays claimed.
LEMMA OwnFailed ==
  ASSUME Inv, NEW c \in Calls, alone[c], NEW id \in Ids, StripFails(c, id), alone'[c] PROVE Own(c)'
<1>1. Failed(c, id) /\ strip[c][id].at # "done" /\ UNCHANGED <<repo, mark>> /\ Shape
  BY InvShape DEF StripFails
<1>2. Stripping(c) # {id}
  BY <1>1, Forgets DEF Failed, Shape
<1>3. UNCHANGED <<job, seen>> /\ pc' = [pc EXCEPT ![c] = "over"] /\ strip' = [strip EXCEPT ![c][id] = NoStrip]
  BY <1>1, <1>2 DEF Failed, Over
<1>4. NoStrip \in StripType /\ NoStrip.at = "done"
  BY Blanks DEF StripType, NoStrip
<1>5. strip'[c][id].at = "done" /\ \A o \in Ids \ {id} : strip'[c][o] = strip[c][o]
  BY <1>1, <1>3, <1>4, StripSet DEF Shape
<1>6. \A o \in Ids : Records(c, o)' = Records(c, o)
  BY <1>1, <1>3 DEF Records
<1>7. StripOwn(c, id)'
  BY <1>5 DEF StripOwn
<1>8. pc'[c] = "over"
  BY <1>1, <1>3 DEF Shape, TypeOK
<1>9. \A o \in Ids \ {id} : repo'[o] = repo[o] /\ \A db \in Records(c, o) : mark'[db].rev = mark[db].rev
  BY <1>1
<1> QED
  BY <1>1, <1>3, <1>5, <1>6, <1>7, <1>8, <1>9, OwnSlot

\* A strip that has been carried out.
LEMMA OwnStripped ==
  ASSUME Inv, NEW c \in Calls, alone[c], NEW id \in Ids, Stripped(c, id), strip[c][id].at # "done", alone'[c],
         UNCHANGED mark, \A o \in Ids \ {id} : repo'[o] = repo[o], ~Tracking(id, job[c].db)'
  PROVE  Own(c)'
<1>1. Shape
  BY InvShape
<1>2. UNCHANGED <<job, seen, pc>> /\ strip' = [strip EXCEPT ![c][id] = NoStrip]
  BY <1>1, Forgets DEF Stripped, Shape
<1>3. NoStrip \in StripType /\ NoStrip.at = "done"
  BY Blanks DEF StripType, NoStrip
<1>4. strip'[c][id].at = "done" /\ \A o \in Ids \ {id} : strip'[c][o] = strip[c][o]
  BY <1>1, <1>2, <1>3, StripSet DEF Shape
<1>5. \A o \in Ids : Records(c, o)' = Records(c, o)
  BY <1>2 DEF Records
<1>6. StripOwn(c, id)'
  BY <1>4 DEF StripOwn
<1>7. pc'[c] = pc[c] /\ \A o \in Ids \ {id} : \A db \in Records(c, o) : mark'[db].rev = mark[db].rev
  BY <1>2
<1> QED
  BY <1>2, <1>4, <1>5, <1>6, <1>7, OwnSlot

LEMMA OwnGetVictim ==
  ASSUME Inv, NEW c \in Calls, alone[c], NEW id \in Ids, GetVictim(c, id), alone'[c] PROVE Own(c)'
<1>1. strip[c][id].at = "get" /\ UNCHANGED <<repo, mark>> /\ Shape
  BY InvShape DEF GetVictim
<1>2. CASE Remaining(c, id) = {} /\ ~repo[id].live
  <2>1. Stripped(c, id)
    BY <1>2 DEF GetVictim
  <2>2. job' = job
    BY <1>1, <2>1, Forgets DEF Stripped, Shape
  <2>3. ~Tracking(id, job[c].db)'
    BY <1>1, <1>2, <2>2 DEF Tracking
  <2> QED
    BY <1>1, <2>1, <2>3, OwnStripped
<1>3. CASE ~(Remaining(c, id) = {} /\ ~repo[id].live)
  <2> DEFINE s == [at |-> "write", rows |-> {}, rev |-> Carried(repo[id], seen[c][id].rev)]
  <2>1. strip' = [strip EXCEPT ![c][id] = s] /\ UNCHANGED <<pc, job, seen, got, alone>>
    BY <1>3 DEF GetVictim
  <2>2. s \in StripType /\ s.at = "write"
    BY <1>1 DEF StripType, Carried, Shape, TypeOK, RepoType
  <2> HIDE DEF s
  <2>3. strip'[c][id] = s /\ \A o \in Ids \ {id} : strip'[c][o] = strip[c][o]
    BY <1>1, <2>1, <2>2, StripSet DEF Shape
  <2>4. \A o \in Ids : Records(c, o)' = Records(c, o)
    BY <1>1, <2>1 DEF Records
  <2>5. StripOwn(c, id)
    BY InvShape DEF Own
  <2>6. StripOwn(c, id)'
    BY <1>1, <2>1, <2>2, <2>3, <2>4, <2>5 DEF StripOwn
  <2>7. \A o \in Ids \ {id} : repo'[o] = repo[o] /\ \A db \in Records(c, o) : mark'[db].rev = mark[db].rev
    BY <1>1
  <2>8. strip'[c][id].at # "done" /\ strip[c][id].at # "done" /\ pc'[c] = pc[c]
    BY <1>1, <2>1, <2>2, <2>3
  <2> QED
    BY <2>1, <2>3, <2>4, <2>6, <2>7, <2>8, OwnSlot
<1> QED
  BY <1>2, <1>3

\* The document a strip writes, alone, differs in the databases the strip is for.
LEMMA Taken ==
  ASSUME Inv, NEW c \in Calls, NEW id \in Ids, WriteVictim(c, id)
  PROVE  /\ \A o \in Ids \ {id} : repo'[o] = repo[o]
         /\ \A db \in Dbs : Tracking(id, db)' <=> db \in Remaining(c, id)
<1>1. repo' = [repo EXCEPT ![id] = Victim(c, id)]
  BY VictimWritten
<1>2. repo'[id] = Victim(c, id) /\ \A o \in Ids \ {id} : repo'[o] = repo[o]
  BY <1>1, InvShape DEF Shape, TypeOK
<1> QED
  BY <1>2, InvShape, VictimOk DEF Tracking

LEMMA OwnWriteVictim ==
  ASSUME Inv, NEW c \in Calls, alone[c], NEW id \in Ids, WriteVictim(c, id), alone'[c] PROVE Own(c)'
<1>1. Stripped(c, id) /\ strip[c][id].at # "done" /\ UNCHANGED mark /\ Shape
  BY VictimWritten, InvShape
<1>2. job[c].db \in Dbs /\ job[c].db \notin Remaining(c, id)
  BY <1>1, StripsLate DEF Remaining
<1>3. job' = job
  BY <1>1, Forgets DEF Stripped, Shape
<1>4. ~Tracking(id, job[c].db)'
  BY <1>2, <1>3, Taken DEF Tracking
<1> QED
  BY <1>1, <1>4, Taken, OwnStripped

LEMMA OwnKept ==
  ASSUME Inv, NEW c \in Calls, alone[c], Step(c), alone'[c] PROVE Own(c)'
<1>1. ASSUME Over(c), Forgotten(c) PROVE FALSE
  BY <1>1, InvShape, Forgets DEF Shape
<1>2. CASE GetRev(c)
  BY <1>2, OwnGetRev
<1>3. CASE PutRepo(c)
  BY <1>3, OwnPutRepo
<1>4. CASE PutMark(c) \/ Finish(c) \/ CallFails(c) \/ Close(c)
  BY <1>1, <1>4 DEF PutMark, Finish, CallFails, Close
<1>5. ASSUME NEW id \in Ids, StripStep(c, id) PROVE Own(c)'
  BY <1>5, OwnListRecords, OwnSweep, OwnGetVictim, OwnWriteVictim, OwnFailed DEF StripStep
<1> QED
  BY <1>2, <1>3, <1>4, <1>5 DEF Step

----------------------------------------------------------------------------
(* The invariant. *)

LEMMA InitOk == Init => Inv
<1> SUFFICES ASSUME Init PROVE Inv
  OBVIOUS
<1>1. repo \in [Ids -> RepoType] /\ mark \in [Dbs -> [rev : Nat, live : BOOLEAN, owner : Ids]] /\ Tidy
  <2>1. Registered \subseteq RepoType /\ \A doc \in Registered : doc.live
    <3>1. {1} \subseteq Nat /\ {TRUE} \subseteq BOOLEAN /\ Urls \subseteq Urls \cup {Nowhere}
          /\ (SUBSET Dbs) \ {{}} \subseteq SUBSET Dbs
      OBVIOUS
    <3>2. ASSUME NEW doc \in Registered PROVE doc \in RepoType /\ doc.live
      BY <3>1, Zenon DEF Registered, RepoType
    <3> QED
      BY <3>2
  <2>2. Marked \subseteq [rev : Nat, live : BOOLEAN, owner : Ids]
    <3>1. {1} \subseteq Nat /\ {TRUE} \subseteq BOOLEAN
      OBVIOUS
    <3>2. ASSUME NEW doc \in Marked PROVE doc \in [rev : Nat, live : BOOLEAN, owner : Ids]
      BY <3>1, Zenon DEF Marked
    <3> QED
      BY <3>2
  <2>3. Unwritten.targets = {}
    BY DEF Unwritten
  <2>4. \A id \in Ids : repo[id] = Unwritten \/ repo[id] \in Registered
    BY DEF Init
  <2>5. \A db \in Dbs : mark[db] = NoMark \/ mark[db] \in Marked
    BY DEF Init
  <2>6. repo = [id \in Ids |-> repo[id]] /\ mark = [db \in Dbs |-> mark[db]]
    BY DEF Init
  <2>7. repo \in [Ids -> RepoType]
    BY <2>1, <2>4, <2>6, Blanks, Zenon
  <2>8. mark \in [Dbs -> [rev : Nat, live : BOOLEAN, owner : Ids]]
    BY <2>2, <2>5, <2>6, Blanks, Zenon
  <2>9. Tidy
    BY <2>1, <2>3, <2>4 DEF Tidy
  <2> QED
    BY <2>7, <2>8, <2>9
<1>2. NoStrip.at = "done" /\ \A c \in Calls : pc[c] = "idle" /\ \A id \in Ids : strip[c][id] = NoStrip
  BY DEF Init, NoStrip
<1>3. TypeOK
  <2>1. /\ pc \in [Calls -> {"idle", "get", "put", "strip", "over"}] /\ got \in [Calls -> Nat]
        /\ alone \in [Calls -> BOOLEAN]
    BY DEF Init
  <2>2. [id \in Ids |-> Unwritten] \in [Ids -> RepoType] /\ [id \in Ids |-> NoStrip] \in [Ids -> StripType]
    BY Blanks DEF StripType
  <2>3. seen \in [Calls -> [Ids -> RepoType]] /\ strip \in [Calls -> [Ids -> StripType]]
    BY <2>2 DEF Init
  <2>4. job \in [Calls -> [kind : {"none", "register", "unlink", "delete", "sync"}, db : Dbs \cup {Nowhere}, id : Ids,
                       url : Urls \cup {Nowhere}]]
    BY JobBlank DEF Init
  <2> QED
    BY <1>1, <2>1, <2>3, <2>4 DEF TypeOK, StripType
<1>4. ASSUME NEW c \in Calls PROVE JobOk(c) /\ Fresh(c) /\ AloneOk(c)
  <2>1. Stripping(c) = {} /\ pc[c] = "idle" /\ ~alone[c]
    BY <1>2 DEF Stripping, Init
  <2> QED
    BY <2>1 DEF JobOk, Fresh, AloneOk
<1> QED
  BY <1>1, <1>3, <1>4 DEF Inv

\* What the frame of a step says of the calls that do not take it.
LEMMA OthersKept ==
  ASSUME Shape, NEW c \in Calls, Frame(c), NEW o \in Calls \ {c}, alone'[o] => alone[o]
  PROVE  JobOk(o)' /\ Fresh(o)' /\ (Active(o)' <=> Active(o))
BY DEF Shape, Frame, JobOk, Fresh, Stripping, Active

LEMMA StepKeeps == ASSUME Inv, NEW c \in Calls, Step(c) PROVE Inv'
<1>1. Shape /\ StepOk(c) /\ Active(c)
  BY InvShape, StepsOk
<1>2. \A o \in Calls \ {c} : JobOk(o)' /\ Fresh(o)' /\ (Active(o)' <=> Active(o))
  BY <1>1, OthersKept DEF StepOk
<1>3. ASSUME NEW o \in Calls, alone'[o] PROVE AloneOk(o)'
  <2>1. alone[o]
    BY <1>1, <1>3 DEF StepOk
  <2>2. o = c
    BY <1>1, <2>1 DEF Inv, AloneOk
  <2>3. Own(c)'
    BY <1>3, <2>1, <2>2, OwnKept
  <2>4. \A other \in Calls \ {c} : ~Active(other)'
    BY <1>2, <2>1, <2>2 DEF Inv, AloneOk
  <2> QED
    BY <2>2, <2>3, <2>4 DEF AloneOk
<1>4. \A o \in Calls : AloneOk(o)'
  BY <1>3 DEF AloneOk
<1> QED
  BY <1>1, <1>2, <1>4 DEF Inv, StepOk

LEMMA StartKeeps == ASSUME Inv, NEW c \in Calls, Start(c) PROVE Inv'
<1>1. Shape /\ BeginOk(c)
  BY InvShape, StartsOk
<1>2. ASSUME NEW o \in Calls \ {c} PROVE JobOk(o)' /\ Fresh(o)' /\ (Active(o)' <=> Active(o))
  BY <1>1, OthersKept DEF BeginOk
<1>3. ASSUME NEW o \in Calls, alone'[o] PROVE AloneOk(o)'
  <2>1. o = c /\ (\A other \in Calls : ~Active(other)) /\ Own(c)'
    BY <1>1, <1>3 DEF BeginOk
  <2> QED
    BY <1>2, <2>1 DEF AloneOk
<1>4. \A o \in Calls : AloneOk(o)'
  BY <1>3 DEF AloneOk
<1> QED
  BY <1>1, <1>2, <1>4 DEF Inv, BeginOk

LEMMA NextKeeps == Inv /\ [Next]_vars => Inv'
<1> SUFFICES ASSUME Inv, [Next]_vars PROVE Inv'
  OBVIOUS
<1>1. CASE Next
  BY <1>1, StepKeeps, StartKeeps DEF Next
<1>2. CASE UNCHANGED vars
  BY <1>2 DEF vars, Inv, TypeOK, Tidy, JobOk, Fresh, AloneOk, Own, RegisterOwn, StripOwn, Stripping, Active,
              Tracking, Records
<1> QED
  BY <1>1, <1>2

LEMMA Invariant == Spec => []Inv
BY InitOk, NextKeeps, PTL DEF Spec

\* Every variable keeps its shape: the documents and records of CouchCompanionStore, and what a
\* call has listed, read and still has to strip.
THEOREM RegistryTypes == Spec => []TypeOK
<1>1. Inv => TypeOK
  BY DEF Inv
<1> QED
  BY <1>1, Invariant, PTL

----------------------------------------------------------------------------
(* What one call promises. *)

\* registerRepo alone self-heals: however many repositories claimed the database, through earlier
\* races and half-failed calls, when the call succeeds the one it registered is the only one.
THEOREM RegistrationHeals == Spec => RegisterSelfHeals
<1> DEFINE Heals == \A c \in Calls : alone[c] /\ Finish(c) /\ job[c].kind = "register" => Claims(job[c].db) = {job[c].id}
<1>1. ASSUME Inv, NEW c \in Calls, alone[c], Finish(c), job[c].kind = "register"
      PROVE  Claims(job[c].db) = {job[c].id}
  <2>1. RegisterOwn(c) /\ pc[c] = "strip" /\ Stripping(c) = {} /\ job[c].id \in Ids
    BY <1>1, InvShape DEF Own, Finish, Shape, TypeOK
  <2>2. \A id \in Ids : Tracking(id, job[c].db) <=> id = job[c].id
    BY <2>1 DEF RegisterOwn, Stripping
  <2> QED
    BY <2>1, <2>2 DEF Claims
<1>2. Inv => [Heals]_vars
  BY <1>1
<1> QED
  BY <1>2, Invariant, PTL DEF RegisterSelfHeals

\* How a step of a call that is alone changes who tracks what.
LEMMA Claiming ==
  ASSUME Inv, NEW c \in Calls, alone[c], Step(c), NEW db \in Dbs, NEW id \in Ids,
         ~(Tracking(id, db)' <=> Tracking(id, db))
  PROVE  \/ /\ job[c].kind = "register" /\ id = job[c].id /\ db = job[c].db /\ Tracking(id, db)'
         \/ /\ job[c].kind \in {"register", "unlink", "delete"}
            /\ job[c].kind = "register" => id # job[c].id
            /\ job[c].kind # "delete" => db = job[c].db
            /\ ~Tracking(id, db)' /\ Records(c, id) = {} /\ mark' = mark
<1>1. CASE PutRepo(c)
  BY <1>1, Merged DEF PutRepo
<1>2. ASSUME NEW o \in Ids, WriteVictim(c, o)
      PROVE  /\ job[c].kind \in {"register", "unlink", "delete"}
             /\ job[c].kind = "register" => id # job[c].id
             /\ job[c].kind # "delete" => db = job[c].db
             /\ ~Tracking(id, db)' /\ Records(c, id) = {} /\ mark' = mark
  <2>1. strip[c][o].at = "write" /\ mark' = mark
    BY <1>2, VictimWritten
  <2>2. o = id /\ (Tracking(id, db)' <=> db \in Remaining(c, id))
    BY <1>2, Taken DEF Tracking
  <2>3. StripOwn(c, id)
    BY InvShape DEF Own
  <2>4. job[c].kind # "delete" => (Tracking(id, db)' <=> repo[id].targets # {} /\ db \in repo[id].targets /\ db # job[c].db)
    BY <2>1, <2>2, <2>3 DEF StripOwn, Remaining
  <2>5. ~repo[id].live => repo[id].targets = {}
    BY InvShape DEF Shape, Tidy
  <2>6. job[c].kind = "delete" => ~Tracking(id, db)'
    BY <2>2 DEF Remaining
  <2> QED
    BY <2>1, <2>2, <2>3, <2>4, <2>5, <2>6 DEF StripOwn, Tracking
<1>3. CASE repo' = repo
  BY <1>3 DEF Tracking
<1> QED
  BY <1>1, <1>2, <1>3 DEF Step, StripStep, GetRev, PutMark, Finish, CallFails, Close, ListRecords, Sweep, GetVictim, StripFails

\* A registration, alone, never leaves its database without a repository, wherever it fails; and
\* neither it nor an unlinking touches another database.
THEOREM NobodyLosesTrack == Spec => NobodyUntracked
<1> DEFINE Never == \A c \in Calls : alone[c] /\ job[c].kind = "register" /\ Step(c) =>
                      \A db \in Dbs : db = job[c].db /\ Claims(db) # {} => Claims(db)' # {}
           Kept == \A c \in Calls : alone[c] /\ job[c].kind # "delete" /\ Step(c) =>
                      \A db \in Dbs \ {job[c].db} : Claims(db)' = Claims(db)
<1>1. ASSUME Inv, NEW c \in Calls, alone[c], job[c].kind = "register", Step(c), NEW db \in Dbs,
             db = job[c].db, Claims(db) # {}
      PROVE  Claims(db)' # {}
  <2>1. PICK id \in Ids : Tracking(id, db)
    BY <1>1 DEF Claims
  <2>2. PICK mine \in Ids : job[c].id = mine
    BY <1>1, InvShape DEF Shape, TypeOK
  <2>3. pc[c] \in {"strip", "over"} => Tracking(mine, db)
    BY <1>1, <2>2, InvShape DEF Own, RegisterOwn
  <2>4. CASE pc[c] \in {"strip", "over"}
    <3>1. Tracking(mine, db)'
      BY <1>1, <2>2, <2>3, <2>4, Claiming
    <3> QED
      BY <3>1 DEF Claims
  <2>5. CASE pc[c] \notin {"strip", "over"}
    <3>1. PutRepo(c) \/ repo' = repo
      <4>1. ASSUME NEW o \in Ids, StripStep(c, o) PROVE FALSE
        BY <1>1, <2>5, <4>1, InvShape, StripsLate
           DEF StripStep, ListRecords, Sweep, GetVictim, WriteVictim, StripFails
      <4> QED
        BY <1>1, <4>1 DEF Step, GetRev, PutMark, Finish, CallFails, Close
    <3>2. CASE PutRepo(c)
      <4>1. Tracking(mine, db)'
        BY <1>1, <2>2, <3>2, Merged
      <4> QED
        BY <4>1 DEF Claims
    <3>3. CASE repo' = repo
      BY <2>1, <3>3 DEF Claims, Tracking
    <3> QED
      BY <3>1, <3>2, <3>3
  <2> QED
    BY <2>4, <2>5
<1>2. ASSUME Inv, NEW c \in Calls, alone[c], job[c].kind # "delete", Step(c), NEW db \in Dbs \ {job[c].db}
      PROVE  Claims(db)' = Claims(db)
  BY <1>2, Claiming DEF Claims, Tracking
<1>3. Inv => [Never]_vars /\ [Kept]_vars
  BY <1>1, <1>2
<1>4. Spec => [][Never]_vars /\ [][Kept]_vars
  BY <1>3, Invariant, PTL
<1> QED
  BY <1>4 DEF NobodyUntracked, RegisterNeverUntracks, OtherDatabasesKept

\* No step of a call that is alone leaves a sync: or conflict: record naming a repository that does
\* not track its database: the records go before the document does.
THEOREM NoRecordIsStranded == Spec => NothingStranded
<1> DEFINE Safe == \A c \in Calls : alone[c] /\ Step(c) => \A db \in Dbs : Stranded(db)' => Stranded(db)
<1>1. ASSUME Inv, NEW c \in Calls, alone[c], Step(c), NEW db \in Dbs, Stranded(db)', ~Stranded(db)
      PROVE  FALSE
  <2>1. PICK o \in Ids : mark'[db].live /\ mark'[db].owner = o /\ ~Tracking(o, db)'
    BY <1>1, StepsOk, InvShape DEF Stranded, Tracking, StepOk, TypeOK
  <2>2. CASE mark'[db] = mark[db]
    <3>1. mark[db].live /\ mark[db].owner = o /\ Tracking(o, db)
      BY <1>1, <2>1, <2>2 DEF Stranded, Tracking
    <3>2. Records(c, o) = {} /\ (job[c].kind # "delete" => db = job[c].db)
      BY <1>1, <2>1, <3>1, Claiming
    <3> QED
      BY <3>1, <3>2 DEF Records
  <2>3. CASE PutMark(c)
    <3>1. Tracking(job[c].id, job[c].db)
      BY <1>1, <2>3, InvShape DEF PutMark, Own
    <3>2. mark' = [mark EXCEPT ![job[c].db] = [rev |-> mark[job[c].db].rev + 1, live |-> TRUE, owner |-> job[c].id]]
          /\ repo' = repo
      BY <2>3 DEF PutMark
    <3>3. job[c].db \in Dbs
      BY <1>1, <2>3, InvShape DEF Shape, JobOk, PutMark
    <3>4. db = job[c].db => mark'[db].owner = job[c].id
      BY <1>1, <3>2, <3>3, InvShape DEF Shape, TypeOK
    <3>5. db # job[c].db => mark'[db] = mark[db]
      BY <1>1, <3>2, <3>3, InvShape DEF Shape, TypeOK
    <3> QED
      BY <2>1, <2>2, <3>1, <3>2, <3>4, <3>5 DEF Tracking
  <2>4. ASSUME NEW id \in Ids, Sweep(c, id) PROVE FALSE
    BY <1>1, <2>1, <2>2, <2>4, Swept
  <2>5. CASE mark' = mark
    BY <2>2, <2>5
  <2> QED
    BY <1>1, <2>3, <2>4, <2>5
       DEF Step, StripStep, GetRev, PutRepo, Finish, CallFails, Close, ListRecords, GetVictim, WriteVictim, StripFails
<1>2. Inv => [Safe]_vars
  BY <1>1
<1> QED
  BY <1>2, Invariant, PTL DEF NothingStranded
=============================================================================
