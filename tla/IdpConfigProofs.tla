-------------------------- MODULE IdpConfigProofs --------------------------
(***************************************************************************)
(* Proofs about IdpConfig, for any providers, keys and calls: the types,   *)
(* that nothing is advertised before it can be verified and read, and,     *)
(* for calls that do not overlap, that a delete takes no origin away from  *)
(* a provider that is left, that what ends well leaves a whole provider    *)
(* (Solo, the invariant of one call at a time), and that none is lost.     *)
(***************************************************************************)
EXTENDS IdpConfig, TLAPS

\* What a call holds where it is.
CallOk(c) ==
  LET call_c == call[c] IN
  /\ call_c.kind \in {"create", "update", "refresh", "delete", "apply"} => call_c.iss \in Issuers
  /\ call_c.kind \in {"create", "update"} => call_c.meta \in Metas
  /\ call_c.pc = "discover" => call_c.kind \in {"create", "refresh"}
  /\ call_c.pc = "read" => call_c.kind \in {"create", "update", "refresh", "delete", "apply"}
  /\ call_c.pc \in {"write", "putKey", "rewrite"} => call_c.kind \in {"create", "update", "refresh"}
  /\ call_c.pc \in {"write", "putKey", "rewrite"} \cup WireKeys => call_c.meta \in Metas
  /\ call_c.pc \in {"discover", "write", "putKey"} /\ call_c.kind = "refresh" => call_c.meta \in Metas
  /\ call_c.pc = "putKey" => call_c.half \in Kids
  /\ call_c.pc \in WireKeys => call_c.kind = "apply"
  /\ call_c.pc = "list" => call_c.kind \in {"delete", "apply", "allow", "disallow"}
  /\ call_c.pc \in {"policy", "csp"} => call_c.kind \in {"delete", "allow", "disallow"}
  /\ call_c.pc = "csp" => call_c.policy \in SUBSET Origins /\ call_c.origins \in SUBSET Origins

\* How far an apply's configuration must have come for a call to be where it is.  Nothing is
\* ever unset or closed again, so no other call can undo it.
ApplyOk(c) ==
  /\ At(c, "name") => wiring["required"] # Unset
  /\ At(c, "path") => wiring["required"] # Unset /\ wiring["name"] # Unset
  /\ At(c, "handlers") => wiring["required"] # Unset /\ wiring["name"] # Unset /\ wiring["path"] # Unset
  /\ At(c, "list") /\ call[c].kind = "apply" => Wired
  /\ call[c].pc \in {"createDb", "openDb", "getDoc", "putDoc"} => Wired
  /\ call[c].pc \in {"getDoc", "putDoc"} => idpDb = "open"

\* The inductive invariant.
Inv == TypeOK /\ AdvertisedIsWired /\ \A c \in Calls : CallOk(c) /\ ApplyOk(c)

-----------------------------------------------------------------------------
(* Types *)

LEMMA IdleTyped == Idle \in CallType /\ Over \in CallType
  BY DEF Idle, Over, CallType, PCs, WireKeys, Entry

LEMMA BecomeTyped ==
  ASSUME TypeOK, NEW c \in Calls, NEW next \in CallType, Become(c, next)
  PROVE  call' \in [Calls -> CallType]
  BY DEF TypeOK, Become

\* A call that has just begun.
LEMMA BeginTyped ==
  ASSUME NEW r \in CallType, NEW where \in PCs,
         NEW kind \in {"create", "update", "refresh", "delete", "apply", "allow", "disallow"},
         NEW i \in Issuers \cup {Unset}, NEW m \in Metas \cup {Unset}
  PROVE  [r EXCEPT !.pc = where, !.kind = kind, !.iss = i, !.meta = m] \in CallType
  BY DEF CallType

LEMMA StartTyped ==
  ASSUME TypeOK, NEW c \in Calls,
         NEW kind \in {"create", "update", "refresh", "delete", "apply", "allow", "disallow"},
         NEW where \in PCs, NEW i \in Issuers \cup {Unset}, NEW m \in Metas \cup {Unset},
         Start(c, kind, where, i, m)
  PROVE  TypeOK'
<1>1. [Idle EXCEPT !.pc = where, !.kind = kind, !.iss = i, !.meta = m] \in CallType
  BY IdleTyped, BeginTyped
<1>2. call' \in [Calls -> CallType]
  BY <1>1, BecomeTyped DEF Start
<1> QED BY <1>2 DEF Start, TypeOK, config, discovery

LEMMA BeginsTyped == ASSUME TypeOK, NEW c \in Calls, Begin(c) PROVE TypeOK'
<1>0. {"discover", "read", "list", "policy"} \subseteq PCs
  BY DEF PCs
<1>1. CASE StartCreate(c) BY <1>0, <1>1, StartTyped DEF StartCreate
<1>2. CASE StartUpdate(c) BY <1>0, <1>2, StartTyped DEF StartUpdate, Listed
<1>3. CASE StartOther(c) BY <1>0, <1>3, StartTyped DEF StartOther, Listed
<1>4. CASE StartSwitch(c) BY <1>0, <1>4, StartTyped DEF StartSwitch
<1> QED BY <1>1, <1>2, <1>3, <1>4 DEF Begin

\* What Become does to the calls.
LEMMA BecomeCalls ==
  ASSUME TypeOK, NEW c \in Calls, NEW next, Become(c, next)
  PROVE  call'[c] = next /\ \A d \in Calls \ {c} : call'[d] = call[d]
  BY DEF TypeOK, Become

LEMMA StepTyped == ASSUME TypeOK, NEW c \in Calls, CallOk(c), Step(c) PROVE TypeOK'
<1>0. call[c] \in CallType
  BY DEF TypeOK
<1> DEFINE Became == \E next \in CallType : Become(c, next)
<1>t. Became => call' \in [Calls -> CallType]
  BY BecomeTyped
<1>g. ASSUME NEW where \in PCs, GoTo(c, where) PROVE Became
  BY <1>0, <1>g DEF GoTo, CallType
<1>a. /\ DOMAIN wiring = WireKeys
      /\ PCs = PCs \cup WireKeys
  BY DEF TypeOK, PCs
<1>1. CASE Discover(c)
  <2>1. KidsOf[call[c].iss] \subseteq Kids
    BY <1>1, KidsAssumption DEF CallOk, Discover, At
  <2> DEFINE next(fresh) ==
        [call[c] EXCEPT !.pc = IF call[c].kind = "create" THEN "read" ELSE "write",
                        !.fresh = fresh, !.todo = fresh, !.retired = @ \ fresh]
  <2>2. ASSUME NEW fresh \in SUBSET Kids PROVE next(fresh) \in CallType
    <3>1. (IF call[c].kind = "create" THEN "read" ELSE "write") \in PCs
      BY DEF PCs
    <3> QED BY <1>0, <3>1 DEF CallType
  <2>3. \E fresh \in SUBSET Kids : Become(c, next(fresh))
    BY <1>1, <2>1 DEF Discover
  <2> HIDE DEF next
  <2>4. Became
    BY <2>2, <2>3
  <2> HIDE DEF Became
  <2> QED BY <1>t, <1>1, <2>4 DEF Discover, TypeOK, config, discovery
<1>2. CASE ReadConfig(c)
  <2>0. KeysOf(call[c].iss) \subseteq Kids /\ MetasOf(call[c].iss) \subseteq Metas
    BY DEF KeysOf, MetasOf, TypeOK, Entry
  <2>1. ASSUME Become(c, Over) PROVE Became
    BY <2>1, IdleTyped
  <2>2. ASSUME GoTo(c, "write") PROVE Became
    BY <2>2, <1>g DEF PCs
  <2>3. ASSUME ReadRefresh(c) PROVE Became
    <3> DEFINE next(m) == [call[c] EXCEPT !.pc = "discover", !.meta = m, !.retired = KeysOf(call[c].iss)]
    <3>1. ASSUME NEW m \in Metas PROVE next(m) \in CallType
      BY <1>0, <2>0 DEF CallType, PCs
    <3>2. \E m \in Metas : Become(c, next(m))
      BY <2>0, <2>3 DEF ReadRefresh
    <3> HIDE DEF next
    <3> QED BY <3>1, <3>2
  <2>4. ASSUME ReadUpdate(c) PROVE Became
    <3> DEFINE next == [call[c] EXCEPT !.pc = "rewrite", !.todo = KeysOf(call[c].iss)]
    <3>1. next \in CallType
      BY <1>0, <2>0 DEF CallType, PCs
    <3>2. Become(c, next)
      BY <2>4 DEF ReadUpdate
    <3> HIDE DEF next
    <3> QED BY <3>1, <3>2
  <2>5. ASSUME ReadDelete(c) PROVE Became
    <3> DEFINE next == [call[c] EXCEPT !.pc = IF KeysOf(call[c].iss) = {} THEN "list" ELSE "retire",
                                       !.retired = KeysOf(call[c].iss)]
    <3>0. (IF KeysOf(call[c].iss) = {} THEN "list" ELSE "retire") \in PCs
      BY DEF PCs
    <3>1. next \in CallType
      BY <1>0, <2>0, <3>0 DEF CallType
    <3>2. Become(c, next)
      BY <2>5 DEF ReadDelete
    <3> HIDE DEF next
    <3> QED BY <3>1, <3>2
  <2>6. ASSUME ReadApply(c) PROVE Became
    <3> DEFINE next(m) == [call[c] EXCEPT !.pc = "required", !.meta = m, !.ok = Installed(call[c].iss)]
    <3>0. Installed(call[c].iss) \in BOOLEAN
      BY DEF Installed
    <3>1. ASSUME NEW m \in Metas PROVE next(m) \in CallType
      BY <1>0, <3>0 DEF CallType, PCs, WireKeys
    <3>2. \E m \in Metas : Become(c, next(m))
      BY <2>0, <2>6 DEF ReadApply
    <3> HIDE DEF next
    <3> QED BY <3>1, <3>2
  <2>7. Become(c, Over) \/ GoTo(c, "write") \/ ReadRefresh(c) \/ ReadUpdate(c) \/ ReadDelete(c) \/ ReadApply(c)
    BY <1>2 DEF ReadConfig, ReadCreate, CallOk, At
  <2>8. Became
    BY <2>1, <2>2, <2>3, <2>4, <2>5, <2>6, <2>7
  <2> HIDE DEF Became
  <2> QED BY <1>t, <1>2, <2>8 DEF ReadConfig, TypeOK, config, discovery
<1>3. CASE PutEntry(c)
  <2>1. PICK k \in call[c].todo :
          /\ oidc' = [oidc EXCEPT ![k] = [iss |-> call[c].iss, meta |-> call[c].meta]]
          /\ Become(c, [call[c] EXCEPT !.pc = "putKey", !.half = k])
    BY <1>3 DEF PutEntry
  <2>2. k \in Kids
    BY <1>0 DEF CallType
  <2>3. oidc' \in [Kids -> Entry \cup {NoEntry}]
    BY <1>3, <2>1, <2>2 DEF TypeOK, Entry, CallOk, PutEntry, At
  <2> DEFINE next == [call[c] EXCEPT !.pc = "putKey", !.half = k]
  <2>5. next \in CallType
    <3>1. "putKey" \in PCs
      BY DEF PCs
    <3> QED BY <1>0, <2>2, <3>1 DEF CallType
  <2>6. Become(c, next)
    BY <2>1
  <2> HIDE DEF next
  <2>4. Became
    BY <2>5, <2>6
  <2> HIDE DEF Became
  <2> QED BY <1>t, <1>3, <2>3, <2>4 DEF PutEntry, TypeOK, discovery
<1>4. CASE PutKey(c)
  <2>1. keys' \in [Kids -> Issuers \cup {NoKey}]
    BY <1>4 DEF PutKey, TypeOK, CallOk, At
  <2> DEFINE next ==
        [call[c] EXCEPT !.todo = @ \ {call[c].half}, !.half = Unset,
           !.pc = IF call[c].todo # {call[c].half} THEN "write"
                  ELSE IF call[c].retired # {} THEN "retire" ELSE "done"]
  <2>5. (IF call[c].todo # {call[c].half} THEN "write"
         ELSE IF call[c].retired # {} THEN "retire" ELSE "done") \in PCs
    BY DEF PCs
  <2>3. next \in CallType
    BY <1>0, <2>5 DEF CallType
  <2>4. Become(c, next)
    BY <1>4 DEF PutKey
  <2> HIDE DEF next
  <2>2. Became
    BY <2>3, <2>4
  <2> HIDE DEF Became
  <2> QED BY <1>t, <1>4, <2>1, <2>2 DEF PutKey, TypeOK, discovery
<1>5. CASE RewriteEntry(c)
  <2>1. PICK k \in call[c].todo :
          /\ oidc' = [oidc EXCEPT ![k] = [iss |-> call[c].iss, meta |-> call[c].meta]]
          /\ Become(c, [call[c] EXCEPT !.todo = @ \ {k}, !.pc = IF call[c].todo = {k} THEN "done" ELSE @])
    BY <1>5 DEF RewriteEntry
  <2>2. k \in Kids
    BY <1>0 DEF CallType
  <2>3. oidc' \in [Kids -> Entry \cup {NoEntry}]
    BY <1>5, <2>1, <2>2 DEF TypeOK, Entry, CallOk, RewriteEntry, At
  <2> DEFINE next == [call[c] EXCEPT !.todo = @ \ {k}, !.pc = IF call[c].todo = {k} THEN "done" ELSE @]
  <2>5. next \in CallType
    <3>1. (IF call[c].todo = {k} THEN "done" ELSE call[c].pc) \in PCs
      BY <1>0 DEF CallType, PCs
    <3> QED BY <1>0, <3>1 DEF CallType
  <2>6. Become(c, next)
    BY <2>1
  <2> HIDE DEF next
  <2>4. Became
    BY <2>5, <2>6
  <2> HIDE DEF Became
  <2> QED BY <1>t, <1>5, <2>3, <2>4 DEF RewriteEntry, TypeOK, discovery
<1>6. CASE RetireEntry(c)
  <2>1. oidc' \in [Kids -> Entry \cup {NoEntry}]
    BY <1>6 DEF TypeOK, RetireEntry
  <2> DEFINE next(k) ==
        [call[c] EXCEPT !.retired = @ \ {k},
           !.pc = IF call[c].retired # {k} THEN @ ELSE IF call[c].kind = "delete" THEN "list" ELSE "done"]
  <2>3. ASSUME NEW k PROVE next(k) \in CallType
    <3>1. (IF call[c].retired # {k} THEN call[c].pc
           ELSE IF call[c].kind = "delete" THEN "list" ELSE "done") \in PCs
      BY <1>0 DEF PCs, CallType
    <3> QED BY <1>0, <3>1 DEF CallType
  <2>4. \E k : Become(c, next(k))
    BY <1>6 DEF RetireEntry
  <2> HIDE DEF next
  <2>2. Became
    BY <2>3, <2>4
  <2> HIDE DEF Became
  <2> QED BY <1>t, <1>6, <2>1, <2>2 DEF RetireEntry, TypeOK, discovery
<1>7. CASE ConfigureAuth(c)
  <2>1. AfterWire(call[c].pc) \in PCs
    BY DEF AfterWire, PCs, WireKeys
  <2>2. Became
    BY <1>7, <1>g, <2>1 DEF ConfigureAuth
  <2>3. wiring' \in [WireKeys -> Metas \cup {Set, Unset}]
    BY <1>7 DEF ConfigureAuth, TypeOK, CallOk
  <2> HIDE DEF Became
  <2> QED BY <1>t, <1>7, <2>2, <2>3 DEF ConfigureAuth, TypeOK, config, discovery
<1>8. CASE ListIdps(c)
  <2>1. ASSUME ListForDoc(c) PROVE Became
    <3> DEFINE next(m) == [call[c] EXCEPT !.pc = "createDb", !.offers = Offers(m)]
    <3>1. ASSUME NEW m \in [Listed -> Metas] PROVE next(m) \in CallType
      <4>1. Offers(m) \subseteq Entry
        BY DEF Offers, Entry, Listed
      <4> QED BY <1>0, <4>1 DEF CallType, PCs
    <3>2. \E m \in [Listed -> Metas] : Become(c, next(m))
      BY <2>1 DEF ListForDoc
    <3> HIDE DEF next
    <3> QED BY <3>1, <3>2
  <2>2. ASSUME ListForPolicy(c) PROVE Became
    <3> DEFINE origins == IF call[c].kind = "delete" THEN Releasable(call[c].iss) ELSE Required(Listed)
               next == [call[c] EXCEPT !.pc = IF call[c].policy = Unset THEN "policy" ELSE "csp",
                                       !.origins = origins]
    <3>1. origins \in SUBSET Origins
      BY DEF Releasable, Required, Listed, Origins, CallOk
    <3> HIDE DEF origins
    <3>0. (IF call[c].policy = Unset THEN "policy" ELSE "csp") \in PCs
      BY DEF PCs
    <3>2. next \in CallType
      BY <1>0, <3>0, <3>1 DEF CallType
    <3>3. Become(c, next)
      BY <2>2 DEF ListForPolicy, origins
    <3> HIDE DEF next
    <3> QED BY <3>2, <3>3
  <2>3. Became
    BY <1>8, <2>1, <2>2 DEF ListIdps
  <2> HIDE DEF Became
  <2> QED BY <1>t, <1>8, <2>3 DEF ListIdps, TypeOK, config, discovery
<1>9. CASE CreateDb(c)
  <2>1. "openDb" \in PCs
    BY DEF PCs
  <2>2. Became
    BY <1>9, <1>g, <2>1 DEF CreateDb
  <2> HIDE DEF Became
  <2> QED BY <1>t, <1>9, <2>2 DEF CreateDb, TypeOK, config
<1>10. CASE OpenDb(c)
  <2>1. "getDoc" \in PCs
    BY DEF PCs
  <2>2. Became
    BY <1>10, <1>g, <2>1 DEF OpenDb
  <2> HIDE DEF Became
  <2> QED BY <1>t, <1>10, <2>2 DEF OpenDb, TypeOK, config
<1>11. CASE GetDoc(c)
  <2> DEFINE next(rev) == [call[c] EXCEPT !.pc = "putDoc", !.rev = rev]
  <2>2. ASSUME NEW rev \in Nat PROVE next(rev) \in CallType
    BY <1>0 DEF CallType, PCs
  <2>3. \E rev \in Nat : Become(c, next(rev))
    BY <1>11 DEF GetDoc, TypeOK
  <2> HIDE DEF next
  <2>1. Became
    BY <2>2, <2>3
  <2> HIDE DEF Became
  <2> QED BY <1>t, <1>11, <2>1 DEF GetDoc, TypeOK, config, discovery
<1>12. CASE PutDoc(c)
  <2>1. "done" \in PCs
    BY DEF PCs
  <2>2. Became
    BY <1>12, <1>g, <2>1 DEF PutDoc
  <2>3. doc' \in [rev : Nat, offers : SUBSET Entry]
    BY <1>0, <1>12 DEF PutDoc, TypeOK, CallType
  <2> HIDE DEF Became
  <2> QED BY <1>t, <1>12, <2>2, <2>3 DEF PutDoc, TypeOK, config
<1>13. CASE ReadPolicy(c)
  <2> DEFINE next == [call[c] EXCEPT !.pc = IF call[c].origins = Unset THEN "list" ELSE "csp", !.policy = csp]
  <2>2. next \in CallType
    <3>1. (IF call[c].origins = Unset THEN "list" ELSE "csp") \in PCs
      BY DEF PCs
    <3>2. csp \in (SUBSET Origins) \cup {Unset}
      BY DEF TypeOK
    <3> QED BY <1>0, <3>1, <3>2 DEF CallType
  <2>3. Become(c, next)
    BY <1>13 DEF ReadPolicy
  <2> HIDE DEF next
  <2>1. Became
    BY <2>2, <2>3
  <2> HIDE DEF Became
  <2> QED BY <1>t, <1>13, <2>1 DEF ReadPolicy, TypeOK, config, discovery
<1>14. CASE WritePolicy(c)
  <2>1. "done" \in PCs
    BY DEF PCs
  <2>2. Became
    BY <1>14, <1>g, <2>1 DEF WritePolicy
  <2>3. csp' \subseteq Origins
    BY <1>14 DEF WritePolicy, Header, TypeOK, CallOk, At
  <2> HIDE DEF Became
  <2> QED BY <1>t, <1>14, <2>2, <2>3 DEF WritePolicy, TypeOK, config, discovery
<1>15. CASE ApplyNew(c)
  <2> DEFINE next == [Idle EXCEPT !.pc = "read", !.kind = "apply", !.iss = call[c].iss]
  <2>2. next \in CallType
    BY <1>0, IdleTyped DEF CallType, PCs
  <2>3. Become(c, next)
    BY <1>15 DEF ApplyNew
  <2> HIDE DEF next
  <2>1. Became
    BY <2>2, <2>3
  <2> HIDE DEF Became
  <2> QED BY <1>t, <1>15, <2>1 DEF ApplyNew, TypeOK, config, discovery
<1>16. CASE DeleteFails(c)
  <2> DEFINE next == [call[c] EXCEPT !.pc = "list", !.retired = {}]
  <2>2. next \in CallType
    <3>1. "list" \in PCs
      BY DEF PCs
    <3> QED BY <1>0, <3>1 DEF CallType
  <2>3. Become(c, next)
    BY <1>16 DEF DeleteFails
  <2> HIDE DEF next
  <2>1. Became
    BY <2>2, <2>3
  <2> HIDE DEF Became
  <2> QED BY <1>t, <1>16, <2>1 DEF DeleteFails, TypeOK, config, discovery
<1>17. CASE End(c)
  <2>1. Became
    BY <1>17, IdleTyped DEF End
  <2> HIDE DEF Became
  <2> QED BY <1>t, <1>17, <2>1 DEF End, TypeOK, config, discovery
<1> QED BY <1>1, <1>2, <1>3, <1>4, <1>5, <1>6, <1>7, <1>8, <1>9, <1>10, <1>11, <1>12, <1>13,
          <1>14, <1>15, <1>16, <1>17 DEF Step

-----------------------------------------------------------------------------
(* What a call holds, and what an apply has done *)

LEMMA BeginOk ==
  ASSUME TypeOK, NEW c \in Calls, Begin(c)
  PROVE  CallOk(c)' /\ ApplyOk(c)' /\ \A d \in Calls \ {c} : call'[d] = call[d]
<1> DEFINE next(kind, where, i, m) == [Idle EXCEPT !.pc = where, !.kind = kind, !.iss = i, !.meta = m]
<1>1. ASSUME NEW kind, NEW where, NEW i, NEW m, Become(c, next(kind, where, i, m))
      PROVE  /\ call'[c].kind = kind /\ call'[c].pc = where /\ call'[c].iss = i /\ call'[c].meta = m
             /\ \A d \in Calls \ {c} : call'[d] = call[d]
  <2>1. call'[c] = next(kind, where, i, m) /\ \A d \in Calls \ {c} : call'[d] = call[d]
    BY <1>1, BecomeCalls
  <2>2. /\ next(kind, where, i, m).pc = where /\ next(kind, where, i, m).kind = kind
        /\ next(kind, where, i, m).iss = i /\ next(kind, where, i, m).meta = m
    BY DEF Idle
  <2> HIDE DEF next
  <2> QED BY <2>1, <2>2
<1> HIDE DEF next
<1>2. CASE StartCreate(c)
  <2>1. \E i \in Issuers, m \in Metas : Become(c, next("create", "discover", i, m))
    BY <1>2 DEF StartCreate, Start, next
  <2> QED BY <1>1, <2>1 DEF CallOk, ApplyOk, At, WireKeys
<1>3. CASE StartUpdate(c)
  <2>1. \E i \in Issuers, m \in Metas : Become(c, next("update", "read", i, m))
    BY <1>3 DEF StartUpdate, Start, Listed, next
  <2> QED BY <1>1, <2>1 DEF CallOk, ApplyOk, At, WireKeys
<1>4. CASE StartOther(c)
  <2>1. \E kind \in {"refresh", "delete", "apply"}, i \in Issuers : Become(c, next(kind, "read", i, Unset))
    BY <1>4 DEF StartOther, Start, Listed, next
  <2> QED BY <1>1, <2>1 DEF CallOk, ApplyOk, At, WireKeys
<1>5. CASE StartSwitch(c)
  <2>1. \E kind \in {"allow", "disallow"}, first \in {"list", "policy"} : Become(c, next(kind, first, Unset, Unset))
    BY <1>5 DEF StartSwitch, Start, next
  <2> QED BY <1>1, <2>1 DEF CallOk, ApplyOk, At, WireKeys
<1> QED BY <1>2, <1>3, <1>4, <1>5 DEF Begin

\* The configuration an apply writes is never unset, nor its database closed.
Grows ==
  /\ \A w \in WireKeys : wiring[w] # Unset => wiring'[w] # Unset
  /\ idpDb = "open" => idpDb' = "open"

LEMMA StepGrows == ASSUME TypeOK, NEW c \in Calls, CallOk(c), Step(c) PROVE Grows
<1>1. CASE ConfigureAuth(c)
  BY <1>1, MetasAssumption DEF ConfigureAuth, TypeOK, CallOk, Grows, discovery
<1>2. CASE CreateDb(c)
  BY <1>2 DEF CreateDb, Grows
<1>3. CASE OpenDb(c)
  BY <1>3 DEF OpenDb, Grows
<1>4. CASE UNCHANGED <<wiring, idpDb>>
  BY <1>4 DEF Grows
<1> QED
  BY <1>1, <1>2, <1>3, <1>4 DEF Step, Discover, ReadConfig, PutEntry, PutKey, RewriteEntry, RetireEntry, ListIdps,
     GetDoc, PutDoc, ReadPolicy, WritePolicy, ApplyNew, DeleteFails, End, discovery

LEMMA StepOk ==
  ASSUME TypeOK, NEW c \in Calls, CallOk(c), ApplyOk(c), Step(c)
  PROVE  /\ CallOk(c)' /\ ApplyOk(c)' /\ \A d \in Calls \ {c} : call'[d] = call[d]
         /\ call'[c].kind = "delete" => call[c].kind = "delete"
<1>0. call[c] \in CallType
  BY DEF TypeOK
<1>1. CASE Discover(c)
  <2>1. PICK fresh :
          call'[c] = [call[c] EXCEPT !.pc = IF call[c].kind = "create" THEN "read" ELSE "write",
                                     !.fresh = fresh, !.todo = fresh, !.retired = @ \ fresh]
           /\ \A d \in Calls \ {c} : call'[d] = call[d]
    BY <1>1, BecomeCalls DEF Discover
  <2>2. /\ call'[c].pc = IF call[c].kind = "create" THEN "read" ELSE "write"
        /\ call'[c].kind = call[c].kind /\ call'[c].iss = call[c].iss /\ call'[c].meta = call[c].meta
    BY <1>0, <2>1 DEF CallType
  <2>3. CallOk(c)'
    BY <1>0, <1>1, <2>2 DEF CallOk, Discover, At, WireKeys, CallType
  <2>4. ApplyOk(c)'
    BY <1>1, <2>2 DEF ApplyOk, CallOk, Discover, At, Wired, WireKeys
  <2> QED BY <2>1, <2>2, <2>3, <2>4
<1>2. CASE ReadConfig(c)
  <2>0. MetasOf(call[c].iss) \subseteq Metas
    BY DEF MetasOf, KeysOf, TypeOK, Entry
  <2> DEFINE Other == \A d \in Calls \ {c} : call'[d] = call[d]
             Kept == call'[c].kind = call[c].kind /\ call'[c].iss = call[c].iss /\ Other
  <2>1. ASSUME Become(c, Over) PROVE Other /\ CallOk(c)' /\ ApplyOk(c)' /\ call'[c].kind = "none"
    <3>1. call'[c] = Over /\ Other
      BY <2>1, BecomeCalls
    <3>2. call'[c].pc = "over" /\ call'[c].kind = "none"
      BY <3>1 DEF Over, Idle
    <3> HIDE DEF Other
    <3> QED BY <3>1, <3>2 DEF CallOk, ApplyOk, At, WireKeys
  <2>2. ASSUME call[c].kind = "create", GoTo(c, "write")
        PROVE  Kept /\ call'[c].meta = call[c].meta /\ call'[c].pc = "write"
    <3>1. call'[c] = [call[c] EXCEPT !.pc = "write"] /\ Other
      BY <2>2, BecomeCalls DEF GoTo
    <3> HIDE DEF Other
    <3> QED BY <1>0, <3>1 DEF CallType
  <2>3. ASSUME call[c].kind = "refresh", ReadRefresh(c)
        PROVE  Kept /\ call'[c].meta \in Metas /\ call'[c].pc = "discover"
    <3>1. PICK m \in Metas :
            call'[c] = [call[c] EXCEPT !.pc = "discover", !.meta = m, !.retired = KeysOf(call[c].iss)] /\ Other
      BY <2>0, <2>3, BecomeCalls DEF ReadRefresh
    <3> HIDE DEF Other
    <3> QED BY <1>0, <3>1 DEF CallType
  <2>4. ASSUME call[c].kind = "update", ReadUpdate(c)
        PROVE  Kept /\ call'[c].meta = call[c].meta /\ call'[c].pc = "rewrite"
    <3>1. call'[c] = [call[c] EXCEPT !.pc = "rewrite", !.todo = KeysOf(call[c].iss)] /\ Other
      BY <2>4, BecomeCalls DEF ReadUpdate
    <3> HIDE DEF Other
    <3> QED BY <1>0, <3>1 DEF CallType
  <2>5. ASSUME call[c].kind = "delete", ReadDelete(c)
        PROVE  Kept /\ call'[c].pc \in {"list", "retire"}
    <3>1. call'[c] = [call[c] EXCEPT !.pc = IF KeysOf(call[c].iss) = {} THEN "list" ELSE "retire",
                                     !.retired = KeysOf(call[c].iss)] /\ Other
      BY <2>5, BecomeCalls DEF ReadDelete
    <3> HIDE DEF Other
    <3> QED BY <1>0, <3>1 DEF CallType
  <2>6. ASSUME call[c].kind = "apply", ReadApply(c)
        PROVE  Kept /\ call'[c].meta \in Metas /\ call'[c].pc = "required"
    <3>1. PICK m \in Metas :
            call'[c] = [call[c] EXCEPT !.pc = "required", !.meta = m, !.ok = Installed(call[c].iss)] /\ Other
      BY <2>0, <2>6, BecomeCalls DEF ReadApply
    <3> HIDE DEF Other
    <3> QED BY <1>0, <3>1 DEF CallType
  <2> HIDE DEF Other
  <2>7. CASE Become(c, Over)
    BY <2>1, <2>7 DEF Other
  <2>8. CASE ~Become(c, Over)
    <3>1. \/ call[c].kind = "create" /\ GoTo(c, "write")
          \/ call[c].kind = "refresh" /\ ReadRefresh(c)
          \/ call[c].kind = "update" /\ ReadUpdate(c)
          \/ call[c].kind = "delete" /\ ReadDelete(c)
          \/ call[c].kind = "apply" /\ ReadApply(c)
      BY <1>2, <2>8 DEF ReadConfig, ReadCreate, CallOk, At
    <3>2. CallOk(c)'
      BY <2>2, <2>3, <2>4, <2>5, <2>6, <3>1 DEF CallOk, WireKeys
    <3>3. ApplyOk(c)'
      BY <2>2, <2>3, <2>4, <2>5, <2>6, <3>1 DEF ApplyOk, At, WireKeys
    <3> QED BY <2>2, <2>3, <2>4, <2>5, <2>6, <3>1, <3>2, <3>3 DEF Other
  <2> QED BY <2>7, <2>8
<1>3. CASE PutEntry(c)
  <2>1. PICK k \in call[c].todo :
          call'[c] = [call[c] EXCEPT !.pc = "putKey", !.half = k] /\ \A d \in Calls \ {c} : call'[d] = call[d]
    BY <1>3, BecomeCalls DEF PutEntry
  <2>2. /\ call'[c].pc = "putKey" /\ call'[c].half = k
        /\ call'[c].kind = call[c].kind /\ call'[c].iss = call[c].iss /\ call'[c].meta = call[c].meta
    BY <1>0, <2>1 DEF CallType
  <2>3. CallOk(c)'
    BY <1>0, <1>3, <2>2, <2>1 DEF CallOk, PutEntry, At, WireKeys, CallType
  <2>4. ApplyOk(c)'
    BY <1>3, <2>2 DEF ApplyOk, CallOk, PutEntry, At, Wired, WireKeys
  <2> QED BY <2>1, <2>2, <2>3, <2>4
<1>4. CASE PutKey(c)
  <2>1. call'[c] = [call[c] EXCEPT !.todo = @ \ {call[c].half}, !.half = Unset,
           !.pc = IF call[c].todo # {call[c].half} THEN "write"
                  ELSE IF call[c].retired # {} THEN "retire" ELSE "done"]
        /\ \A d \in Calls \ {c} : call'[d] = call[d]
    BY <1>4, BecomeCalls DEF PutKey
  <2>2. /\ call'[c].pc = IF call[c].todo # {call[c].half} THEN "write"
                           ELSE IF call[c].retired # {} THEN "retire" ELSE "done"
        /\ call'[c].kind = call[c].kind /\ call'[c].iss = call[c].iss /\ call'[c].meta = call[c].meta
    BY <1>0, <2>1 DEF CallType
  <2>3. CallOk(c)'
    BY <1>0, <1>4, <2>2 DEF CallOk, PutKey, At, WireKeys, CallType
  <2>4. ApplyOk(c)'
    BY <1>4, <2>2 DEF ApplyOk, CallOk, PutKey, At, Wired, WireKeys
  <2> QED BY <2>1, <2>2, <2>3, <2>4
<1>5. CASE RewriteEntry(c)
  <2>1. PICK k \in call[c].todo :
          call'[c] = [call[c] EXCEPT !.todo = @ \ {k}, !.pc = IF call[c].todo = {k} THEN "done" ELSE @]
           /\ \A d \in Calls \ {c} : call'[d] = call[d]
    BY <1>5, BecomeCalls DEF RewriteEntry
  <2>2. /\ call'[c].pc \in {"done", "rewrite"}
        /\ call'[c].kind = call[c].kind /\ call'[c].iss = call[c].iss /\ call'[c].meta = call[c].meta
    BY <1>0, <1>5, <2>1 DEF CallType, RewriteEntry, At
  <2>3. CallOk(c)'
    BY <1>0, <1>5, <2>2 DEF CallOk, RewriteEntry, At, WireKeys, CallType
  <2>4. ApplyOk(c)'
    BY <1>5, <2>2 DEF ApplyOk, CallOk, RewriteEntry, At, Wired, WireKeys
  <2> QED BY <2>1, <2>2, <2>3, <2>4
<1>6. CASE RetireEntry(c)
  <2>1. PICK k \in call[c].retired :
          call'[c] = [call[c] EXCEPT !.retired = @ \ {k},
            !.pc = IF call[c].retired # {k} THEN @ ELSE IF call[c].kind = "delete" THEN "list" ELSE "done"]
           /\ \A d \in Calls \ {c} : call'[d] = call[d]
    BY <1>6, BecomeCalls DEF RetireEntry
  <2>2. /\ call'[c].pc \in {"done", "retire"} \/ (call'[c].pc = "list" /\ call[c].kind = "delete")
        /\ call'[c].kind = call[c].kind /\ call'[c].iss = call[c].iss /\ call'[c].meta = call[c].meta
    <3>1. call[c].pc = "retire"
      BY <1>6 DEF RetireEntry, At
    <3>2. call'[c].pc = (IF call[c].retired # {k} THEN call[c].pc ELSE IF call[c].kind = "delete" THEN "list" ELSE "done")
      BY <1>0, <2>1 DEF CallType
    <3>3. call'[c].kind = call[c].kind /\ call'[c].iss = call[c].iss /\ call'[c].meta = call[c].meta
      BY <1>0, <2>1 DEF CallType
    <3> QED BY <3>1, <3>2, <3>3
  <2>3. CallOk(c)'
    BY <1>0, <1>6, <2>2 DEF CallOk, RetireEntry, At, WireKeys, CallType
  <2>4. ApplyOk(c)'
    BY <1>6, <2>2 DEF ApplyOk, CallOk, RetireEntry, At, Wired, WireKeys
  <2> QED BY <2>1, <2>2, <2>3, <2>4
<1>7. CASE ConfigureAuth(c)
  <2>1. call'[c] = [call[c] EXCEPT !.pc = AfterWire(call[c].pc)]
        /\ \A d \in Calls \ {c} : call'[d] = call[d]
    BY <1>7, BecomeCalls DEF ConfigureAuth, GoTo
  <2>2. /\ call'[c].pc = AfterWire(call[c].pc)
        /\ call'[c].kind = call[c].kind /\ call'[c].iss = call[c].iss /\ call'[c].meta = call[c].meta
    BY <1>0, <2>1 DEF CallType
  <2>3. CallOk(c)'
    BY <1>0, <1>7, <2>2 DEF CallOk, ConfigureAuth, At, WireKeys, CallType, AfterWire, TypeOK
  <2>4. ApplyOk(c)'
    <3>1. call[c].pc \in WireKeys /\ Unset \notin Metas /\ Unset # Set
      BY <1>7, MetasAssumption DEF ConfigureAuth, TypeOK
    <3>2. /\ wiring' = [wiring EXCEPT ![call[c].pc] = IF call[c].pc \in {"name", "path"} THEN call[c].meta ELSE Set]
          /\ DOMAIN wiring = WireKeys /\ idpDb' = idpDb
      BY <1>7 DEF ConfigureAuth, TypeOK, discovery
    <3> QED BY <2>2, <3>1, <3>2 DEF ApplyOk, CallOk, AfterWire, At, Wired, WireKeys
  <2> QED BY <2>1, <2>2, <2>3, <2>4
<1>8. CASE ListIdps(c)
  <2>1. CASE call[c].kind = "apply"
    <3>1. PICK m : /\ call'[c] = [call[c] EXCEPT !.pc = "createDb", !.offers = Offers(m)]
                   /\ \A d \in Calls \ {c} : call'[d] = call[d]
      BY <1>8, <2>1, BecomeCalls DEF ListIdps, ListForDoc
    <3>2. /\ call'[c].pc = "createDb"
          /\ call'[c].kind = call[c].kind /\ call'[c].iss = call[c].iss /\ call'[c].meta = call[c].meta
      BY <1>0, <3>1 DEF CallType
    <3>3. CallOk(c)' /\ ApplyOk(c)'
      BY <1>8, <2>1, <3>2 DEF CallOk, ApplyOk, ListIdps, At, Wired, WireKeys
    <3> QED BY <2>1, <3>1, <3>2, <3>3
  <2>2. CASE call[c].kind # "apply"
    <3> DEFINE origins == IF call[c].kind = "delete" THEN Releasable(call[c].iss) ELSE Required(Listed)
    <3>1. /\ call'[c] = [call[c] EXCEPT !.pc = IF call[c].policy = Unset THEN "policy" ELSE "csp",
                                        !.origins = origins]
          /\ \A d \in Calls \ {c} : call'[d] = call[d]
      BY <1>8, <2>2, BecomeCalls DEF ListIdps, ListForPolicy
    <3>2. origins \in SUBSET Origins
      BY DEF Releasable, Required, Listed, Origins, CallOk
    <3> HIDE DEF origins
    <3>3. /\ call'[c].pc = (IF call[c].policy = Unset THEN "policy" ELSE "csp")
          /\ call'[c].policy = call[c].policy /\ call'[c].origins = origins
          /\ call'[c].kind = call[c].kind /\ call'[c].iss = call[c].iss /\ call'[c].meta = call[c].meta
      BY <1>0, <3>1 DEF CallType
    <3>4. call[c].kind \in {"delete", "allow", "disallow"}
      BY <1>0, <1>8, <2>2 DEF CallOk, ListIdps, At, CallType
    <3>5. CallOk(c)'
      BY <1>0, <2>2, <3>2, <3>3, <3>4 DEF CallOk, WireKeys, CallType, Origins
    <3>6. ApplyOk(c)'
      BY <2>2, <3>3 DEF ApplyOk, At, WireKeys
    <3> QED BY <3>1, <3>3, <3>5, <3>6
  <2> QED BY <2>1, <2>2
<1>9. CASE CreateDb(c)
  <2>1. call'[c] = [call[c] EXCEPT !.pc = "openDb"]
        /\ \A d \in Calls \ {c} : call'[d] = call[d]
    BY <1>9, BecomeCalls DEF CreateDb, GoTo
  <2>2. /\ call'[c].pc = "openDb"
        /\ call'[c].kind = call[c].kind /\ call'[c].iss = call[c].iss /\ call'[c].meta = call[c].meta
    BY <1>0, <2>1 DEF CallType
  <2>3. CallOk(c)'
    BY <1>0, <1>9, <2>2 DEF CallOk, CreateDb, At, WireKeys, CallType
  <2>4. ApplyOk(c)'
    BY <1>9, <2>2 DEF ApplyOk, CallOk, CreateDb, At, Wired, WireKeys
  <2> QED BY <2>1, <2>2, <2>3, <2>4
<1>10. CASE OpenDb(c)
  <2>1. call'[c] = [call[c] EXCEPT !.pc = "getDoc"]
        /\ \A d \in Calls \ {c} : call'[d] = call[d]
    BY <1>10, BecomeCalls DEF OpenDb, GoTo
  <2>2. /\ call'[c].pc = "getDoc"
        /\ call'[c].kind = call[c].kind /\ call'[c].iss = call[c].iss /\ call'[c].meta = call[c].meta
    BY <1>0, <2>1 DEF CallType
  <2>3. CallOk(c)'
    BY <1>0, <1>10, <2>2 DEF CallOk, OpenDb, At, WireKeys, CallType
  <2>4. ApplyOk(c)'
    BY <1>10, <2>2 DEF ApplyOk, CallOk, OpenDb, At, Wired, WireKeys
  <2> QED BY <2>1, <2>2, <2>3, <2>4
<1>11. CASE GetDoc(c)
  <2>1. PICK rev :
          call'[c] = [call[c] EXCEPT !.pc = "putDoc", !.rev = rev] /\ \A d \in Calls \ {c} : call'[d] = call[d]
    BY <1>11, BecomeCalls DEF GetDoc
  <2>2. /\ call'[c].pc = "putDoc"
        /\ call'[c].kind = call[c].kind /\ call'[c].iss = call[c].iss /\ call'[c].meta = call[c].meta
    BY <1>0, <2>1 DEF CallType
  <2>3. CallOk(c)'
    BY <1>0, <1>11, <2>2 DEF CallOk, GetDoc, At, WireKeys, CallType
  <2>4. ApplyOk(c)'
    BY <1>11, <2>2 DEF ApplyOk, CallOk, GetDoc, At, Wired, WireKeys, discovery
  <2> QED BY <2>1, <2>2, <2>3, <2>4
<1>12. CASE PutDoc(c)
  <2>1. call'[c] = [call[c] EXCEPT !.pc = "done"]
        /\ \A d \in Calls \ {c} : call'[d] = call[d]
    BY <1>12, BecomeCalls DEF PutDoc, GoTo
  <2>2. /\ call'[c].pc = "done"
        /\ call'[c].kind = call[c].kind /\ call'[c].iss = call[c].iss /\ call'[c].meta = call[c].meta
    BY <1>0, <2>1 DEF CallType
  <2>3. CallOk(c)'
    BY <1>0, <1>12, <2>2 DEF CallOk, PutDoc, At, WireKeys, CallType
  <2>4. ApplyOk(c)'
    BY <1>12, <2>2 DEF ApplyOk, CallOk, PutDoc, At, Wired, WireKeys
  <2> QED BY <2>1, <2>2, <2>3, <2>4
<1>13. CASE ReadPolicy(c)
  <2>1. call'[c] = [call[c] EXCEPT !.pc = IF call[c].origins = Unset THEN "list" ELSE "csp", !.policy = csp]
        /\ \A d \in Calls \ {c} : call'[d] = call[d]
    BY <1>13, BecomeCalls DEF ReadPolicy
  <2>2. /\ call'[c].pc = IF call[c].origins = Unset THEN "list" ELSE "csp"
        /\ call'[c].policy = csp /\ call'[c].origins = call[c].origins
        /\ call'[c].kind = call[c].kind /\ call'[c].iss = call[c].iss /\ call'[c].meta = call[c].meta
    BY <1>0, <2>1 DEF CallType
  <2>3. CallOk(c)'
    BY <1>0, <1>13, <2>2 DEF CallOk, ReadPolicy, At, WireKeys, CallType, TypeOK
  <2>4. ApplyOk(c)'
    BY <1>13, <2>2 DEF ApplyOk, CallOk, ReadPolicy, At, Wired, WireKeys
  <2> QED BY <2>1, <2>2, <2>3, <2>4
<1>14. CASE WritePolicy(c)
  <2>1. call'[c] = [call[c] EXCEPT !.pc = "done"]
        /\ \A d \in Calls \ {c} : call'[d] = call[d]
    BY <1>14, BecomeCalls DEF WritePolicy, GoTo
  <2>2. /\ call'[c].pc = "done"
        /\ call'[c].kind = call[c].kind /\ call'[c].iss = call[c].iss /\ call'[c].meta = call[c].meta
    BY <1>0, <2>1 DEF CallType
  <2>3. CallOk(c)'
    BY <1>0, <1>14, <2>2 DEF CallOk, WritePolicy, At, WireKeys, CallType
  <2>4. ApplyOk(c)'
    BY <1>14, <2>2 DEF ApplyOk, CallOk, WritePolicy, At, Wired, WireKeys
  <2> QED BY <2>1, <2>2, <2>3, <2>4
<1>15. CASE ApplyNew(c)
  <2>1. call'[c] = [Idle EXCEPT !.pc = "read", !.kind = "apply", !.iss = call[c].iss]
        /\ \A d \in Calls \ {c} : call'[d] = call[d]
    BY <1>15, BecomeCalls DEF ApplyNew
  <2>2. /\ call'[c].pc = "read" /\ call'[c].kind = "apply" /\ call'[c].iss = call[c].iss
    BY <1>0, <2>1 DEF Idle
  <2>3. CallOk(c)'
    BY <1>0, <1>15, <2>2 DEF CallOk, ApplyNew, At, WireKeys, CallType
  <2>4. ApplyOk(c)'
    BY <1>15, <2>2 DEF ApplyOk, CallOk, ApplyNew, At, Wired, WireKeys
  <2> QED BY <2>1, <2>2, <2>3, <2>4
<1>16. CASE DeleteFails(c)
  <2>1. call'[c] = [call[c] EXCEPT !.pc = "list", !.retired = {}]
        /\ \A d \in Calls \ {c} : call'[d] = call[d]
    BY <1>16, BecomeCalls DEF DeleteFails
  <2>2. /\ call'[c].pc = "list"
        /\ call'[c].kind = call[c].kind /\ call'[c].iss = call[c].iss /\ call'[c].meta = call[c].meta
    BY <1>0, <2>1 DEF CallType
  <2>3. CallOk(c)'
    BY <1>0, <1>16, <2>2 DEF CallOk, DeleteFails, At, WireKeys, CallType
  <2>4. ApplyOk(c)'
    BY <1>16, <2>2 DEF ApplyOk, CallOk, DeleteFails, At, Wired, WireKeys
  <2> QED BY <2>1, <2>2, <2>3, <2>4
<1>17. CASE End(c)
  <2>1. call'[c] = Over
        /\ \A d \in Calls \ {c} : call'[d] = call[d]
    BY <1>17, BecomeCalls DEF End
  <2>2. /\ call'[c].pc = "over" /\ call'[c].kind = "none"
    BY <1>0, <2>1 DEF Over, Idle
  <2>3. CallOk(c)'
    BY <1>0, <1>17, <2>2 DEF CallOk, End, At, WireKeys, CallType
  <2>4. ApplyOk(c)'
    BY <1>17, <2>2 DEF ApplyOk, CallOk, End, At, Wired, WireKeys
  <2> QED BY <2>1, <2>2, <2>3, <2>4
<1> QED BY <1>1, <1>2, <1>3, <1>4, <1>5, <1>6, <1>7, <1>8, <1>9, <1>10, <1>11, <1>12, <1>13,
          <1>14, <1>15, <1>16, <1>17 DEF Step

-----------------------------------------------------------------------------
(* The invariant *)

LEMMA InvInit == Init => Inv
<1> SUFFICES ASSUME Init PROVE Inv
  OBVIOUS
<1>1. \A c \in Calls : call[c] = Idle /\ CallOk(c) /\ ApplyOk(c)
  BY DEF Init, CallOk, ApplyOk, Idle, At, WireKeys
<1>2. call \in [Calls -> CallType]
  BY IdleTyped DEF Init
<1>3. /\ oidc \in [Kids -> Entry \cup {NoEntry}] /\ keys \in [Kids -> Issuers \cup {NoKey}]
      /\ csp \subseteq Origins
  BY DEF Init, LeftBehind, Untouched
<1>4. wiring \in [WireKeys -> Metas \cup {Set, Unset}]
  BY DEF Init, Blank
<1>5. running \in BOOLEAN /\ idpDb \in {"absent", "closed", "open"}
  BY DEF Init
<1>7. doc = [rev |-> 0, offers |-> {}] \/ doc = [rev |-> 1, offers |-> {}]
  BY DEF Init
<1>8. doc \in [rev : Nat, offers : SUBSET Entry]
  BY <1>7
<1>6. AdvertisedIsWired
  BY MetasAssumption DEF Init, AdvertisedIsWired, Wired, WireKeys
<1> QED BY <1>1, <1>2, <1>3, <1>4, <1>5, <1>6, <1>8 DEF Inv, TypeOK

LEMMA InvNext == Inv /\ [Next]_vars => Inv'
<1> SUFFICES ASSUME Inv, [Next]_vars PROVE Inv'
  OBVIOUS
<1>1. ASSUME NEW c \in Calls, Begin(c) PROVE Inv'
  <2>1. TypeOK'
    BY <1>1, BeginsTyped DEF Inv
  <2>2. UNCHANGED <<wiring, idpDb, doc>>
    BY <1>1 DEF Begin, StartCreate, StartUpdate, StartOther, StartSwitch, Start, discovery
  <2>3. CallOk(c)' /\ ApplyOk(c)' /\ \A d \in Calls \ {c} : call'[d] = call[d]
    BY <1>1, BeginOk DEF Inv
  <2>4. \A d \in Calls \ {c} : CallOk(d)' /\ ApplyOk(d)'
    BY <2>2, <2>3 DEF Inv, CallOk, ApplyOk, At, Wired
  <2> QED BY <2>1, <2>2, <2>3, <2>4 DEF Inv, AdvertisedIsWired, Wired
<1>2. ASSUME NEW c \in Calls, Step(c) PROVE Inv'
  <2>1. TypeOK'
    BY <1>2, StepTyped DEF Inv
  <2>2. Grows /\ DOMAIN wiring = WireKeys /\ DOMAIN wiring' = WireKeys
    BY <1>2, <2>1, StepGrows DEF Inv, TypeOK
  <2>3. CallOk(c)' /\ ApplyOk(c)' /\ \A d \in Calls \ {c} : call'[d] = call[d]
    BY <1>2, StepOk DEF Inv
  <2>4. ASSUME NEW d \in Calls \ {c} PROVE CallOk(d)' /\ ApplyOk(d)'
    <3>1. CallOk(d) /\ ApplyOk(d) /\ call'[d] = call[d]
      BY <2>3 DEF Inv
    <3> QED BY <2>2, <3>1 DEF CallOk, ApplyOk, At, Wired, Grows, WireKeys
  <2>5. AdvertisedIsWired'
    <3>1. CASE PutDoc(c)
      <4>1. Wired /\ idpDb = "open"
        BY <3>1 DEF Inv, ApplyOk, PutDoc, At
      <4> QED BY <2>2, <4>1 DEF AdvertisedIsWired, Wired, Grows
    <3>2. CASE ~PutDoc(c)
      <4>1. doc' = doc
        BY <1>2, <3>2 DEF Step, Discover, ReadConfig, PutEntry, PutKey, RewriteEntry, RetireEntry, ConfigureAuth,
           ListIdps, CreateDb, OpenDb, GetDoc, ReadPolicy, WritePolicy, ApplyNew, DeleteFails, End, discovery
      <4> QED BY <2>2, <4>1 DEF Inv, AdvertisedIsWired, Wired, Grows
    <3> QED BY <3>1, <3>2
  <2> QED BY <2>1, <2>3, <2>4, <2>5 DEF Inv
<1>3. CASE Restart
  BY <1>3 DEF Restart, Inv, TypeOK, AdvertisedIsWired, Wired, CallOk, ApplyOk, At, config, discovery
<1>4. CASE UNCHANGED vars
  BY <1>4 DEF vars, config, discovery, Inv, TypeOK, AdvertisedIsWired, Wired, CallOk, ApplyOk, At
<1> QED BY <1>1, <1>2, <1>3, <1>4 DEF Next

LEMMA InvHolds == Spec => []Inv
  BY InvInit, InvNext, PTL DEF Spec

\* The configuration, the policy and every call keep their shape, whatever the tabs do at once.
THEOREM IdpTypeCorrect == Spec => []TypeOK
<1>1. Inv => TypeOK
  BY DEF Inv
<1> QED BY <1>1, InvHolds, PTL

\* However many applies overlap and wherever each of them stops, publishDiscoveryDocument never
\* advertises a provider before CouchDB can verify its tokens and the document can be read.
THEOREM NeverAdvertisedUnwired == Spec => []AdvertisedIsWired
<1>1. Inv => AdvertisedIsWired
  BY DEF Inv
<1> QED BY <1>1, InvHolds, PTL

-----------------------------------------------------------------------------
(* Calls that do not overlap *)

\* What a delete has read is still so: nobody else has moved.
PolicyOk(c) ==
  call[c].kind = "delete" =>
    /\ call[c].pc \in {"read", "retire", "list"} => call[c].policy = Unset
    /\ call[c].pc \in {"policy", "csp"} =>
         call[c].origins \in SUBSET Origins /\ call[c].origins \cap Required(Listed) = {}
    /\ call[c].pc = "csp" => call[c].policy = csp

Alone == \A c, d \in Calls : Active(c) /\ Active(d) => c = d

LEMMA StepPolicyOk ==
  ASSUME Inv, NEW c \in Calls, PolicyOk(c), Step(c)
  PROVE  PolicyOk(c)' /\ Active(c)
<1>0. call[c] \in CallType /\ CallOk(c) /\ TypeOK /\ ApplyOk(c)
  BY DEF Inv, TypeOK
<1>k. call'[c].kind = "delete" => call[c].kind = "delete"
  BY <1>0, StepOk DEF Inv
<1>a. Active(c)
  BY <1>0 DEF Step, Discover, ReadConfig, PutEntry, PutKey, RewriteEntry, RetireEntry, ConfigureAuth,
     ListIdps, CreateDb, OpenDb, GetDoc, PutDoc, ReadPolicy, WritePolicy, ApplyNew, DeleteFails, End,
     TypeOK, WireKeys, Active, At
<1>1. CASE call[c].kind # "delete"
  BY <1>a, <1>k, <1>1 DEF PolicyOk
<1> SUFFICES ASSUME call[c].kind = "delete" PROVE PolicyOk(c)'
  BY <1>a, <1>1
<1>2. CASE ReadConfig(c)
  <2>1. call'[c] = [call[c] EXCEPT !.pc = IF KeysOf(call[c].iss) = {} THEN "list" ELSE "retire",
                                   !.retired = KeysOf(call[c].iss)]
    BY <1>0, <1>2, BecomeCalls DEF ReadConfig, ReadDelete
  <2>2. call'[c].pc \in {"list", "retire"} /\ call'[c].policy = call[c].policy
    BY <1>0, <2>1 DEF CallType
  <2> QED BY <1>2, <2>2 DEF ReadConfig, PolicyOk, At
<1>3. CASE RetireEntry(c)
  <2>1. PICK k \in call[c].retired :
          call'[c] = [call[c] EXCEPT !.retired = @ \ {k},
            !.pc = IF call[c].retired # {k} THEN @ ELSE IF call[c].kind = "delete" THEN "list" ELSE "done"]
    BY <1>0, <1>3, BecomeCalls DEF RetireEntry
  <2>2. call[c].pc = "retire"
    BY <1>3 DEF RetireEntry, At
  <2>3. call'[c].pc \in {"retire", "list"} /\ call'[c].policy = call[c].policy
    BY <1>0, <2>1, <2>2 DEF CallType
  <2> QED BY <2>2, <2>3 DEF PolicyOk
<1>4. CASE ListIdps(c)
  <2>1. At(c, "list") /\ UNCHANGED <<oidc, csp>>
    BY <1>4 DEF ListIdps, config
  <2>2. call'[c] = [call[c] EXCEPT !.pc = IF call[c].policy = Unset THEN "policy" ELSE "csp",
                                   !.origins = Releasable(call[c].iss)]
    BY <1>0, <1>4, BecomeCalls DEF ListIdps, ListForPolicy
  <2>3. /\ call'[c].pc = (IF call[c].policy = Unset THEN "policy" ELSE "csp")
        /\ call'[c].origins = Releasable(call[c].iss)
    BY <1>0, <2>2 DEF CallType
  <2>4. call'[c].pc = "policy"
    BY <2>1, <2>3 DEF PolicyOk, At
  <2>5. Releasable(call[c].iss) \in SUBSET Origins /\ Releasable(call[c].iss) \cap Required(Listed) = {}
    BY <1>0 DEF Releasable, CallOk, Origins
  <2>6. Required(Listed)' = Required(Listed)
    BY <2>1 DEF Required, Listed, KeysOf
  <2> QED BY <2>3, <2>4, <2>5, <2>6 DEF PolicyOk, Origins
<1>5. CASE ReadPolicy(c)
  <2>1. At(c, "policy") /\ UNCHANGED <<oidc, csp>>
    BY <1>5 DEF ReadPolicy, config
  <2>2. call'[c] = [call[c] EXCEPT !.pc = IF call[c].origins = Unset THEN "list" ELSE "csp", !.policy = csp]
    BY <1>0, <1>5, BecomeCalls DEF ReadPolicy
  <2>3. /\ call'[c].pc = (IF call[c].origins = Unset THEN "list" ELSE "csp") /\ call'[c].policy = csp
        /\ call'[c].origins = call[c].origins
    BY <1>0, <2>2 DEF CallType
  <2>4. Required(Listed)' = Required(Listed)
    BY <2>1 DEF Required, Listed, KeysOf
  <2>5. call[c].origins \in SUBSET Origins => call[c].origins # Unset
    BY NoneAssumption DEF Origins
  <2> QED BY <2>1, <2>3, <2>4, <2>5 DEF PolicyOk, At, Origins
<1>6. CASE DeleteFails(c)
  <2>1. call'[c] = [call[c] EXCEPT !.pc = "list", !.retired = {}]
    BY <1>0, <1>6, BecomeCalls DEF DeleteFails
  <2>2. call'[c].pc = "list" /\ call'[c].policy = call[c].policy
    BY <1>0, <2>1 DEF CallType
  <2> QED BY <1>6, <2>2 DEF DeleteFails, PolicyOk
<1>7. CASE WritePolicy(c) \/ CreateDb(c) \/ OpenDb(c) \/ PutDoc(c) \/ GetDoc(c)
  <2>1. PICK where \in {"done", "openDb", "getDoc"} :
          GoTo(c, where) \/ \E rev : Become(c, [call[c] EXCEPT !.pc = "putDoc", !.rev = rev])
    BY <1>7 DEF WritePolicy, CreateDb, OpenDb, PutDoc, GetDoc
  <2>2. call'[c] = [call[c] EXCEPT !.pc = where] \/ \E rev : call'[c] = [call[c] EXCEPT !.pc = "putDoc", !.rev = rev]
    BY <1>0, <2>1, BecomeCalls DEF GoTo
  <2>3. call'[c].pc \in {"done", "openDb", "getDoc", "putDoc"}
    BY <1>0, <2>2 DEF CallType
  <2> QED BY <2>3 DEF PolicyOk
<1>8. CASE End(c)
  <2>1. call'[c].pc = "over"
    BY <1>0, <1>8, BecomeCalls DEF End, Over, Idle
  <2> QED BY <2>1 DEF PolicyOk
<1> QED
  BY <1>0, <1>2, <1>3, <1>4, <1>5, <1>6, <1>7, <1>8 DEF Step, CallOk, TypeOK, Discover, PutEntry, PutKey,
     RewriteEntry, ConfigureAuth, ApplyNew, At, WireKeys

AloneInv == Inv /\ Alone /\ \A c \in Calls : PolicyOk(c)

LEMMA AloneInvNext == ASSUME Exclusive, AloneInv, [Next]_vars PROVE AloneInv'
<1>0. Inv'
  BY InvNext DEF AloneInv
<1>1. ASSUME NEW c \in Calls, Begin(c) PROVE Alone' /\ \A d \in Calls : PolicyOk(d)'
  <2>1. /\ \A d \in Calls : ~Active(d)
        /\ \A d \in Calls \ {c} : call'[d] = call[d]
    BY <1>1, BeginOk DEF Begin, StartCreate, StartUpdate, StartOther, StartSwitch, Start, AloneInv, Inv
  <2> DEFINE next(kind, where, i, m) == [Idle EXCEPT !.pc = where, !.kind = kind, !.iss = i, !.meta = m]
             Then(kind, where) == \E i, m : Become(c, next(kind, where, i, m))
  <2>2. \/ Then("create", "discover") \/ Then("update", "read")
        \/ \E kind \in {"refresh", "delete", "apply"} : Then(kind, "read")
        \/ \E kind \in {"allow", "disallow"}, where \in {"list", "policy"} : Then(kind, where)
    <3>1. CASE StartCreate(c) BY <3>1 DEF StartCreate, Start
    <3>2. CASE StartUpdate(c) BY <3>2 DEF StartUpdate, Start
    <3>3. CASE StartOther(c) BY <3>3 DEF StartOther, Start
    <3>4. CASE StartSwitch(c) BY <3>4 DEF StartSwitch, Start
    <3> QED BY <1>1, <3>1, <3>2, <3>3, <3>4 DEF Begin
  <2>3. ASSUME NEW kind, NEW where, Then(kind, where)
        PROVE  call'[c].pc = where /\ call'[c].kind = kind /\ call'[c].policy = Unset
    <3>1. PICK i, m : Become(c, next(kind, where, i, m))
      BY <2>3
    <3>2. call'[c] = next(kind, where, i, m)
      BY <3>1, BecomeCalls DEF AloneInv, Inv
    <3> QED BY <3>2 DEF Idle
  <2> HIDE DEF Then
  <2>4. call'[c].policy = Unset /\ (call'[c].pc \in {"policy", "csp"} => call'[c].kind # "delete")
    BY <2>2, <2>3
  <2> QED BY <2>1, <2>4 DEF Alone, PolicyOk, Active, At
<1>2. ASSUME NEW c \in Calls, Step(c) PROVE Alone' /\ \A d \in Calls : PolicyOk(d)'
  <2>1. PolicyOk(c)' /\ Active(c)
    BY <1>2, StepPolicyOk DEF AloneInv
  <2>2. \A d \in Calls \ {c} : call'[d] = call[d]
    BY <1>2, StepOk DEF AloneInv, Inv
  <2>3. \A d \in Calls \ {c} : ~Active(d)
    BY <2>1 DEF AloneInv, Alone
  <2> QED BY <2>1, <2>2, <2>3 DEF Alone, PolicyOk, Active, At
<1>3. ASSUME UNCHANGED <<oidc, csp, call>> PROVE Alone' /\ \A d \in Calls : PolicyOk(d)'
  <2>1. Required(Listed)' = Required(Listed)
    BY <1>3 DEF Required, Listed, KeysOf
  <2> QED BY <1>3, <2>1 DEF AloneInv, Alone, PolicyOk, Active, At
<1>4. UNCHANGED vars \/ Restart => UNCHANGED <<oidc, csp, call>>
  BY DEF vars, Restart, config
<1> QED BY <1>0, <1>1, <1>2, <1>3, <1>4 DEF Next, AloneInv

\* One call at a time, releaseCspOrigins takes away no origin that a provider still listed needs,
\* whether the delete before it went through or not.  Nothing in the code enforces the hypothesis
\* between tabs: a refresh in another one may need again what this delete has decided to release.
THEOREM DeleteReleasesOnlyItsOwn == ASSUME Exclusive PROVE Spec => SharedOriginStays
<1>1. Init => AloneInv
  <2>1. Init => \A c \in Calls : call[c] = Idle
    BY DEF Init
  <2>2. Idle.pc = "idle" /\ Idle.kind = "none"
    BY DEF Idle
  <2> QED BY <2>1, <2>2, InvInit DEF AloneInv, Alone, PolicyOk, Active, At
<1>2. AloneInv /\ [Next]_vars => AloneInv'
  BY AloneInvNext
<1>3. AloneInv =>
        [\A c \in Calls : call[c].kind = "delete" /\ WritePolicy(c) => csp \cap Required(Listed) \subseteq csp']_vars
  BY DEF AloneInv, PolicyOk, WritePolicy, Header, At
<1> QED BY <1>1, <1>2, <1>3, PTL DEF Spec, SharedOriginStays

-----------------------------------------------------------------------------
(* What one call at a time leaves behind *)

\* What a call leaves under a key: the entry, and the key it is for.
EntryOf(c) == [iss |-> call[c].iss, meta |-> call[c].meta]
Written(c, k) == oidc[k] = EntryOf(c) /\ oidc[k] # NoEntry /\ keys[k] = call[c].iss

\* A registration or refresh on its way through its keys: what is written stays, and what the
\* provider has besides is to be retired.
FetchOk(c) ==
  LET call_c == call[c]
      i == call_c.iss
  IN
  /\ call_c.kind = "create" => call_c.retired = {}
  /\ call_c.pc = "discover" /\ call_c.kind = "refresh" => call_c.retired = KeysOf(i)
  /\ call_c.pc = "read" /\ call_c.kind = "create" =>
       call_c.todo = call_c.fresh /\ call_c.fresh # {} /\ call_c.fresh \subseteq KidsOf[i]
  /\ call_c.pc \in {"write", "putKey"} =>
       /\ call_c.kind \in {"create", "refresh"}
       /\ call_c.todo # {} /\ call_c.todo \subseteq call_c.fresh /\ call_c.fresh \subseteq KidsOf[i]
       /\ call_c.retired \cap call_c.fresh = {}
       /\ KeysOf(i) \subseteq call_c.retired \cup call_c.fresh
       /\ \A k \in call_c.fresh \ call_c.todo : Written(c, k)
  /\ call_c.pc = "putKey" => call_c.half \in call_c.todo /\ oidc[call_c.half] = EntryOf(c)
  /\ call_c.pc = "retire" /\ call_c.kind # "delete" =>
       /\ call_c.kind = "refresh" /\ call_c.retired # {}
       /\ call_c.fresh # {} /\ call_c.retired \cap call_c.fresh = {}
       /\ KeysOf(i) \subseteq call_c.retired \cup call_c.fresh
       /\ \A k \in call_c.fresh : Written(c, k)
  /\ Finished(c, {"create", "refresh"}) =>
       call_c.fresh # {} /\ KeysOf(i) \subseteq call_c.fresh /\ \A k \in call_c.fresh : Written(c, k)

\* An edit on its way through the entries.
EditOk(c) ==
  LET call_c == call[c]
      i == call_c.iss
  IN
  /\ call_c.pc = "rewrite" =>
       /\ call_c.kind = "update" /\ call_c.todo # {} /\ call_c.todo \subseteq KeysOf(i)
       /\ \A k \in KeysOf(i) \ call_c.todo : oidc[k].meta = call_c.meta
  /\ Finished(c, {"update"}) =>
       KeysOf(i) # {} /\ \A k \in KeysOf(i) : oidc[k].meta = call_c.meta

\* An apply: what it read is still so, what it wrote is still there.
Applying == WireKeys \cup {"list", "createDb", "openDb", "getDoc", "putDoc", "done"}
ApplyHolds(c) ==
  LET call_c == call[c]
      i == call_c.iss
  IN
  /\ call_c.pc \in {"createDb", "openDb", "getDoc", "putDoc"} => call_c.kind = "apply"
  /\ call_c.kind = "apply" =>
    /\ call_c.pc \in Applying => call_c.meta \in MetasOf(i) /\ (call_c.ok => Installed(i))
    /\ call_c.pc \in Applying \ {"required", "name"} => wiring["name"] = call_c.meta
    /\ call_c.pc \in Applying \ {"required", "name", "path"} => wiring["path"] = call_c.meta
    /\ call_c.pc = "done" => Wired
    /\ call_c.pc \in {"createDb", "openDb", "getDoc", "putDoc"} /\ MetasOf(i) \subseteq Public =>
         \E o \in call_c.offers : o.iss = i
    /\ call_c.pc = "done" /\ ~Native /\ MetasOf(i) \subseteq Public => \E o \in doc.offers : o.iss = i

Solo(c) == FetchOk(c) /\ EditOk(c) /\ ApplyHolds(c)

LEMMA ConfigKept ==
  ASSUME UNCHANGED config
  PROVE  \A i : KeysOf(i)' = KeysOf(i) /\ MetasOf(i)' = MetasOf(i) /\ (Installed(i)' <=> Installed(i))
  BY DEF config, KeysOf, MetasOf, Installed

\* A step that leaves the configuration alone and goes on in a policy, or ends.
LEMMA StepElsewhereSolo ==
  ASSUME Inv, NEW c \in Calls, Solo(c), ReadPolicy(c) \/ WritePolicy(c) \/ DeleteFails(c) \/ End(c) \/ ApplyNew(c)
  PROVE  Solo(c)'
<1>0. call[c] \in CallType /\ TypeOK /\ CallOk(c)
  BY DEF Inv, TypeOK
<1>1. CASE ReadPolicy(c) \/ WritePolicy(c) \/ DeleteFails(c)
  <2>1. call[c].kind \in {"delete", "allow", "disallow"}
    BY <1>0, <1>1 DEF ReadPolicy, WritePolicy, DeleteFails, CallOk, At
  <2>2. PICK where \in {"list", "csp", "done"} :
          \/ call'[c] = [call[c] EXCEPT !.pc = where, !.policy = csp]
          \/ call'[c] = [call[c] EXCEPT !.pc = where]
          \/ call'[c] = [call[c] EXCEPT !.pc = where, !.retired = {}]
    <3>1. CASE ReadPolicy(c)
      BY <1>0, <3>1, BecomeCalls DEF ReadPolicy
    <3>2. CASE WritePolicy(c)
      BY <1>0, <3>2, BecomeCalls DEF WritePolicy, GoTo
    <3>3. CASE DeleteFails(c)
      BY <1>0, <3>3, BecomeCalls DEF DeleteFails
    <3> QED
      BY <1>1, <3>1, <3>2, <3>3
  <2>3. call'[c].kind = call[c].kind /\ call'[c].pc = where
    BY <1>0, <2>2 DEF CallType
  <2> QED
    BY <2>1, <2>3 DEF Solo, FetchOk, EditOk, ApplyHolds, Finished, At
<1>2. CASE End(c)
  <2>1. call'[c].pc = "over" /\ call'[c].kind = "none"
    BY <1>0, <1>2, BecomeCalls DEF End, Over, Idle
  <2> QED
    BY <2>1 DEF Solo, FetchOk, EditOk, ApplyHolds, Finished, At
<1>3. CASE ApplyNew(c)
  <2>1. call'[c] = [Idle EXCEPT !.pc = "read", !.kind = "apply", !.iss = call[c].iss]
    BY <1>0, <1>3, BecomeCalls DEF ApplyNew
  <2>2. call'[c].pc = "read" /\ call'[c].kind = "apply"
    BY <2>1 DEF Idle
  <2> QED
    BY <2>2 DEF Solo, FetchOk, EditOk, ApplyHolds, Finished, At, Applying, WireKeys
<1> QED
  BY <1>1, <1>2, <1>3

LEMMA DiscoverSolo == ASSUME Inv, NEW c \in Calls, Solo(c), Discover(c) PROVE Solo(c)'
<1>0. call[c] \in CallType /\ TypeOK /\ CallOk(c)
  BY DEF Inv, TypeOK
<1>1. PICK fresh \in (SUBSET KidsOf[call[c].iss]) \ {{}} :
        call'[c] = [call[c] EXCEPT !.pc = IF call[c].kind = "create" THEN "read" ELSE "write",
                                   !.fresh = fresh, !.todo = fresh, !.retired = @ \ fresh]
  BY <1>0, BecomeCalls DEF Discover
<1>2. /\ call'[c].pc = (IF call[c].kind = "create" THEN "read" ELSE "write") /\ call'[c].kind = call[c].kind /\ call'[c].iss = call[c].iss
      /\ call'[c].meta = call[c].meta /\ call'[c].fresh = fresh /\ call'[c].todo = fresh
      /\ call'[c].half = call[c].half /\ call'[c].retired = call[c].retired \ fresh /\ call'[c].ok = call[c].ok
      /\ call'[c].offers = call[c].offers
  BY <1>0, <1>1 DEF CallType
<1>3. UNCHANGED config /\ At(c, "discover")
  BY DEF Discover
<1>4. call[c].kind \in {"create", "refresh"}
  BY <1>0, <1>3 DEF CallOk, At
<1>5. FetchOk(c)'
  <2>1. KeysOf(call[c].iss)' = KeysOf(call[c].iss)
    BY <1>2, <1>3, ConfigKept
  <2> QED
    BY <1>2, <1>3, <1>4, <2>1 DEF Solo, FetchOk, At, Finished
<1> QED
  BY <1>2, <1>4, <1>5 DEF Solo, EditOk, ApplyHolds, Finished, At

LEMMA ReadConfigSolo == ASSUME Inv, NEW c \in Calls, Solo(c), ReadConfig(c) PROVE Solo(c)'
<1>0. call[c] \in CallType /\ TypeOK /\ CallOk(c)
  BY DEF Inv, TypeOK
<1>1. At(c, "read") /\ UNCHANGED config
  BY DEF ReadConfig
<1>2. \A i : KeysOf(i)' = KeysOf(i) /\ MetasOf(i)' = MetasOf(i) /\ (Installed(i)' <=> Installed(i))
  BY <1>1, ConfigKept
<1>3. CASE Become(c, Over)
  <2>1. call'[c].pc = "over" /\ call'[c].kind = "none"
    BY <1>0, <1>3, BecomeCalls DEF Over, Idle
  <2> QED
    BY <2>1 DEF Solo, FetchOk, EditOk, ApplyHolds, Finished, At
<1>4. CASE call[c].kind = "create" /\ call[c].iss \notin Listed /\ GoTo(c, "write")
  <2>1. call'[c] = [call[c] EXCEPT !.pc = "write"]
    BY <1>0, <1>4, BecomeCalls DEF GoTo
  <2>2. /\ call'[c].pc = "write" /\ call'[c].kind = call[c].kind /\ call'[c].iss = call[c].iss
        /\ call'[c].meta = call[c].meta /\ call'[c].fresh = call[c].fresh /\ call'[c].todo = call[c].todo
        /\ call'[c].half = call[c].half /\ call'[c].retired = call[c].retired /\ call'[c].ok = call[c].ok
        /\ call'[c].offers = call[c].offers
    BY <1>0, <2>1 DEF CallType
  <2>3. KeysOf(call[c].iss) = {}
    BY <1>0, <1>4 DEF Listed, CallOk
  <2>4. FetchOk(c)'
    BY <1>1, <1>2, <1>4, <2>2, <2>3 DEF Solo, FetchOk, At, Finished
  <2> QED
    BY <1>4, <2>2, <2>4 DEF Solo, EditOk, ApplyHolds, Finished, At
<1>5. CASE call[c].kind = "refresh" /\ ReadRefresh(c)
  <2>1. PICK m : call'[c] = [call[c] EXCEPT !.pc = "discover", !.meta = m, !.retired = KeysOf(call[c].iss)]
    BY <1>0, <1>5, BecomeCalls DEF ReadRefresh
  <2>2. /\ call'[c].pc = "discover" /\ call'[c].kind = call[c].kind /\ call'[c].iss = call[c].iss
        /\ call'[c].fresh = call[c].fresh /\ call'[c].todo = call[c].todo /\ call'[c].half = call[c].half
        /\ call'[c].retired = KeysOf(call[c].iss) /\ call'[c].ok = call[c].ok /\ call'[c].offers = call[c].offers
    BY <1>0, <2>1 DEF CallType
  <2> QED
    BY <1>2, <1>5, <2>2 DEF Solo, FetchOk, EditOk, ApplyHolds, Finished, At
<1>6. CASE call[c].kind = "update" /\ call[c].iss \in Listed /\ ReadUpdate(c)
  <2>1. call'[c] = [call[c] EXCEPT !.pc = "rewrite", !.todo = KeysOf(call[c].iss)]
    BY <1>0, <1>6, BecomeCalls DEF ReadUpdate
  <2>2. /\ call'[c].pc = "rewrite" /\ call'[c].kind = call[c].kind /\ call'[c].iss = call[c].iss
        /\ call'[c].meta = call[c].meta /\ call'[c].fresh = call[c].fresh /\ call'[c].todo = KeysOf(call[c].iss)
        /\ call'[c].half = call[c].half /\ call'[c].retired = call[c].retired /\ call'[c].ok = call[c].ok
        /\ call'[c].offers = call[c].offers
    BY <1>0, <2>1 DEF CallType
  <2> QED
    BY <1>2, <1>6, <2>2 DEF Solo, FetchOk, EditOk, ApplyHolds, Finished, At, Listed
<1>7. CASE call[c].kind = "delete" /\ ReadDelete(c)
  <2>1. PICK where \in {"list", "retire"} : call'[c] = [call[c] EXCEPT !.pc = where, !.retired = KeysOf(call[c].iss)]
    BY <1>0, <1>7, BecomeCalls DEF ReadDelete
  <2>2. call'[c].pc = where /\ call'[c].kind = call[c].kind
    BY <1>0, <2>1 DEF CallType
  <2> QED
    BY <1>7, <2>2 DEF Solo, FetchOk, EditOk, ApplyHolds, Finished, At
<1>8. CASE call[c].kind = "apply" /\ ReadApply(c)
  <2>1. PICK m \in MetasOf(call[c].iss) :
          call'[c] = [call[c] EXCEPT !.pc = "required", !.meta = m, !.ok = Installed(call[c].iss)]
    BY <1>0, <1>8, BecomeCalls DEF ReadApply
  <2>2. /\ call'[c].pc = "required" /\ call'[c].kind = call[c].kind /\ call'[c].iss = call[c].iss
        /\ call'[c].meta = m /\ call'[c].fresh = call[c].fresh /\ call'[c].todo = call[c].todo
        /\ call'[c].half = call[c].half /\ call'[c].retired = call[c].retired /\ call'[c].ok = Installed(call[c].iss)
        /\ call'[c].offers = call[c].offers
    BY <1>0, <2>1 DEF CallType
  <2> QED
    BY <1>2, <1>8, <2>2 DEF Solo, FetchOk, EditOk, ApplyHolds, Finished, At, Applying, WireKeys
<1> QED
  BY <1>0, <1>1, <1>3, <1>4, <1>5, <1>6, <1>7, <1>8 DEF ReadConfig, ReadCreate, CallOk, At

LEMMA PutEntrySolo == ASSUME Inv, NEW c \in Calls, Solo(c), PutEntry(c) PROVE Solo(c)'
<1>0. call[c] \in CallType /\ TypeOK /\ CallOk(c)
  BY DEF Inv, TypeOK
<1>1. PICK k \in call[c].todo :
        /\ oidc' = [oidc EXCEPT ![k] = EntryOf(c)]
        /\ call'[c] = [call[c] EXCEPT !.pc = "putKey", !.half = k]
  BY <1>0, BecomeCalls DEF PutEntry, EntryOf
<1>2. /\ call'[c].pc = "putKey" /\ call'[c].kind = call[c].kind /\ call'[c].iss = call[c].iss
      /\ call'[c].meta = call[c].meta /\ call'[c].fresh = call[c].fresh /\ call'[c].todo = call[c].todo
      /\ call'[c].half = k /\ call'[c].retired = call[c].retired /\ call'[c].ok = call[c].ok
      /\ call'[c].offers = call[c].offers
  BY <1>0, <1>1 DEF CallType
<1>3. At(c, "write") /\ keys' = keys
  BY DEF PutEntry
<1>4. k \in Kids /\ EntryOf(c)' = EntryOf(c) /\ EntryOf(c).iss = call[c].iss
  BY <1>0, <1>2 DEF CallType, EntryOf
<1>5. oidc'[k] = EntryOf(c) /\ \A j \in Kids \ {k} : oidc'[j] = oidc[j]
  BY <1>0, <1>1, <1>4 DEF TypeOK
<1>6. KeysOf(call[c].iss)' \subseteq KeysOf(call[c].iss) \cup {k}
  BY <1>2, <1>5 DEF KeysOf
<1>7. /\ call[c].kind \in {"create", "refresh"}
      /\ call[c].todo \subseteq call[c].fresh /\ call[c].fresh \subseteq KidsOf[call[c].iss]
      /\ call[c].retired \cap call[c].fresh = {}
      /\ KeysOf(call[c].iss) \subseteq call[c].retired \cup call[c].fresh
      /\ call[c].kind = "create" => call[c].retired = {}
      /\ \A j \in call[c].fresh \ call[c].todo : Written(c, j)
  BY <1>3 DEF Solo, FetchOk, At
<1>8. \A j \in call[c].fresh \ call[c].todo : Written(c, j)'
  <2> SUFFICES ASSUME NEW j \in call[c].fresh \ call[c].todo PROVE Written(c, j)'
    OBVIOUS
  <2>1. j \in Kids \ {k}
    BY <1>0 DEF CallType
  <2> QED
    BY <1>2, <1>3, <1>4, <1>5, <1>7, <2>1 DEF Written
<1>9. FetchOk(c)'
  BY <1>1, <1>2, <1>4, <1>5, <1>6, <1>7, <1>8 DEF FetchOk, Finished, At
<1> QED
  BY <1>2, <1>7, <1>9 DEF Solo, EditOk, ApplyHolds, Finished, At

LEMMA PutKeySolo == ASSUME Inv, NEW c \in Calls, Solo(c), PutKey(c) PROVE Solo(c)'
<1>0. call[c] \in CallType /\ TypeOK /\ CallOk(c)
  BY DEF Inv, TypeOK
<1> DEFINE k == call[c].half
           where == IF call[c].todo # {k} THEN "write" ELSE IF call[c].retired # {} THEN "retire" ELSE "done"
<1>1. call'[c] = [call[c] EXCEPT !.todo = @ \ {k}, !.half = Unset, !.pc = where]
  BY <1>0, BecomeCalls DEF PutKey
<1>2. /\ call'[c].pc = where /\ call'[c].kind = call[c].kind /\ call'[c].iss = call[c].iss
      /\ call'[c].meta = call[c].meta /\ call'[c].fresh = call[c].fresh /\ call'[c].todo = call[c].todo \ {k}
      /\ call'[c].retired = call[c].retired /\ call'[c].ok = call[c].ok /\ call'[c].offers = call[c].offers
  BY <1>0, <1>1 DEF CallType
<1>3. At(c, "putKey") /\ oidc' = oidc /\ keys' = [keys EXCEPT ![k] = call[c].iss]
  BY DEF PutKey
<1>4. /\ call[c].kind \in {"create", "refresh"}
      /\ call[c].todo # {} /\ call[c].todo \subseteq call[c].fresh /\ call[c].fresh \subseteq KidsOf[call[c].iss]
      /\ call[c].retired \cap call[c].fresh = {}
      /\ KeysOf(call[c].iss) \subseteq call[c].retired \cup call[c].fresh
      /\ call[c].kind = "create" => call[c].retired = {}
      /\ \A j \in call[c].fresh \ call[c].todo : Written(c, j)
      /\ k \in call[c].todo /\ oidc[k] = EntryOf(c)
  BY <1>3 DEF Solo, FetchOk, At
<1>n. EntryOf(c) # NoEntry
  BY <1>0, <1>3, <1>4, NoneAssumption DEF EntryOf, CallOk, At
<1>5. KeysOf(call[c].iss)' = KeysOf(call[c].iss) /\ EntryOf(c)' = EntryOf(c)
  BY <1>2, <1>3 DEF KeysOf, EntryOf
<1>6. \A j \in call[c].fresh \ call'[c].todo : Written(c, j)'
  <2> SUFFICES ASSUME NEW j \in call[c].fresh, j \notin call[c].todo \/ j = k PROVE Written(c, j)'
    BY <1>2
  <2>1. j \in Kids
    BY <1>0 DEF CallType
  <2> QED
    BY <1>0, <1>2, <1>3, <1>4, <1>5, <1>n, <2>1 DEF Written, TypeOK
<1>7. call'[c].pc = "write" => call'[c].todo # {}
  BY <1>2, <1>4
<1>8. call'[c].pc # "write" => call'[c].todo = {}
  BY <1>2
<1> HIDE DEF k
<1>9. FetchOk(c)'
  BY <1>2, <1>4, <1>5, <1>6, <1>7, <1>8 DEF FetchOk, Finished, At
<1> QED
  BY <1>2, <1>4, <1>9 DEF Solo, EditOk, ApplyHolds, Finished, At

LEMMA RewriteEntrySolo == ASSUME Inv, NEW c \in Calls, Solo(c), RewriteEntry(c) PROVE Solo(c)'
<1>0. call[c] \in CallType /\ TypeOK /\ CallOk(c)
  BY DEF Inv, TypeOK
<1>1. PICK k \in call[c].todo :
        /\ oidc' = [oidc EXCEPT ![k] = EntryOf(c)]
        /\ call'[c] = [call[c] EXCEPT !.todo = @ \ {k}, !.pc = IF call[c].todo = {k} THEN "done" ELSE @]
  BY <1>0, BecomeCalls DEF RewriteEntry, EntryOf
<1>2. /\ call'[c].pc = (IF call[c].todo = {k} THEN "done" ELSE call[c].pc) /\ call'[c].kind = call[c].kind /\ call'[c].iss = call[c].iss
      /\ call'[c].meta = call[c].meta /\ call'[c].fresh = call[c].fresh /\ call'[c].todo = call[c].todo \ {k}
      /\ call'[c].half = call[c].half /\ call'[c].retired = call[c].retired /\ call'[c].ok = call[c].ok
      /\ call'[c].offers = call[c].offers
  BY <1>0, <1>1 DEF CallType
<1>3. /\ At(c, "rewrite") /\ call[c].kind = "update" /\ call[c].todo \subseteq KeysOf(call[c].iss)
      /\ \A j \in KeysOf(call[c].iss) \ call[c].todo : oidc[j].meta = call[c].meta
  BY DEF RewriteEntry, Solo, EditOk, At
<1>4. k \in Kids /\ EntryOf(c).iss = call[c].iss /\ EntryOf(c).meta = call[c].meta /\ EntryOf(c) # NoEntry
  BY <1>0, <1>3, NoneAssumption DEF CallType, EntryOf, CallOk, At
<1>5. oidc'[k] = EntryOf(c) /\ \A j \in Kids \ {k} : oidc'[j] = oidc[j]
  BY <1>0, <1>1, <1>4 DEF TypeOK
<1>6. KeysOf(call[c].iss)' = KeysOf(call[c].iss)
  BY <1>1, <1>2, <1>3, <1>4, <1>5 DEF KeysOf
<1>7. \A j \in KeysOf(call[c].iss) \ (call[c].todo \ {k}) : oidc'[j].meta = call[c].meta
  BY <1>3, <1>4, <1>5 DEF KeysOf
<1>8. EditOk(c)'
  BY <1>1, <1>2, <1>3, <1>6, <1>7 DEF EditOk, Finished, At
<1> QED
  BY <1>2, <1>3, <1>8 DEF Solo, FetchOk, ApplyHolds, Finished, At

LEMMA RetireEntrySolo == ASSUME Inv, NEW c \in Calls, Solo(c), RetireEntry(c) PROVE Solo(c)'
<1>0. call[c] \in CallType /\ TypeOK /\ CallOk(c)
  BY DEF Inv, TypeOK
<1>1. PICK k \in call[c].retired :
        /\ oidc' = [oidc EXCEPT ![k] = NoEntry]
        /\ call'[c] = [call[c] EXCEPT !.retired = @ \ {k},
             !.pc = IF call[c].retired # {k} THEN @ ELSE IF call[c].kind = "delete" THEN "list" ELSE "done"]
  BY <1>0, BecomeCalls DEF RetireEntry
<1>2. /\ call'[c].pc = (IF call[c].retired # {k} THEN call[c].pc ELSE IF call[c].kind = "delete" THEN "list" ELSE "done") /\ call'[c].kind = call[c].kind /\ call'[c].iss = call[c].iss
      /\ call'[c].meta = call[c].meta /\ call'[c].fresh = call[c].fresh /\ call'[c].todo = call[c].todo
      /\ call'[c].half = call[c].half /\ call'[c].retired = call[c].retired \ {k} /\ call'[c].ok = call[c].ok
      /\ call'[c].offers = call[c].offers
  BY <1>0, <1>1 DEF CallType
<1>3. At(c, "retire") /\ keys' = keys
  BY DEF RetireEntry
<1>4. CASE call[c].kind = "delete"
  BY <1>2, <1>3, <1>4 DEF Solo, FetchOk, EditOk, ApplyHolds, Finished, At
<1>5. CASE call[c].kind # "delete"
  <2>1. /\ call[c].kind = "refresh" /\ call[c].fresh # {} /\ call[c].retired \cap call[c].fresh = {}
        /\ KeysOf(call[c].iss) \subseteq call[c].retired \cup call[c].fresh
        /\ \A j \in call[c].fresh : Written(c, j)
    BY <1>3, <1>5 DEF Solo, FetchOk, At
  <2>2. k \in Kids /\ oidc'[k] = NoEntry /\ \A j \in Kids \ {k} : oidc'[j] = oidc[j]
    BY <1>0, <1>1 DEF TypeOK, CallType
  <2>3. KeysOf(call[c].iss)' \subseteq KeysOf(call[c].iss) \ {k}
    BY <1>2, <2>2 DEF KeysOf
  <2>4. \A j \in call[c].fresh : Written(c, j)'
    <3> SUFFICES ASSUME NEW j \in call[c].fresh PROVE Written(c, j)'
      OBVIOUS
    <3>1. j \in Kids \ {k} /\ Written(c, j)
      BY <1>0, <1>1, <2>1 DEF CallType
    <3> QED
      BY <1>2, <1>3, <2>2, <3>1 DEF Written, EntryOf
  <2>5. FetchOk(c)'
    BY <1>1, <1>2, <1>3, <2>1, <2>3, <2>4 DEF FetchOk, Finished, At
  <2> QED
    BY <1>2, <1>3, <2>1, <2>5 DEF Solo, EditOk, ApplyHolds, Finished, At
<1> QED
  BY <1>4, <1>5

LEMMA ConfigureAuthSolo == ASSUME Inv, NEW c \in Calls, Solo(c), ConfigureAuth(c) PROVE Solo(c)'
<1>0. call[c] \in CallType /\ TypeOK /\ CallOk(c) /\ ApplyOk(c)
  BY DEF Inv, TypeOK
<1>1. call'[c] = [call[c] EXCEPT !.pc = AfterWire(call[c].pc)] /\ UNCHANGED config
  BY <1>0, BecomeCalls DEF ConfigureAuth, GoTo
<1>2. /\ call'[c].pc = AfterWire(call[c].pc) /\ call'[c].kind = call[c].kind /\ call'[c].iss = call[c].iss
      /\ call'[c].meta = call[c].meta /\ call'[c].fresh = call[c].fresh /\ call'[c].todo = call[c].todo
      /\ call'[c].half = call[c].half /\ call'[c].retired = call[c].retired /\ call'[c].ok = call[c].ok
      /\ call'[c].offers = call[c].offers
  BY <1>0, <1>1 DEF CallType
<1>3. call[c].pc \in WireKeys /\ call[c].kind = "apply"
  BY <1>0 DEF ConfigureAuth, TypeOK, CallOk
<1>4. /\ wiring' = [wiring EXCEPT ![call[c].pc] = IF call[c].pc \in {"name", "path"} THEN call[c].meta ELSE Set]
      /\ wiring \in [WireKeys -> Metas \cup {Set, Unset}]
  BY <1>0 DEF ConfigureAuth, TypeOK
<1>5. \A i : MetasOf(i)' = MetasOf(i) /\ (Installed(i)' <=> Installed(i))
  BY <1>1, ConfigKept
<1>6. call[c].meta \in MetasOf(call[c].iss) /\ (call[c].ok => Installed(call[c].iss)) /\ call[c].meta # Unset
  BY <1>0, <1>3, MetasAssumption DEF Solo, ApplyHolds, Applying, CallOk
<1>7. call'[c].pc \in {"name", "path", "handlers", "list", "done"}
  BY <1>2, <1>3 DEF AfterWire, WireKeys
<1>8. ApplyHolds(c)'
  <2>1. CASE call[c].pc = "required"
    <3>1. call'[c].pc = "name"
      BY <1>2, <2>1 DEF AfterWire
    <3> QED
      BY <1>2, <1>5, <1>6, <3>1 DEF ApplyHolds, Applying, WireKeys
  <2>2. CASE call[c].pc = "name"
    <3>1. call'[c].pc = "path" /\ wiring'["name"] = call[c].meta
      BY <1>2, <1>4, <2>2 DEF AfterWire, WireKeys
    <3> QED
      BY <1>2, <1>5, <1>6, <3>1 DEF ApplyHolds, Applying, WireKeys
  <2>3. CASE call[c].pc = "path"
    <3>1. call'[c].pc = "handlers" /\ wiring'["name"] = wiring["name"] /\ wiring'["path"] = call[c].meta
      BY <1>2, <1>4, <2>3 DEF AfterWire, WireKeys
    <3>2. wiring["name"] = call[c].meta
      BY <1>3, <2>3 DEF Solo, ApplyHolds, Applying, WireKeys
    <3> QED
      BY <1>2, <1>5, <1>6, <3>1, <3>2 DEF ApplyHolds, Applying, WireKeys
  <2>4. CASE call[c].pc = "handlers"
    <3>1. call'[c].pc = (IF Native THEN "done" ELSE "list")
      BY <1>2, <2>4 DEF AfterWire
    <3>2. wiring["name"] = call[c].meta /\ wiring["path"] = call[c].meta
      BY <1>3, <2>4 DEF Solo, ApplyHolds, Applying, WireKeys
    <3>3. \A w \in WireKeys \ {"handlers"} : wiring'[w] = wiring[w] /\ wiring[w] # Unset
      BY <1>0, <1>4, <2>4 DEF ApplyOk, At, WireKeys
    <3>4. wiring'["handlers"] = Set
      BY <1>4, <2>4 DEF WireKeys
    <3>5. Wired'
      BY <1>4, <3>3, <3>4, MetasAssumption DEF Wired, WireKeys
    <3> QED
      BY <1>2, <1>5, <1>6, <3>1, <3>2, <3>3, <3>5 DEF ApplyHolds, Applying, WireKeys
  <2> QED
    BY <1>3, <2>1, <2>2, <2>3, <2>4 DEF WireKeys
<1> QED
  BY <1>2, <1>3, <1>7, <1>8 DEF Solo, FetchOk, EditOk, Finished, At

LEMMA PublishSolo ==
  ASSUME Inv, NEW c \in Calls, Solo(c), ListIdps(c) \/ CreateDb(c) \/ OpenDb(c) \/ GetDoc(c) \/ PutDoc(c)
  PROVE  Solo(c)'
<1>0. call[c] \in CallType /\ TypeOK /\ CallOk(c) /\ ApplyOk(c)
  BY DEF Inv, TypeOK
<1>1. UNCHANGED config /\ UNCHANGED wiring
  BY DEF ListIdps, CreateDb, OpenDb, GetDoc, PutDoc
<1>2. \A i : MetasOf(i)' = MetasOf(i) /\ (Installed(i)' <=> Installed(i))
  BY <1>1, ConfigKept
<1>3. CASE ListIdps(c) /\ call[c].kind # "apply"
  <2>1. call[c].kind \in {"delete", "allow", "disallow"}
    BY <1>0, <1>3 DEF ListIdps, CallOk, At
  <2>2. PICK where \in {"policy", "csp"} : \E o : call'[c] = [call[c] EXCEPT !.pc = where, !.origins = o]
    BY <1>0, <1>3, BecomeCalls DEF ListIdps, ListForPolicy
  <2>3. call'[c].kind = call[c].kind /\ call'[c].pc = where
    BY <1>0, <2>2 DEF CallType
  <2> QED
    BY <2>1, <2>3 DEF Solo, FetchOk, EditOk, ApplyHolds, Finished, At
<1>4. CASE ListIdps(c) /\ call[c].kind = "apply"
  <2>1. PICK m \in [Listed -> Metas] :
          /\ \A i \in Listed : m[i] \in MetasOf(i)
          /\ call'[c] = [call[c] EXCEPT !.pc = "createDb", !.offers = Offers(m)]
    BY <1>0, <1>4, BecomeCalls DEF ListIdps, ListForDoc
  <2>2. /\ call'[c].pc = "createDb" /\ call'[c].kind = call[c].kind /\ call'[c].iss = call[c].iss
        /\ call'[c].meta = call[c].meta /\ call'[c].fresh = call[c].fresh /\ call'[c].todo = call[c].todo
        /\ call'[c].half = call[c].half /\ call'[c].retired = call[c].retired /\ call'[c].ok = call[c].ok
        /\ call'[c].offers = Offers(m)
    BY <1>0, <2>1 DEF CallType
  <2>3. /\ call[c].meta \in MetasOf(call[c].iss) /\ (call[c].ok => Installed(call[c].iss))
        /\ wiring["name"] = call[c].meta /\ wiring["path"] = call[c].meta
    BY <1>4 DEF Solo, ApplyHolds, Applying, WireKeys, ListIdps, At
  <2>4. call[c].iss \in Listed
    BY <1>0, <1>4, <2>3 DEF Listed, MetasOf, CallOk
  <2>5. MetasOf(call[c].iss) \subseteq Public => \E o \in Offers(m) : o.iss = call[c].iss
    <3> SUFFICES ASSUME MetasOf(call[c].iss) \subseteq Public PROVE \E o \in Offers(m) : o.iss = call[c].iss
      OBVIOUS
    <3> DEFINE o == [iss |-> call[c].iss, meta |-> m[call[c].iss]]
    <3>1. o \in Offers(m)
      BY <2>1, <2>4 DEF Offers
    <3> QED
      BY <3>1
  <2>6. ApplyHolds(c)'
    <3>1. wiring'["name"] = call[c].meta /\ wiring'["path"] = call[c].meta
      BY <1>1, <2>3
    <3>2. call[c].meta \in MetasOf(call[c].iss)' /\ (call[c].ok => Installed(call[c].iss)')
      BY <1>2, <2>2, <2>3
    <3>3. MetasOf(call[c].iss)' \subseteq Public => \E o \in call'[c].offers : o.iss = call[c].iss
      BY <1>2, <2>2, <2>5
    <3> QED
      BY <1>4, <2>2, <3>1, <3>2, <3>3 DEF ApplyHolds, Applying, WireKeys
  <2> QED
    BY <1>4, <2>2, <2>6 DEF Solo, FetchOk, EditOk, Finished, At
<1>5. CASE CreateDb(c) \/ OpenDb(c) \/ GetDoc(c) \/ PutDoc(c)
  <2>1. PICK where \in {"openDb", "getDoc", "putDoc", "done"} :
          /\ call'[c] = [call[c] EXCEPT !.pc = where] \/ \E rev : call'[c] = [call[c] EXCEPT !.pc = where, !.rev = rev]
          /\ where = "done" => PutDoc(c)
    <3>1. CASE CreateDb(c)
      BY <1>0, <3>1, BecomeCalls DEF CreateDb, GoTo
    <3>2. CASE OpenDb(c)
      BY <1>0, <3>2, BecomeCalls DEF OpenDb, GoTo
    <3>3. CASE GetDoc(c)
      <4>1. \E rev : call'[c] = [call[c] EXCEPT !.pc = "putDoc", !.rev = rev]
        BY <1>0, <3>3, BecomeCalls DEF GetDoc
      <4> QED
        BY <4>1
    <3>4. CASE PutDoc(c)
      BY <1>0, <3>4, BecomeCalls DEF PutDoc, GoTo
    <3> QED
      BY <1>5, <3>1, <3>2, <3>3, <3>4
  <2>2. /\ call'[c].pc = where /\ call'[c].kind = call[c].kind /\ call'[c].iss = call[c].iss
        /\ call'[c].meta = call[c].meta /\ call'[c].fresh = call[c].fresh /\ call'[c].todo = call[c].todo
        /\ call'[c].half = call[c].half /\ call'[c].retired = call[c].retired /\ call'[c].ok = call[c].ok
        /\ call'[c].offers = call[c].offers
    BY <1>0, <2>1 DEF CallType
  <2>3. call[c].pc \in {"createDb", "openDb", "getDoc", "putDoc"} /\ Wired /\ Wired'
    BY <1>0, <1>1, <1>5 DEF CreateDb, OpenDb, GetDoc, PutDoc, At, ApplyOk, Wired
  <2>4. ASSUME where = "done" PROVE doc'.offers = call[c].offers
    <3>1. PutDoc(c)
      BY <2>1, <2>4
    <3> QED
      BY <3>1 DEF PutDoc
  <2>5. ApplyHolds(c)'
    BY <1>1, <1>2, <2>2, <2>3, <2>4 DEF Solo, ApplyHolds, Applying, WireKeys
  <2>6. call[c].kind = "apply"
    BY <2>3 DEF Solo, ApplyHolds
  <2> QED
    BY <2>2, <2>5, <2>6 DEF Solo, FetchOk, EditOk, Finished, At
<1> QED
  BY <1>3, <1>4, <1>5

LEMMA StepSolo == ASSUME Inv, NEW c \in Calls, Solo(c), Step(c) PROVE Solo(c)'
  BY StepElsewhereSolo, DiscoverSolo, ReadConfigSolo, PutEntrySolo, PutKeySolo, RewriteEntrySolo, RetireEntrySolo,
     ConfigureAuthSolo, PublishSolo DEF Step

LEMMA BeginSolo == ASSUME TypeOK, NEW c \in Calls, Begin(c) PROVE Solo(c)'
<1> DEFINE next(kind, where, i, m) == [Idle EXCEPT !.pc = where, !.kind = kind, !.iss = i, !.meta = m]
           Then(kind, where) == \E i, m : Become(c, next(kind, where, i, m))
<1>1. ASSUME NEW kind, NEW where, Then(kind, where)
      PROVE  call'[c].pc = where /\ call'[c].kind = kind /\ call'[c].retired = {}
  <2>1. PICK i, m : Become(c, next(kind, where, i, m))
    BY <1>1
  <2>2. call'[c] = next(kind, where, i, m)
    BY <2>1, BecomeCalls
  <2> QED
    BY <2>2 DEF Idle
<1>2. \/ Then("create", "discover") \/ Then("update", "read")
      \/ \E kind \in {"refresh", "delete", "apply"} : Then(kind, "read")
      \/ \E kind \in {"allow", "disallow"}, where \in {"list", "policy"} : Then(kind, where)
  <2>1. CASE StartCreate(c)
    BY <2>1 DEF StartCreate, Start
  <2>2. CASE StartUpdate(c)
    BY <2>2 DEF StartUpdate, Start
  <2>3. CASE StartOther(c)
    BY <2>3 DEF StartOther, Start
  <2>4. CASE StartSwitch(c)
    BY <2>4 DEF StartSwitch, Start
  <2> QED
    BY <2>1, <2>2, <2>3, <2>4 DEF Begin
<1> HIDE DEF Then
<1>3. CASE Then("create", "discover")
  <2>1. call'[c].pc = "discover" /\ call'[c].kind = "create" /\ call'[c].retired = {}
    BY <1>1, <1>3
  <2> QED
    BY <2>1 DEF Solo, FetchOk, EditOk, ApplyHolds, Finished, At
<1>4. CASE \E kind \in {"update", "refresh", "delete", "apply"} : Then(kind, "read")
  <2>1. call'[c].pc = "read" /\ call'[c].kind \in {"update", "refresh", "delete", "apply"}
    BY <1>1, <1>4
  <2> QED
    BY <2>1 DEF Solo, FetchOk, EditOk, ApplyHolds, Applying, WireKeys, Finished, At
<1>5. CASE \E kind \in {"allow", "disallow"}, where \in {"list", "policy"} : Then(kind, where)
  <2>1. call'[c].pc \in {"list", "policy"} /\ call'[c].kind \in {"allow", "disallow"}
    BY <1>1, <1>5
  <2> QED
    BY <2>1 DEF Solo, FetchOk, EditOk, ApplyHolds, Finished, At
<1> QED
  BY <1>2, <1>3, <1>4, <1>5

\* A key id is one its issuer may choose, wherever a call has put it or is going to take it away.
Own(c) ==
  call[c].kind = "refresh" /\ call[c].pc \in {"discover", "write", "putKey", "retire"} =>
    call[c].retired \subseteq KidsOf[call[c].iss]
Chosen == \A k \in Kids : oidc[k] # NoEntry => k \in KidsOf[oidc[k].iss]

SoloInv == AloneInv /\ Chosen /\ \A c \in Calls : Solo(c) /\ Own(c)

LEMMA StepChosen ==
  ASSUME Inv, NEW c \in Calls, Solo(c), Own(c), Chosen, Step(c)
  PROVE  Chosen' /\ Own(c)'
<1>0. call[c] \in CallType /\ TypeOK /\ CallOk(c)
  BY DEF Inv, TypeOK
<1>1. Chosen'
  <2>1. CASE PutEntry(c)
    <3>1. PICK k \in call[c].todo : oidc' = [oidc EXCEPT ![k] = EntryOf(c)]
      BY <2>1 DEF PutEntry, EntryOf
    <3>2. k \in KidsOf[call[c].iss] /\ k \in Kids
      BY <1>0, <2>1 DEF PutEntry, Solo, FetchOk, At, CallType
    <3>3. oidc'[k].iss = call[c].iss /\ \A j \in Kids \ {k} : oidc'[j] = oidc[j]
      BY <1>0, <3>1, <3>2 DEF EntryOf, TypeOK
    <3> QED
      BY <3>2, <3>3 DEF Chosen
  <2>2. CASE RewriteEntry(c)
    <3>1. PICK k \in call[c].todo : oidc' = [oidc EXCEPT ![k] = EntryOf(c)]
      BY <2>2 DEF RewriteEntry, EntryOf
    <3>2. k \in KidsOf[call[c].iss] /\ k \in Kids
      BY <1>0, <2>2 DEF RewriteEntry, Solo, EditOk, At, CallType, KeysOf, Chosen
    <3>3. oidc'[k].iss = call[c].iss /\ \A j \in Kids \ {k} : oidc'[j] = oidc[j]
      BY <1>0, <3>1, <3>2 DEF EntryOf, TypeOK
    <3> QED
      BY <3>2, <3>3 DEF Chosen
  <2>3. CASE RetireEntry(c)
    BY <1>0, <2>3 DEF RetireEntry, TypeOK, Chosen
  <2>4. CASE UNCHANGED oidc
    BY <2>4 DEF Chosen
  <2> QED
    BY <2>1, <2>2, <2>3, <2>4 DEF Step, Discover, ReadConfig, PutKey, ConfigureAuth, ListIdps, CreateDb, OpenDb, GetDoc,
       PutDoc, ReadPolicy, WritePolicy, ApplyNew, DeleteFails, End, config
<1>2. Own(c)'
  <2>1. CASE Discover(c)
    <3>1. PICK fresh \in (SUBSET KidsOf[call[c].iss]) \ {{}} :
            call'[c] = [call[c] EXCEPT !.pc = IF call[c].kind = "create" THEN "read" ELSE "write",
                                       !.fresh = fresh, !.todo = fresh, !.retired = @ \ fresh]
      BY <1>0, <2>1, BecomeCalls DEF Discover
    <3>2. /\ call'[c].kind = call[c].kind /\ call'[c].iss = call[c].iss
          /\ call'[c].retired \subseteq call[c].retired
      BY <1>0, <3>1 DEF CallType
    <3> QED
      BY <2>1, <3>2 DEF Own, Discover, At
  <2>2. CASE ReadConfig(c)
    <3>1. CASE call[c].kind = "refresh" /\ call[c].iss \in Listed
      <4>1. PICK m : call'[c] = [call[c] EXCEPT !.pc = "discover", !.meta = m, !.retired = KeysOf(call[c].iss)]
        BY <1>0, <2>2, <3>1, BecomeCalls DEF ReadConfig, ReadRefresh
      <4>2. call'[c].iss = call[c].iss /\ call'[c].retired = KeysOf(call[c].iss)
        BY <1>0, <4>1 DEF CallType
      <4> QED
        BY <4>2 DEF Own, KeysOf, Chosen
    <3>2. CASE Become(c, Over)
      <4>1. call'[c].kind = "none"
        BY <1>0, <3>2, BecomeCalls DEF Over, Idle
      <4> QED
        BY <4>1 DEF Own
    <3>3. CASE call[c].kind # "refresh"
      <4>1. \/ call'[c] = Over
            \/ call'[c] = [call[c] EXCEPT !.pc = "write"]
            \/ call'[c] = [call[c] EXCEPT !.pc = "rewrite", !.todo = KeysOf(call[c].iss)]
            \/ \E where : call'[c] = [call[c] EXCEPT !.pc = where, !.retired = KeysOf(call[c].iss)]
            \/ \E m : call'[c] = [call[c] EXCEPT !.pc = "required", !.meta = m, !.ok = Installed(call[c].iss)]
        <5>1. CASE call[c].kind = "create"
          BY <1>0, <2>2, <5>1, BecomeCalls DEF ReadConfig, ReadCreate, GoTo
        <5>2. CASE call[c].kind = "update"
          BY <1>0, <2>2, <5>2, BecomeCalls DEF ReadConfig, ReadUpdate
        <5>3. CASE call[c].kind = "delete"
          BY <1>0, <2>2, <5>3, BecomeCalls DEF ReadConfig, ReadDelete
        <5>4. CASE call[c].kind = "apply"
          BY <1>0, <2>2, <5>4, BecomeCalls DEF ReadConfig, ReadApply
        <5> QED
          BY <1>0, <2>2, <3>3, <5>1, <5>2, <5>3, <5>4 DEF CallOk, ReadConfig, At
      <4>2. call'[c].kind \in {"none", call[c].kind}
        BY <1>0, <4>1 DEF CallType, Over, Idle
      <4> QED
        BY <3>3, <4>2 DEF Own
    <3> QED
      BY <2>2, <3>1, <3>2, <3>3 DEF ReadConfig
  <2>3. CASE PutEntry(c)
    <3>1. PICK k : call'[c] = [call[c] EXCEPT !.pc = "putKey", !.half = k]
      BY <1>0, <2>3, BecomeCalls DEF PutEntry
    <3>2. call'[c].kind = call[c].kind /\ call'[c].iss = call[c].iss /\ call'[c].retired = call[c].retired
      BY <1>0, <3>1 DEF CallType
    <3> QED
      BY <2>3, <3>2 DEF Own, PutEntry, At
  <2>4. CASE PutKey(c)
    <3>1. call'[c] = [call[c] EXCEPT !.todo = @ \ {call[c].half}, !.half = Unset,
            !.pc = IF call[c].todo # {call[c].half} THEN "write" ELSE IF call[c].retired # {} THEN "retire" ELSE "done"]
      BY <1>0, <2>4, BecomeCalls DEF PutKey
    <3>2. call'[c].kind = call[c].kind /\ call'[c].iss = call[c].iss /\ call'[c].retired = call[c].retired
      BY <1>0, <3>1 DEF CallType
    <3> QED
      BY <2>4, <3>2 DEF Own, PutKey, At
  <2>5. CASE RetireEntry(c)
    <3>1. PICK k \in call[c].retired :
            call'[c] = [call[c] EXCEPT !.retired = @ \ {k},
              !.pc = IF call[c].retired # {k} THEN @ ELSE IF call[c].kind = "delete" THEN "list" ELSE "done"]
      BY <1>0, <2>5, BecomeCalls DEF RetireEntry
    <3>2. /\ call'[c].kind = call[c].kind /\ call'[c].iss = call[c].iss
          /\ call'[c].retired \subseteq call[c].retired
      BY <1>0, <3>1 DEF CallType
    <3> QED
      BY <2>5, <3>2 DEF Own, RetireEntry, At
  <2>6. CASE RewriteEntry(c)
    <3>1. PICK k \in call[c].todo :
            call'[c] = [call[c] EXCEPT !.todo = @ \ {k}, !.pc = IF call[c].todo = {k} THEN "done" ELSE @]
      BY <1>0, <2>6, BecomeCalls DEF RewriteEntry
    <3>2. call[c].kind = "update" /\ call'[c].kind = call[c].kind
      BY <1>0, <2>6, <3>1 DEF CallType, RewriteEntry, Solo, EditOk, At
    <3> QED
      BY <3>2 DEF Own
  <2>7. CASE ApplyNew(c)
    <3>1. call'[c] = [Idle EXCEPT !.pc = "read", !.kind = "apply", !.iss = call[c].iss]
      BY <1>0, <2>7, BecomeCalls DEF ApplyNew
    <3>2. call'[c].kind = "apply"
      BY <3>1 DEF Idle
    <3> QED
      BY <3>2 DEF Own
  <2>8. CASE DeleteFails(c)
    <3>1. call'[c] = [call[c] EXCEPT !.pc = "list", !.retired = {}]
      BY <1>0, <2>8, BecomeCalls DEF DeleteFails
    <3>2. call'[c].retired = {}
      BY <1>0, <3>1 DEF CallType
    <3> QED
      BY <3>2 DEF Own
  <2>9. CASE End(c)
    <3>1. call'[c].kind = "none"
      BY <1>0, <2>9, BecomeCalls DEF End, Over, Idle
    <3> QED
      BY <3>1 DEF Own
  <2>10. CASE ConfigureAuth(c) \/ ListIdps(c) \/ CreateDb(c) \/ OpenDb(c) \/ GetDoc(c) \/ PutDoc(c)
              \/ ReadPolicy(c) \/ WritePolicy(c)
    <3>1. call[c].kind # "refresh"
      BY <1>0, <2>10 DEF ConfigureAuth, ListIdps, CreateDb, OpenDb, GetDoc, PutDoc, ReadPolicy, WritePolicy, At,
         CallOk, TypeOK, Solo, ApplyHolds
    <3>2. call'[c].kind = call[c].kind
      <4>1. CASE ConfigureAuth(c) \/ CreateDb(c) \/ OpenDb(c) \/ PutDoc(c) \/ WritePolicy(c)
        <5>1. \E where : call'[c] = [call[c] EXCEPT !.pc = where]
          BY <1>0, <4>1, BecomeCalls DEF ConfigureAuth, CreateDb, OpenDb, PutDoc, WritePolicy, GoTo
        <5> QED
          BY <1>0, <5>1 DEF CallType
      <4>2. CASE GetDoc(c)
        <5>1. \E rev : call'[c] = [call[c] EXCEPT !.pc = "putDoc", !.rev = rev]
          BY <1>0, <4>2, BecomeCalls DEF GetDoc
        <5> QED
          BY <1>0, <5>1 DEF CallType
      <4>3. CASE ReadPolicy(c)
        <5>1. \E where : call'[c] = [call[c] EXCEPT !.pc = where, !.policy = csp]
          BY <1>0, <4>3, BecomeCalls DEF ReadPolicy
        <5> QED
          BY <1>0, <5>1 DEF CallType
      <4>4. CASE ListIdps(c)
        <5>1. CASE call[c].kind = "apply"
          <6>1. \E o : call'[c] = [call[c] EXCEPT !.pc = "createDb", !.offers = o]
            BY <1>0, <4>4, <5>1, BecomeCalls DEF ListIdps, ListForDoc
          <6> QED
            BY <1>0, <6>1 DEF CallType
        <5>2. CASE call[c].kind # "apply"
          <6>1. call'[c] = [call[c] EXCEPT !.pc = IF call[c].policy = Unset THEN "policy" ELSE "csp",
                  !.origins = IF call[c].kind = "delete" THEN Releasable(call[c].iss) ELSE Required(Listed)]
            BY <1>0, <4>4, <5>2, BecomeCalls DEF ListIdps, ListForPolicy
          <6> QED
            BY <1>0, <6>1 DEF CallType
        <5> QED
          BY <5>1, <5>2
      <4> QED
        BY <2>10, <4>1, <4>2, <4>3, <4>4
    <3> QED
      BY <3>1, <3>2 DEF Own
  <2> QED
    BY <2>1, <2>2, <2>3, <2>4, <2>5, <2>6, <2>7, <2>8, <2>9, <2>10 DEF Step
<1> QED
  BY <1>1, <1>2

LEMMA SoloInvInit == Init => SoloInv
<1> SUFFICES ASSUME Init PROVE SoloInv
  OBVIOUS
<1>1. \A c \in Calls : call[c] = Idle
  BY DEF Init
<1>2. Idle.pc = "idle" /\ Idle.kind = "none"
  BY DEF Idle
<1>3. AloneInv
  BY <1>1, <1>2, InvInit DEF AloneInv, Alone, PolicyOk, Active, At
<1>4. \A c \in Calls : Solo(c) /\ Own(c)
  BY <1>1, <1>2 DEF Solo, Own, FetchOk, EditOk, ApplyHolds, Finished, At
<1>5. Chosen
  BY DEF Init, Untouched, LeftBehind, Chosen
<1> QED
  BY <1>3, <1>4, <1>5 DEF SoloInv

LEMMA SoloInvNext == ASSUME Exclusive, SoloInv, [Next]_vars PROVE SoloInv'
<1>0. AloneInv' /\ Inv /\ TypeOK
  BY AloneInvNext DEF SoloInv, AloneInv, Inv
<1>i. ASSUME NEW d \in Calls, ~Active(d), call'[d] = call[d] PROVE Solo(d)' /\ Own(d)'
  <2>1. call[d].pc \in {"idle", "over"} /\ (call[d].kind = "create" => call[d].retired = {})
    BY <1>i DEF Active, At, SoloInv, Solo, FetchOk
  <2> QED
    BY <1>i, <2>1 DEF Solo, Own, FetchOk, EditOk, ApplyHolds, Applying, WireKeys, Finished, At
<1>1. ASSUME NEW c \in Calls, Begin(c) PROVE Chosen' /\ \A d \in Calls : Solo(d)' /\ Own(d)'
  <2>1. /\ \A d \in Calls : ~Active(d)
        /\ \A d \in Calls \ {c} : call'[d] = call[d]
        /\ oidc' = oidc
    BY <1>0, <1>1, BeginOk DEF Begin, StartCreate, StartUpdate, StartOther, StartSwitch, Start, config
  <2>2. Solo(c)'
    BY <1>0, <1>1, BeginSolo
  <2>3. Own(c)'
    <3> DEFINE next(kind, where, i, m) == [Idle EXCEPT !.pc = where, !.kind = kind, !.iss = i, !.meta = m]
    <3>1. PICK kind, where, i, m : Become(c, next(kind, where, i, m))
      BY <1>1 DEF Begin, StartCreate, StartUpdate, StartOther, StartSwitch, Start
    <3>2. call'[c] = next(kind, where, i, m)
      BY <1>0, <3>1, BecomeCalls
    <3>3. call'[c].retired = {}
      BY <3>2 DEF Idle
    <3> QED
      BY <3>3 DEF Own
  <2> QED
    BY <1>i, <2>1, <2>2, <2>3 DEF SoloInv, Chosen
<1>2. ASSUME NEW c \in Calls, Step(c) PROVE Chosen' /\ \A d \in Calls : Solo(d)' /\ Own(d)'
  <2>1. \A d \in Calls \ {c} : call'[d] = call[d]
    BY <1>0, <1>2, StepOk DEF Inv
  <2>2. \A d \in Calls \ {c} : ~Active(d)
    BY <1>0, <1>2, StepPolicyOk DEF SoloInv, AloneInv, Alone
  <2>3. Chosen' /\ Solo(c)' /\ Own(c)'
    BY <1>0, <1>2, StepSolo, StepChosen DEF SoloInv
  <2> QED
    BY <1>i, <2>1, <2>2, <2>3
<1>3. ASSUME UNCHANGED <<oidc, keys, wiring, doc, call>> PROVE Chosen' /\ \A d \in Calls : Solo(d)' /\ Own(d)'
  BY <1>3 DEF SoloInv, Chosen, Solo, Own, FetchOk, EditOk, ApplyHolds, Applying, Finished, At, Written, EntryOf,
     KeysOf, MetasOf, Installed, Wired
<1>4. UNCHANGED vars \/ Restart => UNCHANGED <<oidc, keys, wiring, doc, call>>
  BY DEF vars, Restart, config, discovery
<1> QED
  BY <1>0, <1>1, <1>2, <1>3, <1>4 DEF Next, SoloInv

LEMMA SoloHolds == ASSUME Exclusive PROVE Spec => []SoloInv
  BY SoloInvInit, SoloInvNext, PTL DEF Spec

\* One call at a time, and whatever earlier failures and hand edits left, a registration, refresh
\* or edit that ends leaves one provider: entries that agree, each with its key, and no others.
THEOREM ProvidersAreWhole == ASSUME Exclusive PROVE Spec => []ProviderWhole
<1>1. ASSUME SoloInv PROVE ProviderWhole
  <2> SUFFICES ASSUME NEW c \in Calls
               PROVE  LET i == call[c].iss IN
                 /\ Finished(c, {"create", "refresh", "update"}) => MetasOf(i) = {call[c].meta}
                 /\ Finished(c, {"create", "refresh"}) => KeysOf(i) = call[c].fresh /\ \A k \in KeysOf(i) : keys[k] = i
    BY DEF ProviderWhole
  <2>0. TypeOK /\ call[c] \in CallType /\ CallOk(c) /\ Solo(c)
    BY <1>1 DEF SoloInv, AloneInv, Inv, TypeOK
  <2> DEFINE i == call[c].iss
  <2>1. CASE Finished(c, {"create", "refresh"})
    <3>1. call[c].fresh # {} /\ KeysOf(i) \subseteq call[c].fresh /\ \A k \in call[c].fresh : Written(c, k)
      BY <2>0, <2>1 DEF Solo, FetchOk
    <3>2. call[c].fresh \subseteq Kids
      BY <2>0 DEF CallType
    <3>3. \A k \in call[c].fresh : oidc[k] = EntryOf(c) /\ oidc[k] # NoEntry /\ keys[k] = i
      BY <3>1 DEF Written
    <3>4. EntryOf(c).iss = i /\ EntryOf(c).meta = call[c].meta
      BY DEF EntryOf
    <3>5. KeysOf(i) = call[c].fresh
      BY <3>1, <3>2, <3>3, <3>4 DEF KeysOf
    <3>6. MetasOf(i) = {call[c].meta}
      BY <3>1, <3>3, <3>4, <3>5 DEF MetasOf
    <3> QED
      BY <2>1, <3>3, <3>5, <3>6
  <2>2. CASE Finished(c, {"update"})
    <3>1. KeysOf(i) # {} /\ \A k \in KeysOf(i) : oidc[k].meta = call[c].meta
      BY <2>0, <2>2 DEF Solo, EditOk
    <3>2. MetasOf(i) = {call[c].meta}
      BY <3>1 DEF MetasOf
    <3> QED
      BY <2>2, <3>2 DEF Finished
  <2> QED
    BY <2>1, <2>2 DEF Finished
<1> QED
  BY <1>1, SoloHolds, PTL

\* One call at a time, an apply that reports no error has wired this provider's roles claim, found
\* its keys installed, and offers it if a login can use it.
THEOREM AppliedIsUsable == ASSUME Exclusive PROVE Spec => []AppliedMeansUsable
<1>1. ASSUME SoloInv PROVE AppliedMeansUsable
  <2> SUFFICES ASSUME NEW c \in Calls, Finished(c, {"apply"}), call[c].ok
               PROVE  LET i == call[c].iss IN
                 /\ Wired /\ wiring["name"] = call[c].meta /\ wiring["path"] = call[c].meta
                 /\ \A k \in KeysOf(i) : keys[k] # NoKey
                 /\ ~Native /\ MetasOf(i) \subseteq Public => \E o \in doc.offers : o.iss = i
    BY DEF AppliedMeansUsable
  <2>1. Solo(c) /\ call[c].kind = "apply" /\ call[c].pc = "done"
    BY <1>1 DEF SoloInv, Finished, At
  <2> QED
    BY <2>1 DEF Solo, ApplyHolds, Applying, WireKeys, Installed
<1> QED
  BY <1>1, SoloHolds, PTL

\* One call at a time, CouchDB never starts to trust a key that no entry says the owner of.
THEOREM TrustStaysVisible == ASSUME Exclusive PROVE Spec => TrustIsVisible
<1>1. ASSUME SoloInv, [Next]_vars
      PROVE  [\A k \in Kids : keys'[k] # keys[k] => oidc[k] # NoEntry /\ oidc[k].iss = keys'[k]]_vars
  <2>1. CASE UNCHANGED keys
    BY <2>1
  <2>2. ASSUME NEW c \in Calls, PutKey(c)
        PROVE  \A k \in Kids : keys'[k] # keys[k] => oidc[k] # NoEntry /\ oidc[k].iss = keys'[k]
    <3>0. TypeOK /\ CallOk(c) /\ Solo(c) /\ call[c].pc = "putKey" /\ call[c].kind \in {"create", "refresh"}
      BY <1>1, <2>2 DEF SoloInv, AloneInv, Inv, PutKey, At, Solo, FetchOk
    <3>1. oidc[call[c].half] = EntryOf(c) /\ keys' = [keys EXCEPT ![call[c].half] = call[c].iss]
      BY <2>2, <3>0 DEF Solo, FetchOk, PutKey
    <3>2. EntryOf(c) # NoEntry /\ EntryOf(c).iss = call[c].iss
      BY <3>0, NoneAssumption DEF EntryOf, CallOk
    <3> QED
      BY <3>0, <3>1, <3>2 DEF TypeOK
  <2>3. UNCHANGED keys \/ \E c \in Calls : PutKey(c)
    BY <1>1 DEF Next, Step, Begin, StartCreate, StartUpdate, StartOther, StartSwitch, Start, Restart, Discover,
       ReadConfig, PutEntry, RewriteEntry, RetireEntry, ConfigureAuth, ListIdps, CreateDb, OpenDb, GetDoc, PutDoc,
       ReadPolicy, WritePolicy, ApplyNew, DeleteFails, End, config, vars
  <2> QED
    BY <2>1, <2>2, <2>3
<1> QED
  BY <1>1, SoloHolds, PTL DEF Spec, TrustIsVisible

\* One call at a time, and issuers that do not choose each other's key ids: nothing short of a
\* delete takes a provider off the list, at any point of a refresh or an edit.
THEOREM ProvidersSurvive ==
  ASSUME Exclusive, \A i, j \in Issuers : i # j => KidsOf[i] \cap KidsOf[j] = {}
  PROVE  Spec => ProviderSurvives
<1>1. ASSUME SoloInv, NEW c \in Calls, Step(c), call[c].kind # "delete" PROVE Listed \subseteq Listed'
  <2>0. TypeOK /\ CallOk(c) /\ Solo(c) /\ Own(c) /\ Chosen /\ call[c] \in CallType
    BY <1>1 DEF SoloInv, AloneInv, Inv, TypeOK
  <2>k. ASSUME NEW i \in Issuers, NEW k \in Kids, k \in KidsOf[i], oidc[k] # NoEntry PROVE oidc[k].iss = i
    <3>1. oidc[k].iss \in Issuers /\ k \in KidsOf[oidc[k].iss]
      BY <2>0, <2>k DEF TypeOK, Entry, Chosen
    <3> QED
      BY <2>k, <3>1
  <2>1. CASE UNCHANGED oidc
    BY <2>1 DEF Listed, KeysOf
  <2>2. CASE PutEntry(c) \/ RewriteEntry(c)
    <3>1. PICK k \in call[c].todo : oidc' = [oidc EXCEPT ![k] = EntryOf(c)]
      BY <2>2 DEF PutEntry, RewriteEntry, EntryOf
    <3>0. k \in Kids /\ call[c].iss \in Issuers /\ call[c].meta \in Metas
      BY <2>0, <2>2 DEF PutEntry, RewriteEntry, At, CallType, CallOk
    <3>5. EntryOf(c) # NoEntry /\ EntryOf(c).iss = call[c].iss
      BY <3>0, NoneAssumption DEF EntryOf
    <3>6. k \in KidsOf[call[c].iss]
      <4>1. CASE PutEntry(c)
        BY <2>0, <4>1 DEF PutEntry, Solo, FetchOk, At
      <4>2. CASE RewriteEntry(c)
        BY <2>0, <4>2 DEF RewriteEntry, Solo, EditOk, At, KeysOf, Chosen
      <4> QED
        BY <2>2, <4>1, <4>2
    <3>2. k \in KidsOf[call[c].iss] /\ EntryOf(c) # NoEntry /\ EntryOf(c).iss = call[c].iss
      BY <3>5, <3>6
    <3>3. oidc'[k] = EntryOf(c) /\ \A j \in Kids \ {k} : oidc'[j] = oidc[j]
      BY <2>0, <3>0, <3>1, <3>2 DEF TypeOK
    <3>4. oidc[k] # NoEntry => oidc[k].iss = call[c].iss
      BY <2>k, <3>0, <3>2
    <3> QED
      BY <3>0, <3>2, <3>3, <3>4 DEF Listed, KeysOf
  <2>3. CASE RetireEntry(c)
    <3>1. PICK k \in call[c].retired : oidc[k] # NoEntry /\ oidc' = [oidc EXCEPT ![k] = NoEntry]
      BY <2>3 DEF RetireEntry
    <3>2. /\ call[c].kind = "refresh" /\ call[c].fresh # {} /\ call[c].retired \cap call[c].fresh = {}
          /\ \A j \in call[c].fresh : oidc[j] = EntryOf(c) /\ oidc[j] # NoEntry
          /\ call[c].retired \subseteq KidsOf[call[c].iss] /\ call[c].iss \in Issuers
      BY <1>1, <2>0, <2>3 DEF RetireEntry, At, Solo, FetchOk, Own, Written, CallOk
    <3>3. k \in Kids /\ call[c].fresh \subseteq Kids /\ oidc'[k] = NoEntry /\ \A j \in Kids \ {k} : oidc'[j] = oidc[j]
      BY <2>0, <3>1 DEF TypeOK, CallType
    <3>4. oidc[k].iss = call[c].iss
      BY <2>k, <3>1, <3>2, <3>3
    <3>5. PICK j \in call[c].fresh : j # k
      BY <3>1, <3>2
    <3>6. oidc'[j] = oidc[j] /\ oidc[j].iss = call[c].iss /\ oidc[j] # NoEntry /\ j \in Kids
      BY <3>2, <3>3, <3>5 DEF EntryOf
    <3> QED
      BY <3>3, <3>4, <3>6 DEF Listed, KeysOf
  <2> QED
    BY <1>1, <2>1, <2>2, <2>3 DEF Step, Discover, ReadConfig, PutKey, ConfigureAuth, ListIdps, CreateDb, OpenDb, GetDoc,
       PutDoc, ReadPolicy, WritePolicy, ApplyNew, DeleteFails, End, config
<1>2. SoloInv => [\A c \in Calls : Step(c) /\ call[c].kind # "delete" => Listed \subseteq Listed']_vars
  BY <1>1
<1> QED
  BY <1>2, SoloHolds, PTL DEF Spec, ProviderSurvives
=============================================================================
