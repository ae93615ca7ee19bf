----------------------------- MODULE IdpConfig -----------------------------
(***************************************************************************)
(* The identity providers of a CouchDB node: IdpService's createIdp,       *)
(* updateIdp, refreshIdp, deleteIdp, applyIdp and restartNode, the screens *)
(* that chain them, and the origins the Content-Security-Policy allows     *)
(* them.                                                                   *)
(*                                                                         *)
(* A provider has no document of its own: it is the set of [oidc] entries  *)
(* that name its issuer, one per signing key, whose twins in [jwt_keys]    *)
(* hold the keys.  The configuration is written key by key, each write a   *)
(* request of its own with no revision to guard it, and any of them may    *)
(* be the last: a request fails, or the tab closes.                        *)
(***************************************************************************)
EXTENDS Naturals, FiniteSets

CONSTANTS
  Issuers, Kids,  \* identity providers, and the ids of signing keys
  KidsOf,         \* [Issuers -> SUBSET Kids]: those a provider may choose from
  Metas,          \* what an entry says beside its issuer: its roles claim and client id
  Public,         \* those Metas with a client id, which a login can use
  OriginsOf,      \* [Issuers -> sets of origins]: what the browser fetches from
  Calls,          \* invocations from any tab, each made once
  NoEntry, NoKey, Unset,  \* a key that is not in its section
  Set,            \* the one value an apply gives required_claims and authentication_handlers
  Native,         \* TRUE: CouchDB answers /_idp itself
  Exclusive,      \* TRUE: one call at a time
  Aftermath       \* TRUE: start from whatever failures and hand edits have left

ASSUME KidsAssumption == KidsOf \in [Issuers -> SUBSET Kids]
ASSUME MetasAssumption == Public \subseteq Metas /\ Unset \notin Metas \cup {Set}
ASSUME NoneAssumption ==
  /\ NoEntry \notin [iss : Issuers, meta : Metas] /\ NoKey \notin Issuers
  /\ \A S \in SUBSET UNION {OriginsOf[i] : i \in Issuers} : S # Unset
ASSUME FlagsAssumption == Native \in BOOLEAN /\ Exclusive \in BOOLEAN /\ Aftermath \in BOOLEAN

VARIABLES
  oidc,     \* [Kids -> entry]: section [oidc], keys rsa:<kid>
  keys,     \* [Kids -> Issuers]: section [jwt_keys], whose signing key it is
  wiring,   \* what an apply configures: required_claims, the two roles claims, the handlers
  running,  \* the JWT handler is in the pipeline chttpd built at its last start
  idpDb,    \* the database idp: absent, closed to the login screen, or open
  doc,      \* idp/config: [rev, offers]
  csp,      \* the origins connect-src lists
  call      \* [Calls -> what it is doing and what it has read]

config == <<oidc, keys>>
discovery == <<idpDb, doc>>
vars == <<oidc, keys, wiring, running, idpDb, doc, csp, call>>

Entry == [iss : Issuers, meta : Metas]
Origins == UNION {OriginsOf[i] : i \in Issuers}

-----------------------------------------------------------------------------
(* providersFrom: providers out of entries *)

KeysOf(i) == {k \in Kids : oidc[k] # NoEntry /\ oidc[k].iss = i}
Listed == {i \in Issuers : KeysOf(i) # {}}

\* The entry read for a provider is the first of its section; any may come first.
MetasOf(i) == {oidc[k].meta : k \in KeysOf(i)}

\* requiredIdpOrigins
Required(S) == UNION {OriginsOf[i] : i \in S}

-----------------------------------------------------------------------------
(* Calls *)

Idle == [pc |-> "idle", kind |-> "none", iss |-> Unset, meta |-> Unset, fresh |-> {}, todo |-> {},
         half |-> Unset, retired |-> {}, ok |-> TRUE, offers |-> {}, rev |-> 0, policy |-> Unset,
         origins |-> Unset]

At(c, where) == call[c].pc = where
Active(c) == ~At(c, "idle") /\ ~At(c, "over")
Become(c, next) == call' = [call EXCEPT ![c] = next]
GoTo(c, where) == Become(c, [call[c] EXCEPT !.pc = where])

Over == [Idle EXCEPT !.pc = "over"]

WireKeys == {"required", "name", "path", "handlers"}
Wired == \A w \in DOMAIN wiring : wiring[w] # Unset

Blank == [w \in WireKeys |-> Unset]
Untouched ==
  oidc = [k \in Kids |-> NoEntry] /\ keys = [k \in Kids |-> NoKey] /\ csp = {}
LeftBehind ==
  /\ oidc \in {f \in [Kids -> Entry \cup {NoEntry}] : \A k \in Kids : f[k] # NoEntry => k \in KidsOf[f[k].iss]}
  /\ keys \in {f \in [Kids -> Issuers \cup {NoKey}] : \A k \in Kids : f[k] # NoKey => k \in KidsOf[f[k]]}
  /\ csp \in {{}, Origins}

\* Never applied, or applied before for some provider.
Init ==
  /\ IF Aftermath THEN LeftBehind ELSE Untouched
  /\ \/ wiring = Blank /\ idpDb \in {"absent", "closed"} /\ doc = [rev |-> 0, offers |-> {}]
     \/ /\ Aftermath /\ idpDb = "open" /\ doc = [rev |-> 1, offers |-> {}]
        /\ \E m \in Metas : wiring = [w \in WireKeys |-> IF w \in {"name", "path"} THEN m ELSE Set]
  /\ running = FALSE
  /\ call = [c \in Calls |-> Idle]

Start(c, kind, where, i, m) ==
  /\ At(c, "idle")
  /\ Exclusive => \A other \in Calls : ~Active(other)
  /\ Become(c, [Idle EXCEPT !.pc = where, !.kind = kind, !.iss = i, !.meta = m])
  /\ UNCHANGED <<config, wiring, running, discovery, csp>>

StartCreate(c) == \E i \in Issuers, m \in Metas : Start(c, "create", "discover", i, m)
StartUpdate(c) == \E i \in Listed, m \in Metas : Start(c, "update", "read", i, m)
StartOther(c) == \E kind \in {"refresh", "delete", "apply"}, i \in Listed : Start(c, kind, "read", i, Unset)

\* cca-csp-check on the provider list: its switch adds or removes every origin listed; the list
\* and the policy are loaded side by side.
StartSwitch(c) == \E kind \in {"allow", "disallow"}, first \in {"list", "policy"} : Start(c, kind, first, Unset, Unset)

Discover_RetireFirst(c) ==
  /\ At(c, "discover")
  /\ \E fresh \in (SUBSET KidsOf[call[c].iss]) \ {{}} :
       LET retired == call[c].retired \ fresh IN
       Become(c, [call[c] EXCEPT !.fresh = fresh, !.todo = fresh, !.retired = retired,
            !.pc = IF call[c].kind = "create" THEN "read" ELSE IF retired # {} THEN "retire" ELSE "write"])
  /\ UNCHANGED <<config, wiring, running, discovery, csp>>

\* discover: the provider publishes what signing keys it likes, at least one.
Discover(c) ==
  /\ At(c, "discover")
  /\ \E fresh \in (SUBSET KidsOf[call[c].iss]) \ {{}} :
       Become(c, [call[c] EXCEPT !.pc = IF call[c].kind = "create" THEN "read" ELSE "write",
                                 !.fresh = fresh, !.todo = fresh, !.retired = @ \ fresh])
  /\ UNCHANGED <<config, wiring, running, discovery, csp>>

\* readConfig, and what each operation makes of it.
ReadCreate(c) ==
  IF call[c].iss \in Listed THEN Become(c, Over) ELSE GoTo(c, "write")
ReadRefresh(c) ==
  \E m \in MetasOf(call[c].iss) :
    Become(c, [call[c] EXCEPT !.pc = "discover", !.meta = m, !.retired = KeysOf(call[c].iss)])
ReadUpdate_First(c) ==
  \E k \in KeysOf(call[c].iss) : Become(c, [call[c] EXCEPT !.pc = "rewrite", !.todo = {k}])
ReadUpdate(c) == Become(c, [call[c] EXCEPT !.pc = "rewrite", !.todo = KeysOf(call[c].iss)])
ReadDelete(c) ==
  LET gone == KeysOf(call[c].iss)
  IN  Become(c, [call[c] EXCEPT !.pc = IF gone = {} THEN "list" ELSE "retire", !.retired = gone])

\* getIdp: a key whose twin is missing is an error the apply reports, and goes on.
Installed_Any(i) == \E k \in KeysOf(i) : keys[k] # NoKey
Installed(i) == \A k \in KeysOf(i) : keys[k] # NoKey
ReadApply(c) ==
  \E m \in MetasOf(call[c].iss) :
    Become(c, [call[c] EXCEPT !.pc = "required", !.meta = m, !.ok = Installed(call[c].iss)])

ReadConfig(c) ==
  /\ At(c, "read")
  /\ CASE call[c].kind = "create" -> ReadCreate(c)
       [] call[c].kind = "delete" -> ReadDelete(c)
       [] OTHER -> IF call[c].iss \notin Listed THEN Become(c, Over)
                   ELSE CASE call[c].kind = "refresh" -> ReadRefresh(c)
                          [] call[c].kind = "update" -> ReadUpdate(c)
                          [] call[c].kind = "apply" -> ReadApply(c)
  /\ UNCHANGED <<config, wiring, running, discovery, csp>>

PutEntry_KeyFirst(c) ==
  /\ At(c, "write")
  /\ \E k \in call[c].todo :
       /\ keys' = [keys EXCEPT ![k] = call[c].iss]
       /\ Become(c, [call[c] EXCEPT !.pc = "putKey", !.half = k])
  /\ UNCHANGED <<oidc, wiring, running, discovery, csp>>

\* writeProvider: the entry, then its key, for each signing key.
PutEntry(c) ==
  /\ At(c, "write")
  /\ \E k \in call[c].todo :
       /\ oidc' = [oidc EXCEPT ![k] = [iss |-> call[c].iss, meta |-> call[c].meta]]
       /\ Become(c, [call[c] EXCEPT !.pc = "putKey", !.half = k])
  /\ UNCHANGED <<keys, wiring, running, discovery, csp>>

PutKey(c) ==
  LET k == call[c].half
  IN  /\ At(c, "putKey")
      /\ keys' = [keys EXCEPT ![k] = call[c].iss]
      /\ Become(c, [call[c] EXCEPT !.todo = @ \ {k}, !.half = Unset,
           !.pc = IF call[c].todo # {k} THEN "write" ELSE IF call[c].retired # {} THEN "retire" ELSE "done"])
      /\ UNCHANGED <<oidc, wiring, running, discovery, csp>>

\* updateIdp: the same metadata under every key the provider had when it was read.
RewriteEntry(c) ==
  /\ At(c, "rewrite")
  /\ \E k \in call[c].todo :
       /\ oidc' = [oidc EXCEPT ![k] = [iss |-> call[c].iss, meta |-> call[c].meta]]
       /\ Become(c, [call[c] EXCEPT !.todo = @ \ {k}, !.pc = IF call[c].todo = {k} THEN "done" ELSE @])
  /\ UNCHANGED <<keys, wiring, running, discovery, csp>>

\* The entries a refresh retires and a delete removes; [jwt_keys] is left alone.
\* CouchDB answers 404 for a key that is gone already.
RetireEntry(c) ==
  /\ At(c, "retire")
  /\ \E k \in call[c].retired :
       /\ oidc[k] # NoEntry
       /\ oidc' = [oidc EXCEPT ![k] = NoEntry]
       /\ Become(c, [call[c] EXCEPT !.retired = @ \ {k},
            !.pc = IF call[c].retired # {k} THEN @ ELSE IF call[c].kind = "delete" THEN "list" ELSE "done"])
  /\ UNCHANGED <<keys, wiring, running, discovery, csp>>

-----------------------------------------------------------------------------
(* applyIdp, publishDiscoveryDocument and restartNode *)

AfterWire_DocFirst(where) ==
  CASE where = "required" -> "name" [] where = "name" -> "path" [] OTHER -> "list"
AfterWire(where) ==
  CASE where = "required" -> "name" [] where = "name" -> "path" [] where = "path" -> "handlers"
    [] OTHER -> IF Native THEN "done" ELSE "list"

\* Four keys, in this order; the roles claim is the provider's.
ConfigureAuth(c) ==
  LET where == call[c].pc
  IN  /\ where \in DOMAIN wiring
      /\ wiring' = [wiring EXCEPT ![where] = IF where \in {"name", "path"} THEN call[c].meta ELSE Set]
      /\ GoTo(c, AfterWire(where))
      /\ UNCHANGED <<config, running, discovery, csp>>

\* listIdps, for the document, for what a delete may release, and for the switch.
Offers(m) == {[iss |-> i, meta |-> m[i]] : i \in {j \in Listed : m[j] \in Public}}
ListForDoc(c) ==
  \E m \in [Listed -> Metas] :
    /\ \A i \in Listed : m[i] \in MetasOf(i)
    /\ Become(c, [call[c] EXCEPT !.pc = "createDb", !.offers = Offers(m)])

Releasable_All(i) == OriginsOf[i]

\* releasableIdpOrigins: what is still listed keeps its origins.
Releasable(i) == OriginsOf[i] \ Required(Listed)

ListForPolicy(c) ==
  LET origins == IF call[c].kind = "delete" THEN Releasable(call[c].iss) ELSE Required(Listed)
  IN  Become(c, [call[c] EXCEPT !.pc = IF call[c].policy = Unset THEN "policy" ELSE "csp", !.origins = origins])

ListIdps(c) ==
  /\ At(c, "list")
  /\ IF call[c].kind = "apply" THEN ListForDoc(c) ELSE ListForPolicy(c)
  /\ UNCHANGED <<config, wiring, running, discovery, csp>>

\* ensureDiscoveryDatabase: a database CouchDB creates is closed to the login screen.
CreateDb(c) ==
  /\ At(c, "createDb")
  /\ idpDb' = IF idpDb = "absent" THEN "closed" ELSE idpDb
  /\ GoTo(c, "openDb")
  /\ UNCHANGED <<config, wiring, running, doc, csp>>

OpenDb(c) ==
  /\ At(c, "openDb")
  /\ idpDb' = "open"
  /\ GoTo(c, "getDoc")
  /\ UNCHANGED <<config, wiring, running, doc, csp>>

GetDoc_NoRevision(c) ==
  /\ At(c, "getDoc")
  /\ \E rev \in {doc.rev, Unset} : Become(c, [call[c] EXCEPT !.pc = "putDoc", !.rev = rev])
  /\ UNCHANGED <<config, wiring, running, discovery, csp>>

\* A revision that could not be read is taken for none.
GetDoc(c) ==
  /\ At(c, "getDoc")
  /\ \E rev \in {doc.rev, 0} : Become(c, [call[c] EXCEPT !.pc = "putDoc", !.rev = rev])
  /\ UNCHANGED <<config, wiring, running, discovery, csp>>

PutDoc(c) ==
  /\ At(c, "putDoc") /\ call[c].rev = doc.rev
  /\ doc' = [rev |-> doc.rev + 1, offers |-> call[c].offers]
  /\ GoTo(c, "done")
  /\ UNCHANGED <<config, wiring, running, idpDb, csp>>

Restart ==
  /\ running' = (wiring["handlers"] # Unset)
  /\ UNCHANGED <<config, wiring, discovery, csp, call>>

\* idp-add applies what it has just registered, unasked.
ApplyNew(c) ==
  /\ At(c, "done") /\ call[c].kind = "create"
  /\ Become(c, [Idle EXCEPT !.pc = "read", !.kind = "apply", !.iss = call[c].iss])
  /\ UNCHANGED <<config, wiring, running, discovery, csp>>

-----------------------------------------------------------------------------
(* CspService, for releaseCspOrigins and for the switch *)

ReadPolicy(c) ==
  /\ At(c, "policy")
  /\ Become(c, [call[c] EXCEPT !.pc = IF call[c].origins = Unset THEN "list" ELSE "csp", !.policy = csp])
  /\ UNCHANGED <<config, wiring, running, discovery, csp>>

\* The header is replaced by one made from the policy that was read, unless that is the same.
Header(c) ==
  IF call[c].kind = "allow" THEN call[c].policy \cup call[c].origins ELSE call[c].policy \ call[c].origins

WritePolicy(c) ==
  /\ At(c, "csp")
  /\ csp' = IF Header(c) = call[c].policy THEN csp ELSE Header(c)
  /\ GoTo(c, "done")
  /\ UNCHANGED <<config, wiring, running, discovery>>

-----------------------------------------------------------------------------

\* deleteIdp reports a request that fails, and the screen goes on to the policy.
DeleteFails(c) ==
  /\ call[c].kind = "delete" /\ call[c].pc \in {"read", "retire"}
  /\ Become(c, [call[c] EXCEPT !.pc = "list", !.retired = {}])
  /\ UNCHANGED <<config, wiring, running, discovery, csp>>

\* A request that fails or is refused, a tab that closes, a call that returns.
End(c) ==
  /\ Active(c)
  /\ Become(c, Over)
  /\ UNCHANGED <<config, wiring, running, discovery, csp>>

Begin(c) == StartCreate(c) \/ StartUpdate(c) \/ StartOther(c) \/ StartSwitch(c)
Step(c) ==
  \/ Discover(c) \/ ReadConfig(c) \/ PutEntry(c) \/ PutKey(c) \/ RewriteEntry(c) \/ RetireEntry(c)
  \/ ConfigureAuth(c) \/ ListIdps(c) \/ CreateDb(c) \/ OpenDb(c) \/ GetDoc(c) \/ PutDoc(c)
  \/ ReadPolicy(c) \/ WritePolicy(c) \/ ApplyNew(c) \/ DeleteFails(c) \/ End(c)

Next == (\E c \in Calls : Begin(c) \/ Step(c)) \/ Restart

Spec == Init /\ [][Next]_vars

-----------------------------------------------------------------------------
(* Properties *)

PCs == {"idle", "over", "done", "discover", "read", "write", "putKey", "rewrite", "retire", "list",
        "createDb", "openDb", "getDoc", "putDoc", "policy", "csp"} \cup WireKeys

CallType ==
  [pc : PCs, kind : {"none", "create", "update", "refresh", "delete", "apply", "allow", "disallow"},
   iss : Issuers \cup {Unset}, meta : Metas \cup {Unset}, fresh : SUBSET Kids, todo : SUBSET Kids,
   half : Kids \cup {Unset}, retired : SUBSET Kids, ok : BOOLEAN, offers : SUBSET Entry, rev : Nat,
   policy : (SUBSET Origins) \cup {Unset}, origins : (SUBSET Origins) \cup {Unset}]

\* Every variable keeps its shape.
TypeOK ==
  /\ oidc \in [Kids -> Entry \cup {NoEntry}] /\ keys \in [Kids -> Issuers \cup {NoKey}]
  /\ wiring \in [WireKeys -> Metas \cup {Set, Unset}] /\ running \in BOOLEAN
  /\ idpDb \in {"absent", "closed", "open"} /\ doc \in [rev : Nat, offers : SUBSET Entry]
  /\ csp \subseteq Origins
  /\ call \in [Calls -> CallType]

\* Nothing is advertised to the login screen before CouchDB is configured to verify it and the
\* database it is advertised in can be read without a session (applyIdp, ensureDiscoveryDatabase),
\* however many applies run at once and wherever one of them stops.
AdvertisedIsWired == doc.rev # 0 => idpDb = "open" /\ Wired

Finished(c, kinds) == At(c, "done") /\ call[c].kind \in kinds

\* A registration, refresh or edit that ends with no other call beside it leaves one provider,
\* whatever it found: its entries are copies of one another and, where the keys were fetched,
\* are those of the keys that were, each installed (writeProvider, updateIdp).
ProviderWhole ==
  \A c \in Calls : LET i == call[c].iss IN
    /\ Finished(c, {"create", "refresh", "update"}) => MetasOf(i) = {call[c].meta}
    /\ Finished(c, {"create", "refresh"}) => KeysOf(i) = call[c].fresh /\ \A k \in KeysOf(i) : keys[k] = i

\* Short of a delete, no provider is ever gone from the list, not even for as long as a
\* refresh replaces all of its keys: a tab that closes then would have lost it.
ProviderSurvives ==
  [][\A c \in Calls : Step(c) /\ call[c].kind # "delete" => Listed \subseteq Listed']_vars

\* A key that CouchDB starts to trust has an entry that says whose it is (writeProvider's order).
TrustIsVisible ==
  [][\A k \in Kids : keys'[k] # keys[k] => oidc[k] # NoEntry /\ oidc[k].iss = keys'[k]]_vars

\* An apply that reports no error has wired the provider's own roles claim, found every one of its
\* keys installed, and offers it to the login screen if a login can use it (ApplyResult).
AppliedMeansUsable ==
  \A c \in Calls : LET i == call[c].iss IN
    Finished(c, {"apply"}) /\ call[c].ok =>
      /\ Wired /\ wiring["name"] = call[c].meta /\ wiring["path"] = call[c].meta
      /\ \A k \in KeysOf(i) : keys[k] # NoKey
      /\ ~Native /\ MetasOf(i) \subseteq Public => \E o \in doc.offers : o.iss = i

\* Deleting a provider, or failing to, takes no origin from the policy that a provider still
\* listed needs ("minus any that another provider still needs", docs/install.md).
SharedOriginStays ==
  [][\A c \in Calls : call[c].kind = "delete" /\ WritePolicy(c) => csp \cap Required(Listed) \subseteq csp']_vars

\* For TLC: two providers on one host, the first with two keys to choose from; the second also
\* fetches from a host of its own.
MCKids == 1..3
MCKidsOf == [keycloak |-> {1, 2}, google |-> {3}]
MCIssuers == DOMAIN MCKidsOf
MCOriginsOf == [keycloak |-> {"shared"}, google |-> {"shared", "tokens"}]
=============================================================================
