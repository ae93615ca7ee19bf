--------------------------- MODULE SessionProofs ---------------------------
(***************************************************************************)
(* Proofs about Session, for any credentials and any bounds: every         *)
(* variable keeps its shape, a callback is spent once, the browser leaves  *)
(* for the IdP's logout with nothing of the session kept, what is kept is  *)
(* one whole session, and where the cookie is dropped nobody is told that  *)
(* a password signed them in.                                              *)
(***************************************************************************)
EXTENDS Session, TLAPS

\* loginWithToken asks CouchDB about a token.
NetOk == \A r \in net : r.op = "vouch" => r.cred \in Tokens

\* A code that was exchanged belongs to an attempt the tab no longer holds.
SpentOk == \A a \in Attempts : spent[a] # 0 => spent[a] = 1 /\ a <= begun /\ a # attempt

\* Nothing is in flight to a page that has left for the IdP's logout.
AwayOk == screen = "signingOut" => net = {} /\ SignedOutBeforeLeaving

\* The inductive invariant.
Inv == TypeOK /\ NetOk /\ SpentOk /\ AwayOk

Anything == Credentials \cup {None} \cup Attempts

-----------------------------------------------------------------------------
(* Parts of several actions *)

LEMMA RequestTyped ==
  ASSUME NEW op \in Ops, NEW c \in Anything
  PROVE  Request(op, c) \subseteq [op : Ops, cred : Anything]
  BY DEF Request

LEMMA ClearTyped == ASSUME ClearSession PROVE TabTypeOK'
  BY DEF ClearSession, TabTypeOK

LEMMA CarriedTyped ==
  ASSUME NEW b \in Tokens \cup {None}, NEW j \in Cookies \cup {None}
  PROVE  Carried(b, j) \in Credentials \cup {None}
  BY DEF Carried, Credentials

\* restore() entered with a session of the right shape.
LEMMA EnterRestoreTyped ==
  ASSUME NEW u \in {NoUser} \cup [kind : {"cookie", "jwt"}, cred : Credentials],
         NEW t \in Tokens \cup {None}, NEW rec \in Tokens \cup {None},
         NEW n \in SUBSET net,
         PageTypeOK, NetOk, jar \in Cookies \cup {None},
         EnterRestore(u, t, rec, n)
  PROVE  /\ TabTypeOK'
         /\ boot' \in {"restore", "discover"}
         /\ net' \subseteq [op : Ops, cred : Anything]
         /\ NetOk'
<1> DEFINE b == IF u.kind = "jwt" THEN t ELSE None
<1>1. TabTypeOK'
  BY DEF EnterRestore, TabTypeOK
<1>2. boot' \in {"restore", "discover"}
  BY DEF EnterRestore
<1>3. Carried(b, jar) \in Anything
  BY CarriedTyped DEF Anything
<1>4. PICK q \in Request("restore", Carried(b, jar)) \cup Request("discover", None) : net' = n \cup {q}
  BY DEF EnterRestore, Request
<1>5. q \in [op : Ops, cred : Anything] /\ q.op # "vouch"
  BY <1>3, <1>4 DEF Request, Ops, Anything
<1>6. net' \subseteq [op : Ops, cred : Anything]
  BY <1>4, <1>5 DEF PageTypeOK, Anything
<1>7. NetOk'
  BY <1>4, <1>5 DEF NetOk
<1> QED
  BY <1>1, <1>2, <1>6, <1>7

-----------------------------------------------------------------------------
LEMMA InitInv == Init => Inv
<1> SUFFICES ASSUME Init PROVE Inv
  OBVIOUS
<1>1. CouchTypeOK
  BY DEF Init, CouchTypeOK
<1>2. TabTypeOK
  BY DEF Init, TabTypeOK
<1>3. IdpTypeOK
  <2>1. 0 \in 0..MaxAttempts /\ 0 \in 0..0
    BY BoundAssumption
  <2>2. url \in [kind : {"none", "code", "error"}, of : 0..MaxAttempts]
    BY BoundAssumption DEF Init, NoQuery
  <2> QED
    BY <2>1, <2>2 DEF Init, IdpTypeOK
<1>4. PageTypeOK
  BY DEF Init, PageTypeOK
<1>5. BudgetTypeOK
  BY BoundAssumption DEF Init, BudgetTypeOK
<1>6. NetOk /\ SpentOk /\ AwayOk
  BY DEF Init, NetOk, SpentOk, AwayOk
<1> QED
  BY <1>1, <1>2, <1>3, <1>4, <1>5, <1>6 DEF Inv, TypeOK

LEMMA ArriveRestoreInv == ASSUME Inv, NEW r \in net, ArriveRestore(r) PROVE Inv'
<1> USE DEF Inv, TypeOK
<1>1. CouchTypeOK'
  BY DEF ArriveRestore, CouchTypeOK, couch
<1>2. TabTypeOK'
  BY DEF ArriveRestore, TabTypeOK, CouchTypeOK, Vouched, ClearSession, KindOf
<1>3. IdpTypeOK'
  BY DEF ArriveRestore, IdpTypeOK, idp
<1>4. PageTypeOK'
  BY DEF ArriveRestore, PageTypeOK, Ops, Request
<1>5. BudgetTypeOK'
  BY BoundAssumption DEF ArriveRestore, BudgetTypeOK, Vouched, NotVouched, Fault, NoFault
<1>6. NetOk'
  BY DEF ArriveRestore, NetOk, Request
<1>7. SpentOk'
  BY DEF ArriveRestore, SpentOk, idp
<1>8. AwayOk'
  BY DEF ArriveRestore, AwayOk
<1> QED
  BY <1>1, <1>2, <1>3, <1>4, <1>5, <1>6, <1>7, <1>8

LEMMA SubmitPasswordInv == ASSUME Inv, SubmitPassword PROVE Inv'
<1> USE DEF Inv, TypeOK
<1>1. CouchTypeOK'
  BY DEF SubmitPassword, CouchTypeOK, couch
<1>2. TabTypeOK'
  BY DEF SubmitPassword, TabTypeOK, tab
<1>3. IdpTypeOK'
  BY DEF SubmitPassword, IdpTypeOK, idp
<1>4. PageTypeOK'
  BY DEF SubmitPassword, PageTypeOK, CouchTypeOK, TabTypeOK, Ops, Credentials, budget, Request, Current, Carried
<1>5. BudgetTypeOK'
  BY DEF SubmitPassword, BudgetTypeOK, budget
<1>6. NetOk'
  BY DEF SubmitPassword, NetOk, Request
<1>7. SpentOk'
  BY DEF SubmitPassword, SpentOk, idp
<1>8. AwayOk'
  BY DEF SubmitPassword, AwayOk
<1> QED
  BY <1>1, <1>2, <1>3, <1>4, <1>5, <1>6, <1>7, <1>8

LEMMA ArriveLoginInv == ASSUME Inv, NEW r \in net, ArriveLogin(r) PROVE Inv'
<1> USE DEF Inv, TypeOK
<1>1. CouchTypeOK'
  BY DEF ArriveLogin, CouchTypeOK, Credentials, couch, Issue
<1>2. TabTypeOK'
  BY DEF ArriveLogin, TabTypeOK, Credentials
<1>3. IdpTypeOK'
  BY DEF ArriveLogin, IdpTypeOK, idp
<1>4. PageTypeOK'
  BY DEF ArriveLogin, PageTypeOK, CouchTypeOK, TabTypeOK, Ops, Credentials, Request, Carried
<1>5. BudgetTypeOK'
  BY BoundAssumption DEF ArriveLogin, BudgetTypeOK, Fault, NoFault
<1>6. NetOk'
  BY DEF ArriveLogin, NetOk, Request
<1>7. SpentOk'
  BY DEF ArriveLogin, SpentOk, idp
<1>8. AwayOk'
  BY DEF ArriveLogin, AwayOk
<1> QED
  BY <1>1, <1>2, <1>3, <1>4, <1>5, <1>6, <1>7, <1>8

LEMMA ArriveConfirmInv == ASSUME Inv, NEW r \in net, ArriveConfirm(r) PROVE Inv'
<1> USE DEF Inv, TypeOK
<1>1. CouchTypeOK'
  BY DEF ArriveConfirm, CouchTypeOK, couch
<1>2. TabTypeOK'
  BY DEF ArriveConfirm, TabTypeOK, CouchTypeOK, Vouched
<1>3. IdpTypeOK'
  BY DEF ArriveConfirm, IdpTypeOK, idp
<1>4. PageTypeOK'
  BY DEF ArriveConfirm, PageTypeOK
<1>5. BudgetTypeOK'
  BY BoundAssumption DEF ArriveConfirm, BudgetTypeOK, Vouched, NotVouched, Fault, NoFault
<1>6. NetOk'
  BY DEF ArriveConfirm, NetOk
<1>7. SpentOk'
  BY DEF ArriveConfirm, SpentOk, idp
<1>8. AwayOk'
  BY DEF ArriveConfirm, AwayOk
<1> QED
  BY <1>1, <1>2, <1>3, <1>4, <1>5, <1>6, <1>7, <1>8

LEMMA PasteTokenInv == ASSUME Inv, PasteToken PROVE Inv'
<1> USE DEF Inv, TypeOK
<1>1. CouchTypeOK'
  BY DEF PasteToken, CouchTypeOK, Credentials, Issue
<1>2. TabTypeOK'
  BY DEF PasteToken, TabTypeOK
<1>3. IdpTypeOK'
  BY DEF PasteToken, IdpTypeOK, idp
<1>4. PageTypeOK'
  BY DEF PasteToken, PageTypeOK, Ops, Credentials, budget, Request
<1>5. BudgetTypeOK'
  BY DEF PasteToken, BudgetTypeOK, budget
<1>6. NetOk'
  BY DEF PasteToken, NetOk, Request
<1>7. SpentOk'
  BY DEF PasteToken, SpentOk, idp
<1>8. AwayOk'
  BY DEF PasteToken, AwayOk
<1> QED
  BY <1>1, <1>2, <1>3, <1>4, <1>5, <1>6, <1>7, <1>8

LEMMA StartIdpLoginInv == ASSUME Inv, StartIdpLogin PROVE Inv'
<1> USE DEF Inv, TypeOK
<1>1. CouchTypeOK'
  BY DEF StartIdpLogin, CouchTypeOK, couch, Unload
<1>2. TabTypeOK'
  BY DEF StartIdpLogin, TabTypeOK
<1>3. IdpTypeOK'
  BY BoundAssumption DEF StartIdpLogin, IdpTypeOK
<1>4. PageTypeOK'
  BY DEF StartIdpLogin, PageTypeOK, budget, Unload
<1>5. BudgetTypeOK'
  BY DEF StartIdpLogin, BudgetTypeOK, budget
<1>6. NetOk'
  BY DEF StartIdpLogin, NetOk, Unload
<1>7. SpentOk'
  BY DEF StartIdpLogin, SpentOk, IdpTypeOK, Attempts
<1>8. AwayOk'
  BY DEF StartIdpLogin, AwayOk
<1> QED
  BY <1>1, <1>2, <1>3, <1>4, <1>5, <1>6, <1>7, <1>8

LEMMA ReturnInv == ASSUME Inv, Return PROVE Inv'
<1> USE DEF Inv, TypeOK
<1>1. CouchTypeOK'
  BY DEF Return, CouchTypeOK, couch
<1>2. TabTypeOK'
  BY DEF Return, TabTypeOK, tab
<1>3. IdpTypeOK'
  BY BoundAssumption DEF Return, IdpTypeOK, NoQuery, CallbackKinds
<1>4. PageTypeOK'
  BY DEF Return, PageTypeOK, budget
<1>5. BudgetTypeOK'
  BY DEF Return, BudgetTypeOK, budget
<1>6. NetOk'
  BY DEF Return, NetOk
<1>7. SpentOk'
  BY DEF Return, SpentOk
<1>8. AwayOk'
  BY DEF Return, AwayOk
<1> QED
  BY <1>1, <1>2, <1>3, <1>4, <1>5, <1>6, <1>7, <1>8

LEMMA ArriveDiscoverInv == ASSUME Inv, NEW r \in net, ArriveDiscover(r) PROVE Inv'
<1> USE DEF Inv, TypeOK
<1>1. CouchTypeOK'
  BY DEF ArriveDiscover, CouchTypeOK, couch
<1>2. TabTypeOK'
  BY DEF ArriveDiscover, TabTypeOK, tab
<1>3. IdpTypeOK'
  BY DEF ArriveDiscover, IdpTypeOK, idp
<1>4. PageTypeOK'
  BY DEF ArriveDiscover, PageTypeOK, budget
<1>5. BudgetTypeOK'
  BY DEF ArriveDiscover, BudgetTypeOK, budget
<1>6. NetOk'
  BY DEF ArriveDiscover, NetOk
<1>7. SpentOk'
  BY DEF ArriveDiscover, SpentOk, idp
<1>8. AwayOk'
  BY DEF ArriveDiscover, AwayOk
<1> QED
  BY <1>1, <1>2, <1>3, <1>4, <1>5, <1>6, <1>7, <1>8

LEMMA ReadInv == ASSUME Inv, Read PROVE Inv'
<1> USE DEF Inv, TypeOK
<1>1. CouchTypeOK'
  BY DEF Read, CouchTypeOK, couch
<1>2. TabTypeOK'
  BY DEF Read, TabTypeOK, tab
<1>3. IdpTypeOK'
  BY DEF Read, IdpTypeOK, idp
<1>4. PageTypeOK'
  BY DEF Read, PageTypeOK, CouchTypeOK, TabTypeOK, Ops, Credentials, budget, Request, Current, Carried
<1>5. BudgetTypeOK'
  BY DEF Read, BudgetTypeOK, budget
<1>6. NetOk'
  BY DEF Read, NetOk, Request
<1>7. SpentOk'
  BY DEF Read, SpentOk, idp
<1>8. AwayOk'
  BY DEF Read, AwayOk
<1> QED
  BY <1>1, <1>2, <1>3, <1>4, <1>5, <1>6, <1>7, <1>8

LEMMA ArriveReadInv == ASSUME Inv, NEW r \in net, ArriveRead(r) PROVE Inv'
<1> USE DEF Inv, TypeOK
<1>1. CouchTypeOK'
  BY DEF ArriveRead, CouchTypeOK, couch
<1>2. TabTypeOK'
  BY DEF ArriveRead, TabTypeOK, tab
<1>3. IdpTypeOK'
  BY DEF ArriveRead, IdpTypeOK, idp
<1>4. PageTypeOK'
  BY DEF ArriveRead, PageTypeOK, CouchTypeOK, TabTypeOK, Ops, Credentials, Request, Current, Carried
<1>5. BudgetTypeOK'
  BY BoundAssumption DEF ArriveRead, BudgetTypeOK, Fault, NoFault
<1>6. NetOk'
  BY DEF ArriveRead, NetOk, Request
<1>7. SpentOk'
  BY DEF ArriveRead, SpentOk, idp
<1>8. AwayOk'
  BY DEF ArriveRead, AwayOk
<1> QED
  BY <1>1, <1>2, <1>3, <1>4, <1>5, <1>6, <1>7, <1>8

LEMMA ArriveProbeInv == ASSUME Inv, NEW r \in net, ArriveProbe(r) PROVE Inv'
<1> USE DEF Inv, TypeOK
<1>1. CouchTypeOK'
  BY DEF ArriveProbe, CouchTypeOK, couch
<1>2. TabTypeOK'
  BY DEF ArriveProbe, TabTypeOK, tab, LoggedOut, ClearSession
<1>3. IdpTypeOK'
  BY DEF ArriveProbe, IdpTypeOK, idp
<1>4. PageTypeOK'
  <2>1. Current \in Credentials \cup {None}
    BY CarriedTyped DEF Current, CouchTypeOK, TabTypeOK
  <2>2. net' \subseteq [op : Ops, cred : Credentials \cup {None} \cup Attempts]
    BY <2>1 DEF ArriveProbe, LoggedOut, PageTypeOK, Request, Ops
  <2>3. crossed' \in BOOLEAN
    BY DEF ArriveProbe, LoggedOut, PageTypeOK
  <2> QED
    BY <2>2, <2>3 DEF ArriveProbe, PageTypeOK
<1>5. BudgetTypeOK'
  BY BoundAssumption DEF ArriveProbe, BudgetTypeOK, Fault, NoFault
<1>6. NetOk'
  BY DEF ArriveProbe, NetOk, LoggedOut, Request
<1>7. SpentOk'
  BY DEF ArriveProbe, SpentOk, idp
<1>8. AwayOk'
  BY DEF ArriveProbe, AwayOk
<1> QED
  BY <1>1, <1>2, <1>3, <1>4, <1>5, <1>6, <1>7, <1>8

LEMMA ArriveDeleteInv == ASSUME Inv, NEW r \in net, ArriveDelete(r) PROVE Inv'
<1> USE DEF Inv, TypeOK
<1>1. CouchTypeOK'
  BY DEF ArriveDelete, CouchTypeOK, couch
<1>2. TabTypeOK'
  BY DEF ArriveDelete, TabTypeOK, tab
<1>3. IdpTypeOK'
  BY DEF ArriveDelete, IdpTypeOK, idp
<1>4. PageTypeOK'
  BY DEF ArriveDelete, PageTypeOK
<1>5. BudgetTypeOK'
  BY BoundAssumption DEF ArriveDelete, BudgetTypeOK, Fault, NoFault
<1>6. NetOk'
  BY DEF ArriveDelete, NetOk
<1>7. SpentOk'
  BY DEF ArriveDelete, SpentOk, idp
<1>8. AwayOk'
  BY DEF ArriveDelete, AwayOk
<1> QED
  BY <1>1, <1>2, <1>3, <1>4, <1>5, <1>6, <1>7, <1>8

LEMMA LogoutInv == ASSUME Inv, Logout PROVE Inv'
<1> USE DEF Inv, TypeOK
<1>1. CouchTypeOK'
  BY DEF Logout, CouchTypeOK, couch
<1>2. TabTypeOK'
  BY DEF Logout, TabTypeOK, LoggedOut, ClearSession
<1>3. IdpTypeOK'
  BY DEF Logout, IdpTypeOK, idp
<1>4. PageTypeOK'
  BY DEF Logout, PageTypeOK, CouchTypeOK, TabTypeOK, Ops, Credentials, budget, LoggedOut, Request, Current, Carried
<1>5. BudgetTypeOK'
  BY DEF Logout, BudgetTypeOK, budget
<1>6. NetOk'
  BY DEF Logout, NetOk, LoggedOut, Request
<1>7. SpentOk'
  BY DEF Logout, SpentOk, idp
<1>8. AwayOk'
  BY DEF Logout, AwayOk
<1> QED
  BY <1>1, <1>2, <1>3, <1>4, <1>5, <1>6, <1>7, <1>8

LEMMA LogoutEverywhereInv == ASSUME Inv, LogoutEverywhere PROVE Inv'
<1> USE DEF Inv, TypeOK
<1>1. CouchTypeOK'
  BY DEF LogoutEverywhere, CouchTypeOK, couch
<1>2. TabTypeOK'
  BY DEF LogoutEverywhere, TabTypeOK, TornDown, ClearSession
<1>3. IdpTypeOK'
  BY DEF LogoutEverywhere, IdpTypeOK
<1>4. PageTypeOK'
  BY DEF LogoutEverywhere, PageTypeOK, budget, TornDown
<1>5. BudgetTypeOK'
  BY DEF LogoutEverywhere, BudgetTypeOK, budget
<1>6. NetOk'
  BY DEF LogoutEverywhere, NetOk
<1>7. SpentOk'
  BY DEF LogoutEverywhere, SpentOk
<1>8. AwayOk'
  BY DEF LogoutEverywhere, AwayOk, SignedOutBeforeLeaving, TornDown, ClearSession
<1> QED
  BY <1>1, <1>2, <1>3, <1>4, <1>5, <1>6, <1>7, <1>8

LEMMA ExpireInv == ASSUME Inv, NEW c \in live, Expire(c) PROVE Inv'
<1> USE DEF Inv, TypeOK
<1>1. CouchTypeOK'
  BY DEF Expire, CouchTypeOK
<1>2. TabTypeOK'
  BY DEF Expire, TabTypeOK, tab
<1>3. IdpTypeOK'
  BY DEF Expire, IdpTypeOK, idp
<1>4. PageTypeOK'
  BY DEF Expire, PageTypeOK, budget
<1>5. BudgetTypeOK'
  BY DEF Expire, BudgetTypeOK, budget
<1>6. NetOk'
  BY DEF Expire, NetOk
<1>7. SpentOk'
  BY DEF Expire, SpentOk, idp
<1>8. AwayOk'
  BY DEF Expire, AwayOk, SignedOutBeforeLeaving, tab
<1> QED
  BY <1>1, <1>2, <1>3, <1>4, <1>5, <1>6, <1>7, <1>8

LEMMA OtherTabInv == ASSUME Inv, OtherTab PROVE Inv'
<1> USE DEF Inv, TypeOK
<1>1. CouchTypeOK'
  BY DEF OtherTab, CouchTypeOK, Credentials, couch, Issue
<1>2. TabTypeOK'
  BY DEF OtherTab, TabTypeOK, tab
<1>3. IdpTypeOK'
  BY DEF OtherTab, IdpTypeOK, idp
<1>4. PageTypeOK'
  BY DEF OtherTab, PageTypeOK, budget
<1>5. BudgetTypeOK'
  BY DEF OtherTab, BudgetTypeOK, budget
<1>6. NetOk'
  BY DEF OtherTab, NetOk
<1>7. SpentOk'
  BY DEF OtherTab, SpentOk, idp
<1>8. AwayOk'
  BY DEF OtherTab, AwayOk, SignedOutBeforeLeaving, tab
<1> QED
  BY <1>1, <1>2, <1>3, <1>4, <1>5, <1>6, <1>7, <1>8

LEMMA ReloadInv == ASSUME Inv, Reload PROVE Inv'
<1> USE DEF Inv, TypeOK
<1>1. CouchTypeOK'
  BY DEF Reload, CouchTypeOK, couch, Unload
<1>2. TabTypeOK'
  BY DEF Reload, TabTypeOK
<1>3. IdpTypeOK'
  BY DEF Reload, IdpTypeOK, idp
<1>4. PageTypeOK'
  BY DEF Reload, PageTypeOK, Unload
<1>5. BudgetTypeOK'
  BY BoundAssumption DEF Reload, BudgetTypeOK
<1>6. NetOk'
  BY DEF Reload, NetOk, Unload
<1>7. SpentOk'
  BY DEF Reload, SpentOk, idp
<1>8. AwayOk'
  BY DEF Reload, AwayOk
<1> QED
  BY <1>1, <1>2, <1>3, <1>4, <1>5, <1>6, <1>7, <1>8

\* loginWithToken's end: inside the callback restore() follows at once.
LEMMA ArriveVouchInv == ASSUME Inv, NEW r \in net, ArriveVouch(r) PROVE Inv'
<1> USE DEF Inv, TypeOK
<1> DEFINE u == [kind |-> "jwt", cred |-> r.cred]
           rest == net \ {r}
           Followed == /\ TabTypeOK' /\ NetOk'
                       /\ boot' \in {"start", "exchange", "vouch", "restore", "discover", "done"}
                       /\ net' \subseteq [op : Ops, cred : Anything]
<1>1. r.cred \in Tokens /\ rest \in SUBSET net
  BY DEF ArriveVouch, NetOk
<1>2. Followed
  <2>1. CASE EnterRestore(u, r.cred, rp, rest)
    BY <1>1, <2>1, EnterRestoreTyped DEF TabTypeOK, CouchTypeOK, Credentials
  <2>2. CASE EnterRestore(NoUser, None, None, rest)
    BY <1>1, <2>2, EnterRestoreTyped DEF CouchTypeOK
  <2>3. CASE token' = r.cred /\ user' = u /\ net' = rest /\ UNCHANGED <<bearer, rp, boot>>
    BY <1>1, <2>3 DEF TabTypeOK, PageTypeOK, NetOk, Credentials, Anything
  <2>4. CASE ClearSession /\ net' = rest /\ UNCHANGED boot
    BY <1>1, <2>4, ClearTyped DEF PageTypeOK, NetOk, Anything
  <2> QED
    BY <2>1, <2>2, <2>3, <2>4 DEF ArriveVouch
<1>3. CouchTypeOK'
  BY DEF ArriveVouch, CouchTypeOK, couch
<1>4. IdpTypeOK'
  BY BoundAssumption DEF ArriveVouch, IdpTypeOK, NoQuery
<1>5. PageTypeOK'
  BY <1>2 DEF ArriveVouch, PageTypeOK, Anything
<1>6. BudgetTypeOK'
  BY BoundAssumption DEF ArriveVouch, BudgetTypeOK, Vouched, NotVouched, Fault, NoFault
<1>7. SpentOk'
  BY DEF ArriveVouch, SpentOk
<1>8. AwayOk'
  BY DEF ArriveVouch, AwayOk
<1> QED
  BY <1>2, <1>3, <1>4, <1>5, <1>6, <1>7, <1>8

LEMMA ArriveExchangeInv == ASSUME Inv, NEW r \in net, ArriveExchange(r) PROVE Inv'
<1> USE DEF Inv, TypeOK
<1> DEFINE rest == net \ {r}
<1>1. /\ TabTypeOK' /\ NetOk' /\ boot' \in {"vouch", "restore", "discover"}
      /\ net' \subseteq [op : Ops, cred : Anything]
  <2>1. CASE EnterRestore(user, token, rp, rest)
    BY <2>1, EnterRestoreTyped DEF TabTypeOK, CouchTypeOK
  <2>2. CASE \E t \in Tokens \ issued :
               /\ bearer' = t /\ rp' \in {t, None} /\ boot' = "vouch"
               /\ net' = rest \cup Request("vouch", t)
               /\ UNCHANGED <<user, token>>
    BY <2>2 DEF TabTypeOK, PageTypeOK, NetOk, Request, Ops, Credentials, Anything
  <2> QED
    BY <2>1, <2>2 DEF ArriveExchange
<1>2. CouchTypeOK'
  BY DEF ArriveExchange, CouchTypeOK, couch, Issue, Credentials
<1>3. IdpTypeOK'
  BY BoundAssumption DEF ArriveExchange, IdpTypeOK, NoQuery
<1>4. PageTypeOK'
  BY <1>1 DEF ArriveExchange, PageTypeOK, Anything
<1>5. BudgetTypeOK'
  BY BoundAssumption DEF ArriveExchange, BudgetTypeOK, Fault, NoFault
<1>6. SpentOk'
  BY DEF ArriveExchange, SpentOk
<1>7. AwayOk'
  BY DEF ArriveExchange, AwayOk
<1> QED
  BY <1>1, <1>2, <1>3, <1>4, <1>5, <1>6, <1>7

\* The boot: the attempt leaves sessionStorage in the step that spends its code.
LEMMA BootInv == ASSUME Inv, Boot PROVE Inv'
<1> USE DEF Inv, TypeOK
<1>1. /\ TabTypeOK' /\ NetOk' /\ boot' \in {"exchange", "restore", "discover"}
      /\ net' \subseteq [op : Ops, cred : Anything]
  <2>1. CASE EnterRestore(user, token, rp, net)
    BY <2>1, EnterRestoreTyped DEF TabTypeOK, CouchTypeOK
  <2>2. CASE /\ MatchesAttempt /\ boot' = "exchange" /\ UNCHANGED tab
             /\ net' = net \cup Request("exchange", attempt)
    <3>1. attempt \in Attempts
      BY <2>2, BoundAssumption DEF MatchesAttempt, IdpTypeOK, Attempts
    <3> QED
      BY <2>2, <3>1 DEF TabTypeOK, tab, PageTypeOK, NetOk, Request, Ops, Anything
  <2> QED
    BY <2>1, <2>2 DEF Boot, ConsumeCallback
<1>2. CouchTypeOK'
  BY DEF Boot, CouchTypeOK, couch
<1>3. IdpTypeOK'
  <2>1. 0 \in 0..begun /\ 0 \in 0..MaxAttempts
    BY BoundAssumption DEF IdpTypeOK
  <2>2. attempt' \in 0..begun' /\ begun' \in 0..MaxAttempts /\ rpState' \in BOOLEAN
    BY <2>1 DEF Boot, ConsumeCallback, IdpTypeOK
  <2>3. url' \in [kind : {"none", "code", "error"}, of : 0..MaxAttempts]
    BY <2>1 DEF Boot, ConsumeCallback, IdpTypeOK, NoQuery
  <2>4. spent' \in [Attempts -> Nat]
    BY DEF Boot, ConsumeCallback, IdpTypeOK
  <2> QED
    BY <2>2, <2>3, <2>4 DEF IdpTypeOK
<1>4. PageTypeOK'
  BY <1>1 DEF Boot, budget, PageTypeOK, Anything
<1>5. BudgetTypeOK'
  BY DEF Boot, BudgetTypeOK, budget
<1>6. SpentOk'
  <2> SUFFICES ASSUME NEW a \in Attempts, spent'[a] # 0
               PROVE  spent'[a] = 1 /\ a <= begun' /\ a # attempt'
    BY DEF SpentOk
  <2>1. a # 0
    BY BoundAssumption DEF Attempts
  <2>2. CASE MatchesAttempt /\ ConsumeCallback /\ a = attempt
    <3>1. spent[a] = 0 /\ spent' = [spent EXCEPT ![a] = @ + 1] /\ attempt' = 0
      BY <2>2 DEF ConsumeCallback, SpentOk
    <3>2. a <= begun /\ begun' = begun
      BY <2>2, BoundAssumption DEF Boot, IdpTypeOK
    <3> QED
      BY <2>1, <3>1, <3>2 DEF IdpTypeOK
  <2>3. CASE ~(MatchesAttempt /\ ConsumeCallback /\ a = attempt)
    BY <2>1, <2>3 DEF Boot, ConsumeCallback, IdpTypeOK, SpentOk
  <2> QED
    BY <2>2, <2>3
<1>7. AwayOk'
  BY DEF Boot, AwayOk
<1> QED
  BY <1>1, <1>2, <1>3, <1>4, <1>5, <1>6, <1>7

-----------------------------------------------------------------------------
(* The requests of the boot *)

\* The boot waits for one request at a time, and for the one its stage names.
BootOk ==
  \A r \in net : r.op \in {"restore", "exchange", "discover"} =>
    r.op = boot /\ \A q \in net : q.op = r.op => q = r

LEMMA BootStep == BootOk /\ [Next]_vars => BootOk'
<1> SUFFICES ASSUME BootOk, [Next]_vars PROVE BootOk'
  OBVIOUS
<1>1. ASSUME NEW u, NEW t, NEW rec, NEW n \in SUBSET net, EnterRestore(u, t, rec, n),
             \A q \in n : q.op \notin {"restore", "exchange", "discover"}
      PROVE  BootOk'
  BY <1>1 DEF EnterRestore, Request, BootOk
<1>2. ASSUME NEW r \in net, Arrive(r) PROVE BootOk'
  <2>1. CASE ArriveRestore(r)
    BY <2>1 DEF ArriveRestore, Request, BootOk
  <2>2. CASE ArriveLogin(r) \/ ArriveConfirm(r)
    BY <2>2 DEF ArriveLogin, ArriveConfirm, Request, BootOk
  <2>3. CASE ArriveVouch(r)
    <3>1. CASE boot = "vouch"
      BY <2>3, <3>1, <1>1 DEF ArriveVouch, BootOk
    <3>2. CASE boot # "vouch"
      BY <2>3, <3>2 DEF ArriveVouch, BootOk
    <3> QED
      BY <3>1, <3>2
  <2>4. CASE ArriveExchange(r)
    <3>1. \A q \in net \ {r} : q.op \notin {"restore", "exchange", "discover"}
      BY <2>4 DEF ArriveExchange, BootOk
    <3>2. CASE EnterRestore(user, token, rp, net \ {r})
      BY <3>1, <3>2, <1>1
    <3>3. CASE \E t : net' = (net \ {r}) \cup Request("vouch", t)
      BY <3>1, <3>3 DEF Request, BootOk
    <3> QED
      BY <2>4, <3>2, <3>3 DEF ArriveExchange
  <2>5. CASE ArriveDiscover(r)
    BY <2>5 DEF ArriveDiscover, BootOk
  <2>6. CASE ArriveRead(r)
    BY <2>6 DEF ArriveRead, Request, BootOk
  <2>7. CASE ArriveProbe(r)
    BY <2>7 DEF ArriveProbe, LoggedOut, Request, BootOk
  <2>8. CASE ArriveDelete(r)
    BY <2>8 DEF ArriveDelete, BootOk
  <2> QED
    BY <1>2, <2>1, <2>2, <2>3, <2>4, <2>5, <2>6, <2>7, <2>8 DEF Arrive
<1>3. CASE SubmitPassword \/ PasteToken
  BY <1>3 DEF SubmitPassword, PasteToken, Request, BootOk
<1>4. CASE StartIdpLogin \/ LogoutEverywhere \/ Reload
  BY <1>4 DEF StartIdpLogin, LogoutEverywhere, Reload, Unload, BootOk
<1>5. CASE Boot
  <2>1. \A q \in net : q.op \notin {"restore", "exchange", "discover"}
    BY <1>5 DEF Boot, BootOk
  <2>2. CASE EnterRestore(user, token, rp, net)
    BY <2>1, <2>2, <1>1
  <2>3. CASE boot' = "exchange" /\ net' = net \cup Request("exchange", attempt)
    BY <2>1, <2>3 DEF Request, BootOk
  <2> QED
    BY <1>5, <2>2, <2>3 DEF Boot, ConsumeCallback
<1>6. CASE Read \/ Logout
  BY <1>6 DEF Read, Logout, LoggedOut, Request, BootOk
<1>7. CASE Return \/ OtherTab \/ \E c \in live : Expire(c)
  BY <1>7 DEF Return, OtherTab, Expire, BootOk
<1>8. CASE UNCHANGED vars
  BY <1>8 DEF vars, BootOk
<1> QED
  BY <1>2, <1>3, <1>4, <1>5, <1>6, <1>7, <1>8 DEF Next

\* The 401s share one probe.
ProbeOnce == \A r, q \in net : r.op = "probe" /\ q.op = "probe" => q = r

LEMMA ProbeStep == ProbeOnce /\ [Next]_vars => ProbeOnce'
<1> SUFFICES ASSUME ProbeOnce, [Next]_vars PROVE ProbeOnce'
  OBVIOUS
<1>1. ASSUME NEW u, NEW t, NEW rec, NEW n \in SUBSET net, EnterRestore(u, t, rec, n) PROVE ProbeOnce'
  BY <1>1 DEF EnterRestore, Request, ProbeOnce
<1>2. ASSUME NEW r \in net, Arrive(r) PROVE ProbeOnce'
  <2>1. CASE ArriveRestore(r) \/ ArriveLogin(r) \/ ArriveConfirm(r)
    BY <2>1 DEF ArriveRestore, ArriveLogin, ArriveConfirm, Request, ProbeOnce
  <2>2. CASE ArriveVouch(r) \/ ArriveExchange(r)
    BY <1>1, <2>2 DEF ArriveVouch, ArriveExchange, Request, ProbeOnce
  <2>3. CASE ArriveRead(r)
    BY <2>3 DEF ArriveRead, Probing, Request, ProbeOnce
  <2>4. CASE ArriveDiscover(r) \/ ArriveProbe(r) \/ ArriveDelete(r)
    BY <2>4 DEF ArriveDiscover, ArriveProbe, ArriveDelete, LoggedOut, Request, ProbeOnce
  <2> QED
    BY <1>2, <2>1, <2>2, <2>3, <2>4 DEF Arrive
<1>3. CASE SubmitPassword \/ PasteToken \/ Read \/ Logout
  BY <1>3 DEF SubmitPassword, PasteToken, Read, Logout, LoggedOut, Request, ProbeOnce
<1>4. CASE StartIdpLogin \/ LogoutEverywhere \/ Reload
  BY <1>4 DEF StartIdpLogin, LogoutEverywhere, Reload, Unload, ProbeOnce
<1>5. CASE Boot
  BY <1>1, <1>5 DEF Boot, ConsumeCallback, Request, ProbeOnce
<1>6. CASE Return \/ OtherTab \/ (\E c \in live : Expire(c)) \/ UNCHANGED vars
  BY <1>6 DEF Return, OtherTab, Expire, vars, ProbeOnce
<1> QED
  BY <1>2, <1>3, <1>4, <1>5, <1>6 DEF Next

\* Only the answer to a probe takes the shell of a booted tab away unasked.
LEMMA EndStep ==
  BootOk /\ ProbeOnce /\ TypeOK /\ [Next]_vars =>
    [ screen = "shell" /\ screen' = "login" /\ user # NoUser /\ ~Logout /\ boot = "done"
        => Current \notin live \/ faults' > faults \/ ~Probes(Current) ]_vars
<1> SUFFICES ASSUME BootOk, ProbeOnce, TypeOK, Next, screen = "shell", screen' = "login", ~Logout, boot = "done"
             PROVE  Current \notin live \/ faults' > faults \/ ~Probes(Current)
  OBVIOUS
<1>1. PICK r \in net : ArriveProbe(r)
  <2>1. ASSUME NEW r \in net, Arrive(r) PROVE ArriveProbe(r)
    BY <2>1 DEF Arrive, ArriveRestore, ArriveLogin, ArriveConfirm, ArriveVouch, ArriveExchange,
       ArriveDiscover, ArriveRead, ArriveDelete, BootOk
  <2> QED
    BY <2>1 DEF Next, SubmitPassword, PasteToken, StartIdpLogin, Return, Boot, Read, LogoutEverywhere,
       Expire, OtherTab, Reload
<1>2. CASE Fault
  BY <1>2 DEF Fault, TypeOK, BudgetTypeOK
<1>3. CASE FoundDead(r.cred)
  <2>1. r.op = "probe"
    BY <1>1 DEF ArriveProbe
  <2> QED
    BY <1>3, <2>1 DEF FoundDead, Probes, ProbeOnce
<1> QED
  BY <1>1, <1>2, <1>3 DEF ArriveProbe

-----------------------------------------------------------------------------
(* A session whole *)

\* Where the page stands at each stage of the boot.
PlaceOk ==
  /\ boot = "start" => net = {} /\ screen \in {"none", "signingIn", "signingOut"}
  /\ screen \in {"signingIn", "signingOut"} => boot = "start"
  /\ boot = "done" => screen \in {"login", "shell"}
  /\ screen = "login" => crossed \/ boot = "done"

\* One login at a time, from the login screen or inside the callback, and only a
\* token's leaves a bearer behind while it waits.
LoginOps == {"login", "confirm", "vouch"}
LoginOk ==
  \A r \in net : r.op \in LoginOps =>
    /\ \A q \in net : q.op \in LoginOps => q = r
    /\ \/ boot = "done" /\ screen = "login"
       \/ boot = "vouch" /\ r.op = "vouch"
    /\ bearer = (IF r.op = "vouch" THEN r.cred ELSE None)

\* sessionStorage holds a JWT user with its token, or another user, or none, without one.
StoredOk ==
  /\ user.kind = "jwt" => token = user.cred
  /\ user.kind # "jwt" => token = None /\ (rp = None \/ cut \/ boot = "vouch")

\* What the client sends with its requests is what sessionStorage holds, once
\* restore() has begun.
BearerOk ==
  /\ boot \in {"start", "exchange"} => bearer = None
  /\ boot \in {"restore", "discover"} => bearer = token
  /\ boot = "discover" => user = NoUser
  /\ boot = "done" => bearer = token \/ (LoggingIn /\ token = None)

ShellOk == boot = "done" => ((screen = "shell") = (user # NoUser))

\* restore() asks about the credential the client still sends.
RestoreOk ==
  \A r \in net : r.op = "restore" =>
    IF r.cred \in Tokens THEN bearer = r.cred ELSE bearer = None

\* A browser that drops the cookie sends none.
CookielessOk ==
  deploy = "cookieless" =>
    /\ jar = None
    /\ \A r \in net : r.op = "restore" => r.cred \notin Cookies
    /\ \A r \in net : r.op = "confirm" => crossed \/ r.cred = None
    /\ user.kind = "cookie" => crossed

Settled == LoginOk /\ StoredOk /\ BearerOk /\ ShellOk /\ RestoreOk

\* The inductive invariant of NoFragments and NoSessionNobodyHolds.
Whole == PlaceOk /\ CookielessOk /\ (crossed \/ Settled)

\* restore() entered with a session that is whole.
LEMMA EnterRestoreSettled ==
  ASSUME TypeOK, NEW u, NEW t \in Tokens \cup {None}, NEW rec, NEW n \in SUBSET net,
         EnterRestore(u, t, rec, n),
         u \in {NoUser} \cup [kind : {"cookie", "jwt"}, cred : Credentials],
         u.kind = "jwt" => t = u.cred,
         u.kind # "jwt" => t = None /\ (rec = None \/ cut'),
         \A q \in n : q.op \notin LoginOps \cup {"restore"}
  PROVE  Settled'
<1>2. t # None => u.kind = "jwt"
  OBVIOUS
<1>3. u.kind = "jwt" => t # None
  BY CredentialAssumption DEF Credentials, NoUser
<1>4. user' = u /\ token' = t /\ rp' = rec /\ bearer' = t /\ boot' \in {"restore", "discover"}
  BY <1>2, <1>3 DEF EnterRestore
<1>5. boot' = "discover" => u = NoUser
  BY <1>3 DEF EnterRestore
<1>6. \A q \in net' : q.op \notin LoginOps
  BY DEF EnterRestore, Request, LoginOps
<1>7. \A q \in net' : q.op = "restore" => q.cred = Carried(t, jar)
  BY <1>4, <1>2 DEF EnterRestore, Request
<1>8. jar \notin Tokens
  BY CredentialAssumption DEF TypeOK, CouchTypeOK
<1>9. LoginOk'
  BY <1>6 DEF LoginOk
<1>10. StoredOk'
  BY <1>4 DEF StoredOk
<1>11. BearerOk'
  BY <1>4, <1>5 DEF BearerOk
<1>12. ShellOk'
  BY <1>4 DEF ShellOk
<1>13. RestoreOk'
  BY <1>4, <1>7, <1>8, CredentialAssumption DEF RestoreOk, Carried
<1> QED
  BY <1>9, <1>10, <1>11, <1>12, <1>13 DEF Settled

LEMMA InitWhole == Init => Whole
  BY DEF Init, Whole, PlaceOk, CookielessOk, Settled, LoginOk, StoredOk, BearerOk, ShellOk, RestoreOk, NoUser, LoggingIn

LEMMA ArriveRestoreWhole == ASSUME Inv, BootOk, Whole, NEW r \in net, ArriveRestore(r) PROVE Whole'
<1> USE DEF Inv, TypeOK
<1>1. boot = "restore" /\ r.op = "restore"
  BY DEF ArriveRestore, BootOk
<1>2. PlaceOk'
  BY <1>1 DEF ArriveRestore, Whole, PlaceOk
<1>3. CookielessOk'
  BY <1>1 DEF ArriveRestore, Whole, CookielessOk, Request, KindOf, Vouched, CouchTypeOK, Credentials, NoUser, ClearSession
<1>4. ASSUME ~crossed PROVE Settled'
  <2>1. Settled /\ \A q \in net : q.op \notin LoginOps
    BY <1>1, <1>4 DEF Whole, Settled, LoginOk
  <2>2. user.kind = "jwt" => token # None
    BY <2>1, CredentialAssumption DEF Settled, StoredOk, TabTypeOK, Credentials, NoUser
  <2>3. bearer = token
    BY <1>1, <2>1 DEF Settled, BearerOk
  <2>4. \A q \in net' : q.op \notin LoginOps \cup {"restore"}
    BY <1>1, <2>1 DEF ArriveRestore, Request, LoginOps, BootOk
  <2>5. CASE Vouched(r.cred) /\ boot' = "done"
    <3>1. r.cred # None
      BY <2>5, CredentialAssumption DEF Vouched, CouchTypeOK, Credentials
    <3>2. user' = [kind |-> KindOf(r.cred), cred |-> r.cred] /\ screen' = "shell" /\ UNCHANGED <<bearer, token, rp, cut>>
      BY <2>5, <1>1 DEF ArriveRestore
    <3>3. IF r.cred \in Tokens THEN bearer = r.cred /\ user.kind = "jwt" ELSE bearer = None /\ user.kind # "jwt"
      BY <1>1, <2>1, <2>2, <2>3, <3>1 DEF Settled, RestoreOk, StoredOk
    <3>4. StoredOk'
      BY <1>1, <2>1, <2>3, <3>2, <3>3 DEF Settled, StoredOk, KindOf
    <3>5. BearerOk' /\ ShellOk'
      BY <2>3, <2>5, <3>1, <3>2 DEF BearerOk, ShellOk, NoUser
    <3> QED
      BY <2>4, <3>4, <3>5 DEF Settled, LoginOk, RestoreOk
  <2>6. CASE NotVouched(r.cred) /\ boot' = "discover"
    <3>1. user' = NoUser /\ bearer' = None /\ token' = None /\ (rp' = None \/ cut')
      BY <1>1, <2>1, <2>2, <2>3, <2>6 DEF ArriveRestore, ClearSession, Settled, RestoreOk, StoredOk
    <3> QED
      BY <2>4, <2>6, <3>1 DEF Settled, LoginOk, RestoreOk, StoredOk, BearerOk, ShellOk, NoUser
  <2> QED
    BY <2>5, <2>6 DEF ArriveRestore
<1> QED
  BY <1>2, <1>3, <1>4 DEF ArriveRestore, Whole

LEMMA ArriveLoginWhole == ASSUME Inv, Whole, NEW r \in net, ArriveLogin(r) PROVE Whole'
<1> USE DEF Inv, TypeOK
<1>1. PlaceOk'
  BY DEF ArriveLogin, Whole, PlaceOk, Settled, LoginOk, LoginOps
<1>2. r.op = "login" /\ boot' = boot /\ crossed' = crossed /\ bearer' = bearer /\ token' = token /\ rp' = rp /\ cut' = cut
  BY DEF ArriveLogin
<1>3. ASSUME ~crossed PROVE Settled' /\ bearer = None
  <2>1. Settled /\ boot = "done" /\ screen = "login" /\ user = NoUser /\ bearer = None
    BY <1>2, <1>3 DEF Whole, Settled, LoginOk, LoginOps, ShellOk
  <2>2. token = None
    BY <2>1 DEF Settled, StoredOk, NoUser
  <2>3. LoginOk' /\ RestoreOk'
    BY <1>2, <2>1 DEF ArriveLogin, Settled, LoginOk, RestoreOk, LoginOps, Request
  <2>4. StoredOk' /\ ShellOk'
    BY <1>2, <2>1, <2>2 DEF ArriveLogin, Settled, StoredOk, ShellOk, NoUser
  <2>5. BearerOk'
    BY <1>2, <2>1, <2>2 DEF BearerOk
  <2> QED
    BY <2>1, <2>3, <2>4, <2>5 DEF Settled
<1>4. CookielessOk'
  <2> SUFFICES ASSUME deploy = "cookieless" PROVE CookielessOk'
    BY DEF ArriveLogin, CookielessOk
  <2>1. jar' = None /\ user' = user
    BY DEF ArriveLogin, ConfirmsSession, Whole, CookielessOk
  <2>2. \A q \in net' : q \in net \/ (q.op = "confirm" /\ q.cred = Carried(bearer, None))
    BY <2>1, <1>2 DEF ArriveLogin, Request
  <2>3. ~crossed => Carried(bearer, None) = None
    BY <1>3 DEF Carried
  <2> QED
    BY <1>2, <2>1, <2>2, <2>3 DEF Whole, CookielessOk
<1> QED
  BY <1>1, <1>2, <1>3, <1>4 DEF Whole

LEMMA ArriveConfirmWhole == ASSUME Inv, Whole, NEW r \in net, ArriveConfirm(r) PROVE Whole'
<1> USE DEF Inv, TypeOK
<1>1. PlaceOk'
  BY DEF ArriveConfirm, Whole, PlaceOk
<1>2. r.op = "confirm" /\ net' = net \ {r} /\ UNCHANGED <<boot, crossed, bearer, token, rp, cut, deploy, jar>>
  BY DEF ArriveConfirm
<1>3. ASSUME ~crossed PROVE Settled'
  <2>1. Settled /\ boot = "done" /\ screen = "login" /\ user = NoUser /\ bearer = None
    BY <1>2, <1>3 DEF Whole, Settled, LoginOk, LoginOps, ShellOk
  <2>2. token = None
    BY <2>1 DEF Settled, StoredOk, NoUser
  <2>3. LoginOk' /\ RestoreOk'
    BY <1>2, <2>1 DEF Settled, LoginOk, RestoreOk, LoginOps
  <2>4. StoredOk' /\ ShellOk'
    BY <1>2, <2>1, <2>2 DEF ArriveConfirm, Settled, StoredOk, ShellOk, NoUser
  <2>5. BearerOk'
    BY <1>2, <2>1, <2>2 DEF BearerOk
  <2> QED
    BY <2>3, <2>4, <2>5 DEF Settled
<1>4. CookielessOk'
  <2>1. deploy = "cookieless" /\ ~crossed => ~Vouched(r.cred)
    BY <1>2, CredentialAssumption DEF Whole, CookielessOk, Vouched, CouchTypeOK, Credentials
  <2> QED
    BY <1>2, <2>1 DEF ArriveConfirm, Whole, CookielessOk
<1> QED
  BY <1>1, <1>2, <1>3, <1>4 DEF Whole

LEMMA ArriveVouchWhole == ASSUME Inv, BootOk, Whole, NEW r \in net, ArriveVouch(r) PROVE Whole'
<1> USE DEF Inv, TypeOK
<1> DEFINE u == [kind |-> "jwt", cred |-> r.cred]
           rest == net \ {r}
<1>1. r.op = "vouch" /\ r.cred \in Tokens
  BY DEF ArriveVouch, NetOk
<1>2. deploy' = deploy /\ jar' = jar /\ crossed' = crossed /\ cut' = cut
  BY DEF ArriveVouch
<1>3. CASE boot = "vouch"
  <2>1. \/ EnterRestore(u, r.cred, rp, rest) /\ screen' = "shell"
        \/ EnterRestore(NoUser, None, None, rest) /\ screen' = screen
    BY <1>3 DEF ArriveVouch
  <2>2. boot' \in {"restore", "discover"}
    BY <2>1 DEF EnterRestore
  <2>3. PlaceOk'
    BY <1>2, <1>3, <2>1, <2>2 DEF Whole, PlaceOk
  <2>4. CookielessOk'
    BY <1>1, <1>2, <2>1, CredentialAssumption DEF EnterRestore, Carried, Request, Whole, CookielessOk, NoUser
  <2>5. ASSUME ~crossed PROVE Settled'
    <3>1. \A q \in rest : q.op \notin LoginOps \cup {"restore"}
      BY <1>1, <1>3, <2>5 DEF Whole, Settled, LoginOk, LoginOps, BootOk
    <3>2. CASE EnterRestore(u, r.cred, rp, rest)
      BY <1>1, <3>1, <3>2, EnterRestoreSettled DEF Credentials
    <3>3. CASE EnterRestore(NoUser, None, None, rest)
      BY <3>1, <3>3, EnterRestoreSettled DEF NoUser
    <3> QED
      BY <2>1, <3>2, <3>3
  <2> QED
    BY <1>2, <2>3, <2>4, <2>5 DEF Whole
<1>4. CASE boot # "vouch"
  <2>1. /\ net' = rest /\ boot' = boot
        /\ \/ Vouched(r.cred) /\ screen' = "shell" /\ token' = r.cred /\ user' = u /\ UNCHANGED <<bearer, rp>>
           \/ screen' = screen /\ ClearSession
    BY <1>4 DEF ArriveVouch
  <2>2. PlaceOk'
    BY <1>1, <1>2, <2>1 DEF Whole, PlaceOk, Settled, LoginOk, LoginOps
  <2>3. CookielessOk'
    BY <1>2, <2>1 DEF Whole, CookielessOk, ClearSession, NoUser
  <2>4. ASSUME ~crossed PROVE Settled'
    <3>1. /\ Settled /\ boot = "done" /\ screen = "login" /\ user = NoUser /\ bearer = r.cred
          /\ \A q \in rest : q.op \notin LoginOps
      BY <1>1, <1>4, <2>4 DEF Whole, Settled, LoginOk, LoginOps, ShellOk
    <3>2. LoginOk' /\ RestoreOk'
      BY <2>1, <3>1 DEF BootOk, LoginOk, RestoreOk
    <3>3. StoredOk' /\ BearerOk' /\ ShellOk'
      BY <1>2, <2>1, <3>1 DEF StoredOk, BearerOk, ShellOk, ClearSession, NoUser, Settled
    <3> QED
      BY <3>2, <3>3 DEF Settled
  <2> QED
    BY <1>2, <2>2, <2>3, <2>4 DEF Whole
<1> QED
  BY <1>3, <1>4

LEMMA ArriveExchangeWhole == ASSUME Inv, BootOk, Whole, NEW r \in net, ArriveExchange(r) PROVE Whole'
<1> USE DEF Inv, TypeOK
<1> DEFINE rest == net \ {r}
<1>1. boot = "exchange"
  BY DEF ArriveExchange, BootOk
<1>2. deploy' = deploy /\ jar' = jar /\ crossed' = crossed /\ cut' = cut /\ screen' = screen
  BY DEF ArriveExchange
<1>3. CASE EnterRestore(user, token, rp, rest)
  <2>1. boot' \in {"restore", "discover"}
    BY <1>3 DEF EnterRestore
  <2>2. PlaceOk'
    BY <1>1, <1>2, <2>1 DEF Whole, PlaceOk
  <2>3. CookielessOk'
    BY <1>2, <1>3, CredentialAssumption DEF EnterRestore, Carried, Request, Whole, CookielessOk, NoUser, TabTypeOK
  <2>4. ASSUME ~crossed PROVE Settled'
    <3>1. Settled /\ \A q \in rest : q.op \notin LoginOps \cup {"restore"}
      BY <1>1, <2>4 DEF Whole, Settled, LoginOk, LoginOps, BootOk
    <3> QED
      BY <1>1, <1>2, <1>3, <3>1, EnterRestoreSettled DEF TabTypeOK, Settled, StoredOk
  <2> QED
    BY <1>2, <2>2, <2>3, <2>4 DEF Whole
<1>4. CASE ~EnterRestore(user, token, rp, rest)
  <2>1. PICK t \in Tokens : /\ bearer' = t /\ boot' = "vouch" /\ UNCHANGED <<user, token>>
                            /\ net' = rest \cup Request("vouch", t)
    BY <1>4 DEF ArriveExchange
  <2>2. PlaceOk'
    BY <1>1, <1>2, <2>1 DEF Whole, PlaceOk
  <2>3. CookielessOk'
    BY <1>2, <2>1 DEF Request, Whole, CookielessOk
  <2>4. ASSUME ~crossed PROVE Settled'
    <3>1. Settled /\ \A q \in rest : q.op \notin LoginOps \cup {"restore"}
      BY <1>1, <2>4 DEF Whole, Settled, LoginOk, LoginOps, BootOk
    <3>2. LoginOk' /\ RestoreOk'
      BY <2>1, <3>1 DEF LoginOk, RestoreOk, Request, LoginOps
    <3> QED
      BY <2>1, <3>1, <3>2 DEF Settled, StoredOk, BearerOk, ShellOk
  <2> QED
    BY <1>2, <2>2, <2>3, <2>4 DEF Whole
<1> QED
  BY <1>3, <1>4

LEMMA BootWhole == ASSUME Inv, Whole, Boot PROVE Whole'
<1> USE DEF Inv, TypeOK
<1>1. boot = "start" /\ net = {} /\ screen = "none"
  BY DEF Boot, Whole, PlaceOk
<1>2. deploy' = deploy /\ jar' = jar /\ crossed' = crossed /\ cut' = cut /\ screen' = screen
  BY DEF Boot, budget
<1>3. CASE EnterRestore(user, token, rp, net)
  <2>1. boot' \in {"restore", "discover"}
    BY <1>3 DEF EnterRestore
  <2>2. PlaceOk'
    BY <1>1, <1>2, <2>1 DEF Whole, PlaceOk
  <2>3. CookielessOk'
    BY <1>2, <1>3, CredentialAssumption DEF EnterRestore, Carried, Request, Whole, CookielessOk, NoUser, TabTypeOK
  <2>4. ASSUME ~crossed PROVE Settled'
    BY <1>1, <1>2, <1>3, <2>4, EnterRestoreSettled DEF Whole, Settled, StoredOk, TabTypeOK
  <2> QED
    BY <1>2, <2>2, <2>3, <2>4 DEF Whole
<1>4. CASE ~EnterRestore(user, token, rp, net)
  <2>1. boot' = "exchange" /\ UNCHANGED tab /\ net' = Request("exchange", attempt)
    BY <1>1, <1>4 DEF Boot, ConsumeCallback
  <2>2. PlaceOk' /\ CookielessOk'
    BY <1>1, <1>2, <2>1 DEF Whole, PlaceOk, CookielessOk, Request, tab
  <2>3. ~crossed => Settled'
    BY <1>1, <1>2, <2>1 DEF Whole, Settled, LoginOk, StoredOk, BearerOk, ShellOk, RestoreOk, Request, tab, LoginOps
  <2> QED
    BY <1>2, <2>2, <2>3 DEF Whole
<1> QED
  BY <1>3, <1>4

\* A read or a probe sent from the shell is no login and none of the boot's requests.
LEMMA ArriveReadWhole ==
  ASSUME Inv, Whole, Read \/ \E r \in net : ArriveRead(r)
  PROVE  Whole'
<1> USE DEF Inv, TypeOK
<1>1. UNCHANGED <<deploy, jar, tab, boot, screen, crossed, cut>>
  BY DEF Read, ArriveRead, budget
<1>2. \A q \in net' : q \in net \/ q.op \in {"read", "probe"}
  BY DEF Read, ArriveRead, Request
<1>3. LoggingIn <=> LoggingIn'
  BY <1>2 DEF Read, ArriveRead, Request, LoggingIn
<1>4. PlaceOk'
  BY <1>1, <1>2 DEF Whole, PlaceOk, Read, ArriveRead
<1>5. CookielessOk'
  BY <1>1, <1>2 DEF Whole, CookielessOk, tab
<1>6. Settled => Settled'
  BY <1>1, <1>2, <1>3 DEF Settled, LoginOk, StoredOk, BearerOk, ShellOk, RestoreOk, LoginOps, tab
<1> QED
  BY <1>1, <1>4, <1>5, <1>6 DEF Whole

\* The session is cleared, and nothing else of it crosses the step.
LEMMA ClearedWhole ==
  ASSUME BootOk, Whole, boot = "done", ClearSession, UNCHANGED <<deploy, jar, boot, cut>>, screen' = "login",
         \A q \in net' : q \in net \/ q.op = "delete",
         crossed' = (crossed \/ LoggingIn)
  PROVE  Whole'
<1>1. PlaceOk' /\ CookielessOk'
  BY DEF Whole, PlaceOk, CookielessOk, ClearSession, NoUser
<1>2. ASSUME ~crossed' PROVE Settled'
  <2>1. ~crossed /\ \A q \in net' : q.op \notin LoginOps
    BY <1>2 DEF LoggingIn, LoginOps
  <2> QED
    BY <2>1 DEF Whole, BootOk, Settled, LoginOk, StoredOk, BearerOk, ShellOk, RestoreOk, ClearSession, NoUser
<1> QED
  BY <1>1, <1>2 DEF Whole

LEMMA LogoutWhole == ASSUME Inv, BootOk, Whole, Logout \/ \E r \in net : ArriveProbe(r) PROVE Whole'
<1>1. UNCHANGED <<deploy, jar, boot, cut>>
  BY DEF Logout, ArriveProbe, budget
<1>2. CASE (LoggedOut(net) \/ \E r \in net : LoggedOut(net \ {r})) /\ screen' = "login"
  <2>1. ClearSession /\ screen' = "login" /\ crossed' = (crossed \/ boot # "done" \/ LoggingIn)
    BY <1>2 DEF LoggedOut
  <2>2. \A q \in net' : q \in net \/ q.op = "delete"
    BY <1>2 DEF LoggedOut, Request
  <2>3. CASE boot = "done"
    BY <1>1, <2>1, <2>2, <2>3, ClearedWhole
  <2>4. CASE boot # "done"
    <3>1. crossed' /\ boot # "start"
      BY <2>1, <2>4 DEF Logout, ArriveProbe, Whole, PlaceOk
    <3> QED
      BY <1>1, <2>1, <2>2, <2>4, <3>1 DEF Whole, PlaceOk, CookielessOk, ClearSession, NoUser
  <2> QED
    BY <2>3, <2>4
<1>3. CASE \E r \in net : r.op = "probe" /\ net' = net \ {r} /\ UNCHANGED <<tab, screen, crossed>>
  <2>1. (LoggingIn <=> LoggingIn') /\ \A q \in net' : q \in net
    BY <1>3 DEF LoggingIn
  <2>2. PlaceOk' /\ CookielessOk'
    BY <1>1, <1>3 DEF Whole, PlaceOk, CookielessOk, tab
  <2>3. Settled => Settled'
    BY <1>1, <1>3, <2>1 DEF Settled, LoginOk, StoredOk, BearerOk, ShellOk, RestoreOk, LoginOps, tab
  <2> QED
    BY <1>3, <2>2, <2>3 DEF Whole
<1> QED
  BY <1>2, <1>3 DEF Logout, ArriveProbe

LEMMA LoginStartsWhole == ASSUME Inv, BootOk, Whole, SubmitPassword \/ PasteToken PROVE Whole'
<1> USE DEF Inv, TypeOK
<1>1. screen = "login" /\ ~LoggingIn /\ UNCHANGED <<deploy, jar, user, token, rp, boot, screen, crossed, cut>>
  BY DEF SubmitPassword, PasteToken, tab, budget
<1>2. PICK q \in [op : {"login", "vouch"}, cred : Credentials \cup {None}] :
        /\ net' = net \cup {q}
        /\ IF q.op = "vouch" THEN bearer' = q.cred ELSE bearer' = bearer
  <2>1. CASE SubmitPassword
    <3>1. Current \in Credentials \cup {None}
      BY CarriedTyped DEF Current, TabTypeOK, CouchTypeOK
    <3> DEFINE q == [op |-> "login", cred |-> Current]
    <3>2. net' = net \cup {q} /\ bearer' = bearer
      BY <2>1 DEF SubmitPassword, Request, tab
    <3>3. q \in [op : {"login", "vouch"}, cred : Credentials \cup {None}] /\ q.op # "vouch"
      BY <3>1
    <3> HIDE DEF q
    <3> QED
      BY <3>2, <3>3
  <2>2. CASE PasteToken
    <3>1. PICK t \in Tokens : bearer' = t /\ net' = net \cup Request("vouch", t)
      BY <2>2 DEF PasteToken
    <3> DEFINE q == [op |-> "vouch", cred |-> t]
    <3>2. net' = net \cup {q} /\ bearer' = q.cred
      BY <3>1 DEF Request
    <3>3. q \in [op : {"login", "vouch"}, cred : Credentials \cup {None}] /\ q.op = "vouch"
      BY DEF Credentials
    <3> HIDE DEF q
    <3> QED
      BY <3>2, <3>3
  <2> QED
    BY <2>1, <2>2
<1>3. PlaceOk' /\ CookielessOk'
  BY <1>1, <1>2 DEF Whole, PlaceOk, CookielessOk
<1>4. ASSUME ~crossed PROVE Settled'
  <2>1. Settled /\ boot = "done" /\ user = NoUser /\ token = None /\ bearer = None
    BY <1>1, <1>4 DEF Whole, PlaceOk, Settled, ShellOk, BearerOk, StoredOk, NoUser
  <2>2. \A p \in net : p.op \notin LoginOps
    BY <1>1 DEF LoggingIn, LoginOps
  <2>3. LoginOk'
    BY <1>1, <1>2, <2>1, <2>2 DEF LoginOk, LoginOps
  <2>4. LoggingIn'
    BY <1>2 DEF LoggingIn
  <2>5. RestoreOk'
    BY <1>2, <2>1 DEF BootOk, RestoreOk
  <2> QED
    BY <1>1, <2>1, <2>3, <2>4, <2>5 DEF Settled, StoredOk, BearerOk, ShellOk
<1> QED
  BY <1>1, <1>3, <1>4 DEF Whole

\* The page goes with its requests; what sessionStorage holds stays whole.
LEMMA LeaveWhole == ASSUME Inv, Whole, StartIdpLogin \/ LogoutEverywhere \/ Reload PROVE Whole'
<1> USE DEF Inv, TypeOK
<1>1. net' = {} /\ boot' = "start" /\ bearer' = None /\ screen' \in {"none", "signingIn", "signingOut"} /\ deploy' = deploy
  BY DEF StartIdpLogin, LogoutEverywhere, Reload, Unload, TornDown, ClearSession
<1>2. jar' \in {jar, None}
  BY DEF StartIdpLogin, LogoutEverywhere, Reload, Unload
<1>3. (crossed => crossed') /\ (cut => cut')
  <2>1. CASE StartIdpLogin
    BY <2>1 DEF StartIdpLogin, budget
  <2>2. CASE LogoutEverywhere
    BY <2>2 DEF LogoutEverywhere, TornDown, budget
  <2>3. CASE Reload
    BY <2>3 DEF Reload
  <2> QED
    BY <2>1, <2>2, <2>3
<1>4. \/ user' = NoUser /\ token' = None /\ rp' = None
      \/ user' = user /\ token' = token /\ rp' = rp /\ (boot = "vouch" => cut' \/ crossed)
  BY DEF StartIdpLogin, LogoutEverywhere, Reload, TornDown, ClearSession, budget, Whole, PlaceOk
<1>5. PlaceOk'
  BY <1>1 DEF PlaceOk
<1>6. CookielessOk'
  BY <1>1, <1>2, <1>3, <1>4 DEF Whole, CookielessOk, NoUser
<1>7. ASSUME ~crossed' PROVE Settled'
  BY <1>1, <1>3, <1>4, <1>7 DEF Whole, Settled, LoginOk, StoredOk, BearerOk, ShellOk, RestoreOk, NoUser
<1> QED
  BY <1>5, <1>6, <1>7 DEF Whole

\* What does not touch the tab's session.
LEMMA ElsewhereWhole ==
  ASSUME Inv, BootOk, Whole,
         \/ Return \/ OtherTab \/ (\E c \in live : Expire(c)) \/ UNCHANGED vars
         \/ \E r \in net : ArriveDelete(r) \/ ArriveDiscover(r)
  PROVE  Whole'
<1> USE DEF Inv, TypeOK
<1>1. CASE Return
  BY <1>1 DEF Return, Whole, PlaceOk, CookielessOk, Settled, LoginOk, StoredOk, BearerOk, ShellOk, RestoreOk,
     tab, budget, LoginOps, LoggingIn
<1>2. CASE OtherTab \/ (\E c \in live : Expire(c)) \/ UNCHANGED vars
  BY <1>2 DEF OtherTab, Expire, vars, Whole, PlaceOk, CookielessOk, Settled, LoginOk, StoredOk, BearerOk, ShellOk,
     RestoreOk, tab, budget, LoginOps, LoggingIn
<1>3. ASSUME NEW r \in net, ArriveDelete(r) PROVE Whole'
  <2>1. UNCHANGED <<deploy, tab, boot, screen, crossed, cut>> /\ jar' \in {jar, None} /\ net' = net \ {r} /\ r.op = "delete"
    BY <1>3 DEF ArriveDelete
  <2>2. LoggingIn => LoggingIn'
    BY <2>1 DEF LoggingIn
  <2>3. PlaceOk' /\ CookielessOk'
    BY <2>1 DEF Whole, PlaceOk, CookielessOk, tab
  <2>4. Settled => Settled'
    BY <2>1, <2>2 DEF Settled, LoginOk, StoredOk, BearerOk, ShellOk, RestoreOk, tab
  <2> QED
    BY <2>1, <2>3, <2>4 DEF Whole
<1>4. ASSUME NEW r \in net, ArriveDiscover(r) PROVE Whole'
  <2>1. /\ UNCHANGED <<deploy, jar, tab, crossed, cut>> /\ net' = net \ {r} /\ boot = "discover"
        /\ boot' = "done" /\ screen' = "login"
    BY <1>4 DEF ArriveDiscover, BootOk, budget
  <2>2. PlaceOk' /\ CookielessOk'
    BY <2>1 DEF Whole, PlaceOk, CookielessOk, tab
  <2>3. Settled => Settled'
    BY <2>1 DEF Settled, LoginOk, StoredOk, BearerOk, ShellOk, RestoreOk, tab, LoginOps
  <2> QED
    BY <2>1, <2>2, <2>3 DEF Whole
<1> QED
  BY <1>1, <1>2, <1>3, <1>4

LEMMA NextWhole == Inv /\ BootOk /\ Whole /\ [Next]_vars => Whole'
<1> SUFFICES ASSUME Inv, BootOk, Whole, [Next]_vars PROVE Whole'
  OBVIOUS
<1>1. ASSUME NEW r \in net, Arrive(r) PROVE Whole'
  BY <1>1, ArriveRestoreWhole, ArriveLoginWhole, ArriveConfirmWhole, ArriveVouchWhole, ArriveExchangeWhole,
     ElsewhereWhole, ArriveReadWhole, LogoutWhole DEF Arrive
<1>2. CASE SubmitPassword \/ PasteToken \/ StartIdpLogin \/ LogoutEverywhere \/ Reload
  BY <1>2, LoginStartsWhole, LeaveWhole
<1>3. CASE Boot \/ Read \/ Logout
  BY <1>3, BootWhole, ArriveReadWhole, LogoutWhole
<1>4. CASE Return \/ OtherTab \/ (\E c \in live : Expire(c)) \/ UNCHANGED vars
  BY <1>4, ElsewhereWhole
<1> QED
  BY <1>1, <1>2, <1>3, <1>4 DEF Next

-----------------------------------------------------------------------------
(* The theorems *)

LEMMA NextInv == Inv /\ [Next]_vars => Inv'
<1> SUFFICES ASSUME Inv, [Next]_vars PROVE Inv'
  OBVIOUS
<1>1. ASSUME NEW r \in net, Arrive(r) PROVE Inv'
  BY <1>1, ArriveRestoreInv, ArriveLoginInv, ArriveConfirmInv, ArriveVouchInv, ArriveExchangeInv,
     ArriveDiscoverInv, ArriveReadInv, ArriveProbeInv, ArriveDeleteInv DEF Arrive
<1>2. CASE SubmitPassword \/ PasteToken \/ StartIdpLogin \/ Return \/ Boot
  BY <1>2, SubmitPasswordInv, PasteTokenInv, StartIdpLoginInv, ReturnInv, BootInv
<1>3. CASE Read \/ Logout \/ LogoutEverywhere
  BY <1>3, ReadInv, LogoutInv, LogoutEverywhereInv
<1>4. ASSUME NEW c \in live, Expire(c) PROVE Inv'
  BY <1>4, ExpireInv
<1>5. CASE OtherTab \/ Reload
  BY <1>5, OtherTabInv, ReloadInv
<1>6. CASE UNCHANGED vars
  BY <1>6 DEF vars, couch, tab, idp, budget, Inv, TypeOK, CouchTypeOK, TabTypeOK, IdpTypeOK, PageTypeOK,
     BudgetTypeOK, NetOk, SpentOk, AwayOk, SignedOutBeforeLeaving
<1> QED
  BY <1>1, <1>2, <1>3, <1>4, <1>5, <1>6 DEF Next

THEOREM InvHolds == Spec => []Inv
  BY InitInv, NextInv, PTL DEF Spec

LEMMA PendingHolds == Spec => []BootOk /\ []ProbeOnce
<1>1. Init => BootOk /\ ProbeOnce
  BY DEF Init, BootOk, ProbeOnce
<1> QED
  BY <1>1, BootStep, ProbeStep, PTL DEF Spec

LEMMA WholeHolds == Spec => []Whole
  BY InitWhole, NextWhole, InvHolds, PendingHolds, PTL DEF Spec

\* A live session is ended unasked only by a lost probe, or by one that was sent with
\* another session's credential.
THEOREM LiveSessionsStay == Spec => OnlyDeadSessionsEnd
<1>1. Inv => TypeOK
  BY DEF Inv
<1> QED
  BY <1>1, PendingHolds, InvHolds, EndStep, PTL DEF Spec, OnlyDeadSessionsEnd

\* Every variable keeps its shape, for any credentials and any bounds.
THEOREM SessionTypeCorrect == Spec => []TypeOK
<1>1. Inv => TypeOK
  BY DEF Inv
<1> QED
  BY <1>1, InvHolds, PTL

\* completeLogin sends a code and its verifier at most once, through any number of
\* logins, reloads and returns.
THEOREM CallbackIsSpentOnce == Spec => []CallbackSpentOnce
<1>1. Inv => CallbackSpentOnce
  BY DEF Inv, SpentOk, CallbackSpentOnce, TypeOK, IdpTypeOK
<1> QED
  BY <1>1, InvHolds, PTL

\* The page that leaves for the IdP's logout leaves no token, record or user behind.
THEOREM LeavesSignedOut == Spec => []SignedOutBeforeLeaving
<1>1. Inv => SignedOutBeforeLeaving
  BY DEF Inv, AwayOk, SignedOutBeforeLeaving
<1> QED
  BY <1>1, InvHolds, PTL

\* Unless a logout crossed a login or a boot under way, or a reload cut the callback short,
\* the shell is mounted exactly over a recorded user, a JWT user's token is held on both
\* sides, and nobody else has one.
THEOREM SessionsAreWhole == Spec => []NoFragments
<1>1. Inv /\ Whole => NoFragments
  <2> SUFFICES ASSUME Inv, Whole, boot = "done", ~crossed, ~cut
               PROVE  /\ (screen = "shell") = (user # NoUser)
                      /\ user.kind = "jwt" => token = user.cred /\ bearer = user.cred
                      /\ user.kind # "jwt" => token = None /\ rp = None /\ (bearer # None => LoggingIn)
    BY DEF NoFragments
  <2>1. Settled
    BY DEF Whole
  <2>2. user.kind = "jwt" => user.cred # None
    BY CredentialAssumption DEF Inv, TypeOK, TabTypeOK, Credentials, NoUser
  <2>3. (screen = "shell") = (user # NoUser)
    BY <2>1 DEF Settled, ShellOk
  <2> QED
    BY <2>1, <2>2, <2>3 DEF Settled, StoredOk, BearerOk
<1> QED
  BY <1>1, InvHolds, WholeHolds, PTL

\* Where the browser drops the cross-site cookie no password login is ever recorded, unless
\* a logout crossed one.
THEOREM NobodyHoldsTheDropped == Spec => []NoSessionNobodyHolds
<1>1. Whole => NoSessionNobodyHolds
  BY DEF Whole, CookielessOk, NoSessionNobodyHolds
<1> QED
  BY <1>1, WholeHolds, PTL
=============================================================================
