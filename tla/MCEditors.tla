------------------------------ MODULE MCEditors ------------------------------
(* The editors of the app, checked in one run.  A tab shows one screen at a time, *)
(* and a screen that is left is unmounted: `screen` is the one that is open, and the      *)
(* screens share the variables, each one giving those it has its own names.                *)
EXTENDS Naturals, TLC

CONSTANTS
  Opened,         \* the editors this run opens
  d1, d2, x, y, v, n, None, MaxTrouble

VARIABLES
  screen,
  s1, s2, s3, s4, s5, s6, s7, s8, s9, s10, s11, s12, s13, s14, s15, s16, s17, s18, s19,
  s20, s21, s22, s23

slots == <<s1, s2, s3, s4, s5, s6, s7, s8, s9, s10, s11, s12, s13, s14, s15, s16, s17,
            s18, s19, s20, s21, s22, s23>>

MCAccountOf == (d1 :> x) @@ (d2 :> x) @@ (v :> y)
MCDefaultBranch == (d1 :> n) @@ (d2 :> n) @@ (v :> v)
MCFiltersOf == (d1 :> {v}) @@ (d2 :> {n})
MCTyped == (v :> v) @@ (y :> n)
Leaf(is, t) == [op |-> "leaf", field |-> x, is |-> is, value |-> MCTyped[t]]
MCSnapshots ==
  {Leaf("$eq", v), [op |-> "$or", items |-> <<Leaf("$eq", v), Leaf("$eq", y)>>],
   [op |-> "$and", items |-> <<Leaf("$ne", v),
      [op |-> "$nor", items |-> <<Leaf("$eq", v), Leaf("$eq", y)>>]>>]}
Rule(name, values, sep) == [name |-> name, values |-> values, sep |-> sep]
MCHeaders ==
  {<<Rule("default-src", <<"'self'">>, " ;"), Rule("script-src", <<"'self'">>, " ;"), Rule("img-src", <<"*">>, ";")>>,
   <<Rule("default-src", <<"'self'", "'unsafe-eval'">>, "")>>,
   <<Rule("default-src", <<"*">>, "; "), Rule("connect-src", <<"'self'", "ghe">>, "; "), Rule("img-src", <<"*">>, "")>>}
MCTexts == {<<x>>, <<y, "/">>, <<y, "/", ".well-known", "/">>}
MCReaches == {(x :> "all") @@ (y :> "document"), (x :> "document") @@ (y :> "nothing")}
MCStored == {<<>>, ("enable_cors" :> <<"true">>) @@ ("origins" :> <<y>>)}
MCCovers == {<<"*", "git">>, <<"*", "idp">>, <<"*", "ghe">>, <<"'self'", "home">>}

Indexes == INSTANCE IndexManager WITH
  Keys <- {<<1, 1>>, <<2, 1>>}, Defs <- {x, y}, Initial <- {x}, MaxLoads <- 1,
  MaxEdits <- 1, indexes <- s1, list <- s2, loads <- s3, loading <- s4, ticked <- s5,
  edited <- s6, editing <- s7, form <- s8, offered <- s9, source <- s10, preview <- s11,
  creating <- s12, deletion <- s13, edits <- s14, clicked <- s15, crossed <- s16
Policy == INSTANCE CspCheck WITH
  Checks <- {x}, OriginsOf <- (x :> <<"git", "ghe">>), ViewTester <- {x},
  Covers <- MCCovers, Headers <- MCHeaders, Admins <- {x}, Eval <- "'unsafe-eval'",
  MaxWrites <- 3, MaxOthers <- 1, served <- s1, enforced <- s2, policy <- s3,
  reading <- s4, write <- s5, denied <- s6, writes <- s7, others <- s8, original <- s9
Views == INSTANCE ViewEditor WITH
  Names <- {v, n}, New <- n, MaxEdits <- 1, MaxSaves <- 2, stored <- s1, ddoc <- s2,
  fresh <- s3, name <- s4, tab <- s5, raw <- s6, broken <- s7, dirty <- s8, failed <- s9,
  canWrite <- s10, mayWrite <- s11, loading <- s12, saves <- s13, quick <- s14,
  testing <- s15, edits <- s16, trouble <- s17, known <- s18, loaded <- s19,
  midway <- s20, overtaken <- s21
Document == INSTANCE DocEditor WITH
  Names <- {n}, Bodies <- {x, y}, Default <- x, MaxRevs <- 4, doc <- s1, revs <- s2,
  screen <- s3, buffer <- s4, loaded <- s5, loadedRev <- s6, listed <- s7, dirty <- s8,
  loading <- s9, op <- s10, dialog <- s11, saving <- s12, unread <- s13, trouble <- s14
History == INSTANCE QueryHistory WITH
  Queries <- {v, x, y}, HISTORY_MAX <- 2, MaxIds <- 3, MaxOps <- 2, exists <- s1,
  entries <- s2, history <- s3, ops <- s4, spinning <- s5, ids <- s6, trouble <- s7,
  dated <- s8
Replication == INSTANCE ReplicationEditor WITH
  Kinds <- {"source"}, Hosts <- {x, y}, Dbs <- {d1, d2}, Values <- {v}, MaxOthers <- 1,
  MaxEdits <- 1, MaxSaves <- 1, stored <- s1, revs <- s2, mode <- s3, form <- s4,
  loads <- s5, saving <- s6, missing <- s7, verifying <- s8, others <- s9, edits <- s10,
  saves <- s11
Mango == INSTANCE MangoBuilder WITH
  Fields <- {x}, Texts <- {v, y}, Typed <- MCTyped, Values <- {v, n, d1},
  Snapshots <- MCSnapshots, Hosts <- {"query", "replication"}, MaxEdits <- 2,
  MaxConditions <- 2, host <- s1, open <- s2, root <- s3, asked <- s4, query <- s5,
  sorts <- s6, frozen <- s7, snapped <- s8, shown <- s9, saved <- s10, edits <- s11
Drawer == INSTANCE LinkDrawer WITH
  Accounts <- {x, y}, Repos <- {d1, d2, v}, AccountOf <- MCAccountOf,
  OwnerOf <- MCAccountOf, Branches <- {n, v}, DefaultBranch <- MCDefaultBranch,
  Paths <- {x, y}, Root <- x, MaxLoads <- 2, MaxPicks <- 3, link <- s1, repoId <- s2,
  repoAccountId <- s3, open <- s4, manage <- s5, stored <- s6, listed <- s7,
  loadingAccounts <- s8, showAccountForm <- s9, account <- s10, repos <- s11,
  owner <- s12, repo <- s13, loadingRepos <- s14, branches <- s15, current <- s16,
  form <- s17, pending <- s18, loads <- s19, prompt <- s20, picked <- s21,
  crossed <- s22, picks <- s23
Endpoint == INSTANCE EndpointForm WITH
  Servers <- {x, y}, Secrets <- {v}, Ddocs <- {d1, d2}, FiltersOf <- MCFiltersOf,
  Names <- {n}, MaxEdits <- 3, MaxLoads <- 2, serverUrl <- s1, auth <- s2, dialog <- s3,
  panel <- s4, draftRow <- s5, typed <- s6, browser <- s7, picker <- s8, filterFn <- s9,
  requests <- s10, sent <- s11, edits <- s12
Form == INSTANCE Access WITH
  Entries <- {x}, Admin <- n, Me <- x, MyRoles <- {x}, MaxEdits <- 1, MaxWrites <- 2,
  form <- s1, admin <- s2, db <- s3, access <- s4, inputs <- s5, focus <- s6, load <- s7,
  writes <- s8, name <- s9, partitioned <- s10, submitting <- s11, error <- s12,
  creation <- s13, before <- s14, touched <- s15, unread <- s16, asked <- s17,
  edits <- s18, sent <- s19, trouble <- s20
Options == INSTANCE ConfigScreen WITH
  Origins <- {x}, Values <- {<<v>>}, Edited <- {"origins"}, Stored <- MCStored,
  MaxSends <- 3, config <- s1, open <- s2, header <- s3, nodes <- s4, shown <- s5,
  loading <- s6, reads <- s7, dialog <- s8, saves <- s9, panel <- s10, saving <- s11,
  jobs <- s12, clock <- s13, newest <- s14, lost <- s15, sent <- s16, wrote <- s17,
  trouble <- s18
Provider == INSTANCE IdpForm WITH
  Texts <- MCTexts, Reaches <- MCReaches, Clients <- {v}, Claims <- {n}, MaxEdits <- 2,
  MaxSends <- 2, route <- s1, reach <- s2, stored <- s3, applied <- s4, live <- s5,
  header <- s6, idp <- s7, loading <- s8, editing <- s9, draft <- s10, job <- s11,
  form <- s12, pending <- s13, reg <- s14, error <- s15, blocked <- s16, confirm <- s17,
  alone <- s18, edits <- s19, sent <- s20, trouble <- s21

EditorsInit ==
  /\ screen \in Opened
  /\ \/ /\ screen = "indexes" /\ Indexes!Init
        /\ s17 = None /\ s18 = None /\ s19 = None /\ s20 = None /\ s21 = None /\ s22 = None
        /\ s23 = None
     \/ /\ screen = "policy" /\ Policy!Init
        /\ s10 = None /\ s11 = None /\ s12 = None /\ s13 = None /\ s14 = None /\ s15 = None
        /\ s16 = None /\ s17 = None /\ s18 = None /\ s19 = None /\ s20 = None /\ s21 = None
        /\ s22 = None /\ s23 = None
     \/ /\ screen = "views" /\ Views!Init
        /\ s22 = None /\ s23 = None
     \/ /\ screen = "document" /\ Document!Init
        /\ s15 = None /\ s16 = None /\ s17 = None /\ s18 = None /\ s19 = None /\ s20 = None
        /\ s21 = None /\ s22 = None /\ s23 = None
     \/ /\ screen = "history" /\ History!Init
        /\ s9 = None /\ s10 = None /\ s11 = None /\ s12 = None /\ s13 = None /\ s14 = None
        /\ s15 = None /\ s16 = None /\ s17 = None /\ s18 = None /\ s19 = None /\ s20 = None
        /\ s21 = None /\ s22 = None /\ s23 = None
     \/ /\ screen = "replication" /\ Replication!Init
        /\ s12 = None /\ s13 = None /\ s14 = None /\ s15 = None /\ s16 = None /\ s17 = None
        /\ s18 = None /\ s19 = None /\ s20 = None /\ s21 = None /\ s22 = None /\ s23 = None
     \/ /\ screen = "mango" /\ Mango!Init
        /\ s12 = None /\ s13 = None /\ s14 = None /\ s15 = None /\ s16 = None /\ s17 = None
        /\ s18 = None /\ s19 = None /\ s20 = None /\ s21 = None /\ s22 = None /\ s23 = None
     \/ /\ screen = "drawer" /\ Drawer!Init
     \/ /\ screen = "endpoint" /\ Endpoint!Init
        /\ s13 = None /\ s14 = None /\ s15 = None /\ s16 = None /\ s17 = None /\ s18 = None
        /\ s19 = None /\ s20 = None /\ s21 = None /\ s22 = None /\ s23 = None
     \/ /\ screen = "access" /\ Form!Init
        /\ s21 = None /\ s22 = None /\ s23 = None
     \/ /\ screen = "options" /\ Options!Init
        /\ s19 = None /\ s20 = None /\ s21 = None /\ s22 = None /\ s23 = None
     \/ /\ screen = "provider" /\ Provider!Init
        /\ s22 = None /\ s23 = None

EditorsNext ==
  /\ UNCHANGED screen
  /\ \/ /\ screen = "indexes" /\ Indexes!Next
        /\ UNCHANGED <<s17, s18, s19, s20, s21, s22, s23>>
     \/ /\ screen = "policy" /\ Policy!Next
        /\ UNCHANGED <<s10, s11, s12, s13, s14, s15, s16, s17, s18, s19, s20, s21, s22,
                       s23>>
     \/ /\ screen = "views" /\ Views!Next
        /\ UNCHANGED <<s22, s23>>
     \/ /\ screen = "document" /\ Document!Next
        /\ UNCHANGED <<s15, s16, s17, s18, s19, s20, s21, s22, s23>>
     \/ /\ screen = "history" /\ History!Next
        /\ UNCHANGED <<s9, s10, s11, s12, s13, s14, s15, s16, s17, s18, s19, s20, s21,
                       s22, s23>>
     \/ /\ screen = "replication" /\ Replication!Next
        /\ UNCHANGED <<s12, s13, s14, s15, s16, s17, s18, s19, s20, s21, s22, s23>>
     \/ /\ screen = "mango" /\ Mango!Next
        /\ UNCHANGED <<s12, s13, s14, s15, s16, s17, s18, s19, s20, s21, s22, s23>>
     \/ /\ screen = "drawer" /\ Drawer!Next
     \/ /\ screen = "endpoint" /\ Endpoint!Next
        /\ UNCHANGED <<s13, s14, s15, s16, s17, s18, s19, s20, s21, s22, s23>>
     \/ /\ screen = "access" /\ Form!Next
        /\ UNCHANGED <<s21, s22, s23>>
     \/ /\ screen = "options" /\ Options!Next
        /\ UNCHANGED <<s19, s20, s21, s22, s23>>
     \/ /\ screen = "provider" /\ Provider!Next
        /\ UNCHANGED <<s22, s23>>

allVars == <<screen, slots>>
EditorsSpec == EditorsInit /\ [][EditorsNext]_allVars

-------------------------------------------------------------------------------
(* Each editor: its variables keep their shape, and what it says about its own state    *)
(* is true - unsaved work is known to be unsaved, the test result is that of the          *)
(* function on the screen, the verified ids are those of the form, no query is in the     *)
(* history twice (WarnedOfUnsavedWork, ResultIsOfTheFunction, DirtyIsTrue,                *)
(* VerifiedIsCurrent, EachQueryOnce), the query is the one that was built                 *)
(* (QueryMeansTheEdit, BuilderShowsTheQuery, SortIsThePanels), a link joins an account     *)
(* and a repository of its (OffersAreOfTheChoice, LinkHoldsTogether), the databases to        *)
(* pick from are the server's (ListIsOfTheServer, SpinnersEnd), and nobody loses an access    *)
(* by an update of other lists (EntriesOnce, UntouchedStays), and a settled configuration     *)
(* screen shows CouchDB's (HeaderBelongsToTheScreen, SpinnerEnds, SettledScreenIsTheServers), *)
(* and so does a provider's, with its own keys and the buttons of its mode (KeysAreTheirs,     *)
(* HeaderFollowsTheMode, SettledIsTheServers, AsksForTheDocument).                              *)
EditorIsHonest ==
  /\ (screen = "views") => Views!TypeOK /\ Views!WarnedOfUnsavedWork /\ Views!ResultIsOfTheFunction
  /\ (screen = "document") => Document!TypeOK /\ Document!DirtyIsTrue
  /\ (screen = "replication") => Replication!TypeOK /\ Replication!VerifiedIsCurrent
  /\ (screen = "history") => History!TypeOK /\ History!EachQueryOnce
  /\ (screen = "indexes") => Indexes!TypeOK
  /\ (screen = "mango") =>
       Mango!TypeOK /\ Mango!QueryMeansTheEdit /\ Mango!BuilderShowsTheQuery /\ Mango!SortIsThePanels
  /\ (screen = "drawer") =>
       Drawer!TypeOK /\ Drawer!OffersAreOfTheChoice /\ Drawer!LinkHoldsTogether
  /\ (screen = "policy") => Policy!TypeOK
  /\ (screen = "endpoint") => Endpoint!TypeOK /\ Endpoint!ListIsOfTheServer /\ Endpoint!SpinnersEnd
  /\ (screen = "access") => Form!TypeOK /\ Form!EntriesOnce /\ Form!UntouchedStays
  /\ (screen = "options") =>
       /\ Options!TypeOK /\ Options!HeaderBelongsToTheScreen
       /\ Options!SpinnerEnds /\ Options!SettledScreenIsTheServers
  /\ (screen = "provider") =>
       /\ Provider!TypeOK /\ Provider!KeysAreTheirs /\ Provider!HeaderFollowsTheMode
       /\ Provider!SettledIsTheServers /\ Provider!AsksForTheDocument

(* What a save stores is what its author saw, and takes back nothing that somebody      *)
(* else stored meanwhile; nothing is replaced without asking, and no query or its name     *)
(* is forgotten (NothingForgotten).  The index that an edited one replaces is the one that  *)
(* was clicked (EditReplaces).  A switch of the policy changes its own sources and no others, *)
(* and switched off again leaves the policy it found (OnlyItsOwn, OffUndoesOn).  A credential  *)
(* that is applied was typed since its dialog opened (OnlyWhatWasTyped).  An update of access  *)
(* lists has all that was typed, and a database is created with the lists it was asked for    *)
(* (NothingTypedIsLeft, CreatedAsAsked).                                                      *)
SavesAreHonest ==
  [][ /\ (screen = "views") => Views!SaveReplacesWhatWasLoadedStep
      /\ (screen = "document") =>
           Document!SaveTakesNothingBackStep /\ Document!NothingReplacedUnaskedStep
      /\ (screen = "replication") => Replication!SaveIsWhatWasShownStep
      /\ (screen = "history") => History!NothingForgottenStep
      /\ (screen = "indexes") => Indexes!EditReplacesStep
      /\ (screen = "policy") => Policy!OnlyItsOwnStep /\ Policy!OffUndoesOnStep
      /\ (screen = "endpoint") => Endpoint!OnlyWhatWasTypedStep
      /\ (screen = "access") => Form!NothingTypedIsLeftStep /\ Form!CreatedAsAskedStep ]_allVars

(* replication-service.ts (resolveEndpoint): no save stores the mask of a URL for its      *)
(* credential, and none moves a credential stored in a URL to the URL of another server,   *)
(* whatever was edited on either side meanwhile.                                           *)
UrlCredentialsStayHome == (screen = "replication") => Replication!UrlCredentialsStayHome

(* index-list.ts: an edited index is created anew, and the old one deleted. *)
EditKeepsTheNewIndex == [][(screen = "indexes") => Indexes!EditKeepsTheNewIndexStep]_allVars
===============================================================================
