------------------------------- MODULE MCLists -------------------------------
(* The list screens of the app, checked in one run.  A tab shows one screen at a time, *)
(* and a screen that is left is unmounted: `screen` is the one that is open, and the      *)
(* screens share the variables, each one giving those it has its own names.                *)
EXTENDS Naturals, TLC

CONSTANTS
  Opened,         \* the screens this run opens
  a, b, r, r2, x, y, None, MaxLoads, MaxTrouble

VARIABLES
  screen,
  s1, s2, s3, s4, s5, s6, s7, s8, s9, s10, s11, s12, s13, s14, s15, s16, s17, s18, s19,
  s20, s21, s22, s23, s24, s25, s26

slots == <<s1, s2, s3, s4, s5, s6, s7, s8, s9, s10, s11, s12, s13, s14, s15, s16, s17,
            s18, s19, s20, s21, s22, s23, s24, s25, s26>>

Provider(i, c, o, e) == [issuer |-> i, complete |-> c, only |-> o, endpoints |-> e]
Deployment(n, c, j, s, w) ==
  [native |-> n, config |-> c, jwt |-> j, spa |-> s, password |-> FALSE, banners |-> w]
MCDeployments == {
  Deployment(None, None, TRUE, TRUE, <<r2>>),
  Deployment(<<>>, <<Provider(1, TRUE, TRUE, "document"), Provider(1, TRUE, FALSE, "document")>>,
             TRUE, FALSE, <<0, 2, r2>>),
  Deployment(<<Provider(1, FALSE, FALSE, "document")>>, <<Provider(2, TRUE, TRUE, "nowhere")>>,
             FALSE, TRUE, <<2>>)}
MCStripped == (x :> x) @@ (y :> x) @@ (r :> r)
MCOwner == (r :> x) @@ (r2 :> y)
MCLinks == {(a :> r @@ b :> r), (a :> r @@ b :> None)}
MCMatchOf == (x :> 1..3) @@ (y :> {1})
MCConfigs ==
  {[m \in {a, b} |-> IF m \in S THEN x ELSE "absent"] : S \in {{}, {a}, {a, b}}}
Url(s, d) == [kind |-> "url", server |-> s, db |-> d]
Bare(d) == [kind |-> "bare", db |-> d]
Doc(s, t, c) == [source |-> s, target |-> t, continuous |-> c]
MCKeyOf == ("localhost" :> r) @@ ("127.0.0.1" :> r) @@ ("far" :> r2)
MCDocuments ==
  {Doc(Url("localhost", "d"), Url("far", "d"), TRUE), Doc(Url("far", "d"), Url("127.0.0.1", "d"), FALSE),
   Doc(Bare("d"), Url("far", "d"), FALSE), Doc(Bare("d"), Url("localhost", "d"), TRUE),
   Doc(Url("far", ""), Bare("e"), FALSE), Doc(Url("far", "d"), [kind |-> "junk"], TRUE),
   Doc([kind |-> "nothing"], Bare("d"), TRUE), Doc(Bare("d"), Url("far", "%"), TRUE)}

Overview == INSTANCE RepoOverview WITH
  Accounts <- {x, y}, Repos <- {r, r2}, Dbs <- {a}, Owner <- MCOwner, Matches <- {r2},
  AccountModes <- {"none", "couchdb"}, MaxRequests <- 1, accounts <- s1, modes <- s2,
  targets <- s3, filter <- s4, timer <- s5, loads <- s6, latest <- s7, loading <- s8,
  shownRepos <- s9, rows <- s10, rowModes <- s11, shownFor <- s12, dialog <- s13,
  drawer <- s14, requests <- s15
Browser == INSTANCE DocBrowser WITH
  MaxId <- 3, WithField <- {1, 3}, Sizes <- {1, 2}, Skips <- {0, 1}, MaxFlying <- 1,
  db <- s1, indexed <- s2, sort <- s3, size <- s4, skip <- s5, page <- s6, tokens <- s7,
  docs <- s8, more <- s9, failed <- s10, busy <- s11, goodSort <- s12, selected <- s13,
  confirming <- s14, offer <- s15, flying <- s16, deleting <- s17, crossed <- s18,
  changed <- s19
Databases == INSTANCE DbList WITH
  Found <- {a}, Dbs <- {a, b}, MaxOthers <- 1, existing <- s1, secured <- s2,
  listable <- s3, search <- s4, order <- s5, timer <- s6, loads <- s7, latest <- s8,
  loading <- s9, shown <- s10, shownFor <- s11, denied <- s12, drawer <- s13,
  deleting <- s14, probe <- s15, left <- s16, opened <- s17, create <- s18,
  others <- s19, moved <- s20
Designs == INSTANCE DesignList WITH
  Docs <- {x, y}, Dbs <- {a, b}, Repos <- {r}, Found <- {x}, Writable <- {a},
  Links <- MCLinks, MaxOps <- 1, couch <- s1, files <- s2, rec <- s3, linked <- s4,
  token <- s5, admin <- s6, sel <- s7, repoId <- s8, couchList <- s9, gitList <- s10,
  rows <- s11, filter <- s12, picked <- s13, rights <- s14, canWrite <- s15,
  loads <- s16, latest <- s17, busy <- s18, dialog <- s19, op <- s20, ops <- s21,
  prompt <- s22, trouble <- s23, crossed <- s24, halved <- s25, shifted <- s26
Query == INSTANCE DocQuery WITH
  MaxId <- 3, Selectors <- {x, y}, MatchOf <- MCMatchOf, Sizes <- {1, 2},
  Skips <- {0, 1}, MaxFlying <- 1, MaxTyped <- 1, sel <- s1, order <- s2, size <- s3,
  skip <- s4, page <- s5, marks <- s6, results <- s7, more <- s8, ran <- s9, busy <- s10,
  indexed <- s11, offer <- s12, flying <- s13, typed <- s14, of <- s15, crossed <- s16
Compare == INSTANCE ConfigCompare WITH
  Nodes <- {a, b}, Values <- {x, y}, Initial <- MCConfigs, Absent <- "absent",
  Failed <- "failed", MIN_NODES <- 2, MAX_NODES <- 2, MaxLoads <- 1, MaxWrites <- 1,
  MaxOthers <- 1, config <- s1, up <- s2, nodes <- s3, columns <- s4, configs <- s5,
  table <- s6, checked <- s7, edit <- s8, copy <- s9, loads <- s10, writes <- s11,
  written <- s12, others <- s13, settled <- s14
People == INSTANCE Users WITH
  MaxId <- 2, Roles <- {r}, Passwords <- {x}, Mask <- "mask", USERS_PAGE_LIMIT <- 1,
  MaxRevs <- 2, MaxEdits <- 1, MaxOthers <- 1, users <- s1, screen <- s2, listed <- s3,
  scan <- s4, asked <- s5, deletion <- s6, form <- s7, raw <- s8, put <- s9,
  edits <- s10, others <- s11, steady <- s12
Conflicts == INSTANCE ConflictViewer WITH
  Docs <- {x, y}, MaxRev <- 2, MaxOthers <- 2, couch <- s1, kept <- s2, file <- s3,
  records <- s4, conflicts <- s5, loading <- s6, loadError <- s7, resolving <- s8,
  expandedId <- s9, versions <- s10, trouble <- s11, others <- s12, touched <- s13
Replications == INSTANCE ReplicationList WITH
  Ids <- {x, y}, Filters <- {a}, MatchOf <- (a :> {x}), States <- {r}, MaxOthers <- 1,
  stored <- s1, jobs <- s2, filterValue <- s3, debounce <- s4, replications <- s5,
  loading <- s6, loadSeq <- s7, loads <- s8, _confirmDelete <- s9, deletion <- s10,
  others <- s11, trouble <- s12, answered <- s13, moved <- s14
Graph == INSTANCE Topology WITH
  MaxDoc <- 3, Documents <- MCDocuments, KeyOf <- MCKeyOf, Local <- r, replicator <- s1,
  loading <- s2, data <- s3, failed <- s4, trouble <- s5
Home == INSTANCE ServerDashboard WITH
  Answers <- {{}, {x}}, Down <- r2, MaxRequests <- 3, MaxChanges <- 1, page <- s1,
  server <- s2, cache <- s3, inFlight <- s4, fetches <- s5, tile <- s6, serverId <- s7,
  loads <- s8, tasks <- s9, _loading <- s10, _error <- s11, _loadedFor <- s12,
  _selectedType <- s13, requests <- s14, changes <- s15
Page == INSTANCE Entrance WITH
  Deployments <- MCDeployments, Urls <- {x, y, r}, Stripped <- MCStripped,
  Invalid <- {r}, Plugins <- {a}, Forever <- r2, MAX_ENTRIES <- 2, TIMER_MAX <- 5,
  MaxTime <- 2, MaxRequests <- 1, world <- s1, boot <- s2, discovery <- s3, screen <- s4,
  form <- s5, requests <- s6, servers <- s7, session <- s8, shell <- s9, loader <- s10,
  everywhere <- s11, now <- s12

ListsInit ==
  /\ screen \in Opened
  /\ \/ /\ screen = "overview" /\ Overview!Init
        /\ s16 = None /\ s17 = None /\ s18 = None /\ s19 = None /\ s20 = None /\ s21 = None
        /\ s22 = None /\ s23 = None /\ s24 = None /\ s25 = None /\ s26 = None
     \/ /\ screen = "browser" /\ Browser!Init
        /\ s20 = None /\ s21 = None /\ s22 = None /\ s23 = None /\ s24 = None /\ s25 = None
        /\ s26 = None
     \/ /\ screen = "databases" /\ Databases!Init
        /\ s21 = None /\ s22 = None /\ s23 = None /\ s24 = None /\ s25 = None /\ s26 = None
     \/ /\ screen = "designs" /\ Designs!Init
     \/ /\ screen = "query" /\ Query!Init
        /\ s17 = None /\ s18 = None /\ s19 = None /\ s20 = None /\ s21 = None /\ s22 = None
        /\ s23 = None /\ s24 = None /\ s25 = None /\ s26 = None
     \/ /\ screen = "compare" /\ Compare!Init
        /\ s15 = None /\ s16 = None /\ s17 = None /\ s18 = None /\ s19 = None /\ s20 = None
        /\ s21 = None /\ s22 = None /\ s23 = None /\ s24 = None /\ s25 = None /\ s26 = None
     \/ /\ screen = "users" /\ People!Init
        /\ s13 = None /\ s14 = None /\ s15 = None /\ s16 = None /\ s17 = None /\ s18 = None
        /\ s19 = None /\ s20 = None /\ s21 = None /\ s22 = None /\ s23 = None /\ s24 = None
        /\ s25 = None /\ s26 = None
     \/ /\ screen = "conflicts" /\ Conflicts!Init
        /\ s14 = None /\ s15 = None /\ s16 = None /\ s17 = None /\ s18 = None /\ s19 = None
        /\ s20 = None /\ s21 = None /\ s22 = None /\ s23 = None /\ s24 = None /\ s25 = None
        /\ s26 = None
     \/ /\ screen = "replications" /\ Replications!Init
        /\ s15 = None /\ s16 = None /\ s17 = None /\ s18 = None /\ s19 = None /\ s20 = None
        /\ s21 = None /\ s22 = None /\ s23 = None /\ s24 = None /\ s25 = None /\ s26 = None
     \/ /\ screen = "topology" /\ Graph!Init
        /\ s6 = None /\ s7 = None /\ s8 = None /\ s9 = None /\ s10 = None /\ s11 = None
        /\ s12 = None /\ s13 = None /\ s14 = None /\ s15 = None /\ s16 = None /\ s17 = None
        /\ s18 = None /\ s19 = None /\ s20 = None /\ s21 = None /\ s22 = None /\ s23 = None
        /\ s24 = None /\ s25 = None /\ s26 = None
     \/ /\ screen = "home" /\ Home!Init
        /\ s16 = None /\ s17 = None /\ s18 = None /\ s19 = None /\ s20 = None /\ s21 = None
        /\ s22 = None /\ s23 = None /\ s24 = None /\ s25 = None /\ s26 = None
     \/ /\ screen = "entrance" /\ Page!Init
        /\ s13 = None /\ s14 = None /\ s15 = None /\ s16 = None /\ s17 = None /\ s18 = None
        /\ s19 = None /\ s20 = None /\ s21 = None /\ s22 = None /\ s23 = None /\ s24 = None
        /\ s25 = None /\ s26 = None

ListsNext ==
  /\ UNCHANGED screen
  /\ \/ /\ screen = "overview" /\ Overview!Next
        /\ UNCHANGED <<s16, s17, s18, s19, s20, s21, s22, s23, s24, s25, s26>>
     \/ /\ screen = "browser" /\ Browser!Next
        /\ UNCHANGED <<s20, s21, s22, s23, s24, s25, s26>>
     \/ /\ screen = "databases" /\ Databases!Next
        /\ UNCHANGED <<s21, s22, s23, s24, s25, s26>>
     \/ /\ screen = "designs" /\ Designs!Next
     \/ /\ screen = "query" /\ Query!Next
        /\ UNCHANGED <<s17, s18, s19, s20, s21, s22, s23, s24, s25, s26>>
     \/ /\ screen = "compare" /\ Compare!Next
        /\ UNCHANGED <<s15, s16, s17, s18, s19, s20, s21, s22, s23, s24, s25, s26>>
     \/ /\ screen = "users" /\ People!Next
        /\ UNCHANGED <<s13, s14, s15, s16, s17, s18, s19, s20, s21, s22, s23, s24, s25,
                       s26>>
     \/ /\ screen = "conflicts" /\ Conflicts!Next
        /\ UNCHANGED <<s14, s15, s16, s17, s18, s19, s20, s21, s22, s23, s24, s25, s26>>
     \/ /\ screen = "replications" /\ Replications!Next
        /\ UNCHANGED <<s15, s16, s17, s18, s19, s20, s21, s22, s23, s24, s25, s26>>
     \/ /\ screen = "topology" /\ Graph!Next
        /\ UNCHANGED <<s6, s7, s8, s9, s10, s11, s12, s13, s14, s15, s16, s17, s18, s19,
                       s20, s21, s22, s23, s24, s25, s26>>
     \/ /\ screen = "home" /\ Home!Next
        /\ UNCHANGED <<s16, s17, s18, s19, s20, s21, s22, s23, s24, s25, s26>>
     \/ /\ screen = "entrance" /\ Page!Next
        /\ UNCHANGED <<s13, s14, s15, s16, s17, s18, s19, s20, s21, s22, s23, s24, s25,
                       s26>>

allVars == <<screen, slots>>
ListsSpec == ListsInit /\ [][ListsNext]_allVars

-------------------------------------------------------------------------------
(* Each list screen: its variables keep their shape, and what it lists is true - the   *)
(* search's own answer, the server's databases, the selected database's documents, the   *)
(* page's own slice of the documents or of the query's answer, the nodes' own options,   *)
(* every user once, the records of conflicts, the replications and how they connect        *)
(* servers, tiles that are answered - however loads, searches, switches and page turns overlapped *)
(* (SettledListMatchesFilter, SettledListIsTheServers, ScreenIsTheSelection,                 *)
(* PageIsItsSlice, RowsAreTheRange, NoPretendedAgreement, EveryUserOnce,                    *)
(* CardsAreTheRecords, SettledListIsTheSearch, EveryReplicationOnce, DatabasesAreTheirs,    *)
(* WaitingIsAnswered, TasksAreShown).  The page itself offers what is published, once, waits  *)
(* only for what is under way, remembers servers once, registers plugins once, and takes its   *)
(* banner down in time (OffersWhatIsPublished to DialogOffersWhatCanEnd).                      *)
ListsAreTrue ==
  /\ (screen = "overview") => Overview!TypeOK /\ Overview!SettledListMatchesFilter
  /\ (screen = "databases") => Databases!TypeOK /\ Databases!SettledListIsTheServers
  /\ (screen = "designs") => Designs!TypeOK /\ Designs!ScreenIsTheSelection
  /\ (screen = "browser") => Browser!TypeOK /\ Browser!PageIsItsSlice
  /\ (screen = "query") => Query!TypeOK /\ Query!RowsAreTheRange
  /\ (screen = "compare") => Compare!TypeOK /\ Compare!NoPretendedAgreement
  /\ (screen = "users") => People!TypeOK /\ People!EveryUserOnce
  /\ (screen = "conflicts") => Conflicts!TypeOK /\ Conflicts!CardsAreTheRecords
  /\ (screen = "replications") => Replications!TypeOK /\ Replications!SettledListIsTheSearch
  /\ (screen = "topology") =>
       Graph!TypeOK /\ Graph!EveryReplicationOnce /\ Graph!DatabasesAreTheirs
  /\ (screen = "home") => Home!TypeOK /\ Home!WaitingIsAnswered /\ Home!TasksAreShown
  /\ (screen = "entrance") =>
       /\ Page!TypeOK /\ Page!OffersWhatIsPublished /\ Page!OneButtonEach
       /\ Page!LoadingIsWaiting /\ Page!ChosenIsOffered /\ Page!ServersOnce
       /\ Page!PluginsOnce /\ Page!BannerInTime /\ Page!DialogOffersWhatCanEnd

(* What a deletion takes from CouchDB or the repository was listed in its dialog. *)
DeletesWhatWasListed == [][(screen = "designs") => Designs!DeletesWhatWasListedStep]_allVars

(* A sync stays between a database and the repository it is linked to; what a save puts  *)
(* into a user's document was typed by its author (SecretsStay), an acknowledged conflict   *)
(* stays acknowledged while it lasts (AcknowledgementStays), and a row of the replication    *)
(* list shows its own document and job (RowsAreReplications); a banner stays to its end, and *)
(* how to log out is remembered from those who were asked (BannerStays, AnswerIsTheUsers).    *)
StepsAreTrue ==
  [][ /\ (screen = "designs") => Designs!SyncStaysHomeStep
      /\ (screen = "users") => People!SecretsStayStep
      /\ (screen = "conflicts") => Conflicts!AcknowledgementStaysStep
      /\ (screen = "replications") => Replications!RowsAreReplicationsStep
      /\ (screen = "entrance") => Page!BannerStaysStep /\ Page!AnswerIsTheUsersStep ]_allVars

(* design-list.ts: unlinking one database leaves the links of the others alone. *)
OtherDatabasesStayLinked == [][(screen = "designs") => Designs!OtherDatabasesStayLinkedStep]_allVars
===============================================================================
