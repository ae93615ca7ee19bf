------------------------------ MODULE MCServices ------------------------------
(* The services behind the screens, one instance of each, checked in one run.      *)
(* `part` is the one at work; they do not touch each other's state.                *)
EXTENDS CompanionStore, GitAccounts, Navigation, TLC

CONSTANTS
  AtWork,       \* the parts this run sets to work
  a, b, x, y, p, s1, s2, c1, c2, c3, d1, d2, j1, j2, j3

VARIABLES
  part,
  po_up, po_hidden, po_listeners, po_shown, po_last, po_timer, po_versioned, po_checks,
  vr_docs, vr_reduce, vr_worker, vr_timer, vr_pc, vr_answers, vr_result,
  ev_callback, ev_registry, ev_windowListeners, ev_connected, ev_wire

dotsVars ==
  <<po_up, po_hidden, po_listeners, po_shown, po_last, po_timer, po_versioned, po_checks>>
runnerVars ==
  <<vr_docs, vr_reduce, vr_worker, vr_timer, vr_pc, vr_answers, vr_result>>
eventsVars ==
  <<ev_callback, ev_registry, ev_windowListeners, ev_connected, ev_wire>>

MCReaction == (a :> (x :> y @@ y :> None)) @@ (b :> (x :> None @@ y :> x))
MCJobTab == (j1 :> a) @@ (j2 :> b) @@ (j3 :> a)
MCTabOf == (c1 :> a) @@ (c2 :> a) @@ (c3 :> b)
MCOpsOf ==
  (c1 :> {<<"put", {d1}>>})
  @@ (c2 :> {<<"list", {d1, d2}>>})
  @@ (c3 :> {<<"put", {d1}>>, <<"removeAll", {d1, d2}>>, <<"remove", {d1}>>, <<"get", {d1}>>})

Dots == INSTANCE Poller WITH
  Dots <- {x, y}, Slots <- {1, 2}, up <- po_up, hidden <- po_hidden,
  listeners <- po_listeners, shown <- po_shown, last <- po_last, timer <- po_timer,
  versioned <- po_versioned, checks <- po_checks
Runner == INSTANCE ViewRunner WITH
  Keys <- {1, 2}, Values <- {3}, Text <- 0, MaxDocs <- 2, MaxEmits <- 2,
  FALLBACK_MAX_DOCS <- 1, docs <- vr_docs, reduce <- vr_reduce, worker <- vr_worker,
  timer <- vr_timer, pc <- vr_pc, answers <- vr_answers, result <- vr_result
Router == INSTANCE EventRouter WITH
  Tabs <- {a, b}, Subs <- {s1, s2}, Events <- {x, y}, Reaction <- MCReaction,
  MaxWire <- 1, MaxSubscriptions <- 2, callback <- ev_callback, registry <- ev_registry,
  windowListeners <- ev_windowListeners, connected <- ev_connected, wire <- ev_wire

(* A component that is not at work: one of its initial states. *)
DotsClosed ==
  /\ po_up = TRUE
  /\ po_hidden = FALSE
  /\ Dots!Init
RunnerClosed ==
  /\ vr_docs = <<>>
  /\ vr_reduce = ""
  /\ Runner!Init
StoreClosed ==
  /\ db = FALSE
  /\ docs = Nothing
  /\ StoreInit
NavigationClosed ==
  /\ entries = <<p>>
  /\ NavInit

ServicesInit ==
  /\ part \in AtWork
  /\ IF part = "dots" THEN Dots!Init ELSE DotsClosed
  /\ IF part = "runner" THEN Runner!Init ELSE RunnerClosed
  /\ Router!Init
  /\ IF part = "store" THEN StoreInit ELSE StoreClosed
  /\ AccountInit
  /\ IF part = "navigation" THEN NavInit ELSE NavigationClosed

ServicesNext ==
  /\ UNCHANGED part
  /\ \/ /\ part = "dots" /\ Dots!Next
        /\ UNCHANGED <<runnerVars, eventsVars, storeVars, accountVars, navVars>>
     \/ /\ part = "runner" /\ Runner!Next
        /\ UNCHANGED <<dotsVars, eventsVars, storeVars, accountVars, navVars>>
     \/ /\ part = "events" /\ Router!Next
        /\ UNCHANGED <<dotsVars, runnerVars, storeVars, accountVars, navVars>>
     \/ /\ part = "store" /\ StoreNext
        /\ UNCHANGED <<dotsVars, runnerVars, eventsVars, accountVars, navVars>>
     \/ /\ part = "accounts" /\ AccountNext
        /\ UNCHANGED <<dotsVars, runnerVars, eventsVars, storeVars, navVars>>
     \/ /\ part = "navigation" /\ NavNext
        /\ UNCHANGED <<dotsVars, runnerVars, eventsVars, storeVars, accountVars>>

allVars == <<part, dotsVars, runnerVars, eventsVars, storeVars, accountVars, navVars>>
ServicesSpec == ServicesInit /\ [][ServicesNext]_allVars /\ Dots!Fairness /\ Runner!Fairness

-------------------------------------------------------------------------------
(* Each service: its variables keep their shape, and it keeps its invariants            *)
(* (FirstWriteNever404s, OneHome, DepthIsHonest, ShownIsTheAddress, DotsAgree,            *)
(* PolledWhileWatched, AnsweredOnce, AnswerIsTheView, TablesAgree, NoEcho).               *)
ServicesAreTrue ==
  /\ (part = "store") => StoreTypeOK /\ FirstWriteNever404s
  /\ (part = "accounts") => AccountTypeOK /\ OneHome
  /\ (part = "navigation") => NavTypeOK /\ DepthIsHonest /\ ShownIsTheAddress
  /\ (part = "dots") => Dots!TypeOK /\ Dots!DotsAgree /\ Dots!PolledWhileWatched
  /\ (part = "runner") => Runner!TypeOK /\ Runner!AnsweredOnce /\ Runner!AnswerIsTheView
  /\ (part = "events") => Router!TypeOK /\ Router!TablesAgree /\ Router!NoEcho

(* A status dot ends up showing the truth, and a view run that was started ends. *)
EverythingArrives == Dots!TruthArrives /\ Runner!RunSettles
===============================================================================
