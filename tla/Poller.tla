------------------------------- MODULE Poller -------------------------------
(***************************************************************************)
(* Reachability polling of one server: ReachabilityStatusService, its      *)
(* Session, and the status dots that subscribe to it                       *)
(* (src/src/services/reachability-status-service.ts and                    *)
(* src/src/components/cca-real-time-status.ts).                            *)
(*                                                                         *)
(* A session lives as long as somebody subscribes.  It asks GET /_up when  *)
(* it starts, every 15 s while its interval runs, and when the tab becomes *)
(* visible again; until it knows the version it also asks GET /.  Checks   *)
(* may overlap: nothing waits for the previous one.                        *)
(***************************************************************************)
EXTENDS Naturals, FiniteSets

CONSTANTS
  Dots,        \* the cca-real-time-status elements bound to this server
  Slots        \* bound: checks in flight at a time

VARIABLES
  up,          \* GET /_up would be answered "ok" now
  hidden,      \* document.hidden
  listeners,   \* Session.listeners: the dots on screen
  shown,       \* what each dot shows: its _status
  last,        \* Session.last
  timer,       \* "none", "running", or "dead": cleared but still held
  versioned,   \* Session.version is known
  checks       \* the checks in flight: slot -> where it stands

vars == <<up, hidden, listeners, shown, last, timer, versioned, checks>>

Statuses == {"unknown", "up", "down"}
Free     == "free"
\* "_up" and "/" wait for an answer; "up" and "down" have it and will
\* publish; the dropped ones belong to a session that was destroyed.
Phases == {Free, "asks _up", "asks /", "up", "down", "dropped"}

TypeOK ==
  /\ up \in BOOLEAN /\ hidden \in BOOLEAN /\ versioned \in BOOLEAN
  /\ listeners \subseteq Dots
  /\ shown \in [Dots -> Statuses]
  /\ last \in Statuses
  /\ timer \in {"none", "running", "dead"}
  /\ checks \in [Slots -> Phases]

Init ==
  /\ up \in BOOLEAN /\ hidden \in BOOLEAN
  /\ listeners = {} /\ shown = [d \in Dots |-> "unknown"]
  /\ last = "unknown" /\ timer = "none" /\ versioned = FALSE
  /\ checks = [s \in Slots |-> Free]

-----------------------------------------------------------------------------
(* Session.                                                                *)

\* startTimer returns early while it holds a timer, whatever became of it.
StartTimer(t) == IF t = "none" THEN "running" ELSE t

\* Mutant: the interval is cleared and the handle kept.
StopTimer_Held(t) == IF t = "running" THEN "dead" ELSE t

StopTimer(t) == "none"

\* void this.check(): a check enters a free slot.
Check == \E s \in Slots :
  /\ checks[s] = Free
  /\ checks' = [checks EXCEPT ![s] = "asks _up"]

Tick ==
  /\ timer = "running" /\ Check
  /\ UNCHANGED <<up, hidden, listeners, shown, last, timer, versioned>>

\* The first request is answered, as the server is at that moment: a server
\* that is up is asked its version as well, once.
AnswerUp(s) ==
  /\ checks[s] = "asks _up"
  /\ checks' = [checks EXCEPT ![s] =
                  IF ~up THEN "down" ELSE IF versioned THEN "up" ELSE "asks /"]
  /\ UNCHANGED <<up, hidden, listeners, shown, last, timer, versioned>>

\* ... the second one too: a failure leaves the version unknown, and the
\* next check asks again.
AnswerWelcome(s) ==
  /\ checks[s] = "asks /"
  /\ checks' = [checks EXCEPT ![s] = "up"]
  /\ versioned' = up
  /\ UNCHANGED <<up, hidden, listeners, shown, last, timer>>

\* The end of check(): every listener hears it.
Publish(s) ==
  /\ checks[s] \in {"up", "down"}
  /\ last' = checks[s]
  /\ shown' = [d \in Dots |-> IF d \in listeners THEN checks[s] ELSE shown[d]]
  /\ checks' = [checks EXCEPT ![s] = Free]
  /\ UNCHANGED <<up, hidden, listeners, timer, versioned>>

\* ... unless its session was destroyed meanwhile.
Dropped(s) ==
  /\ checks[s] = "dropped"
  /\ checks' = [checks EXCEPT ![s] = Free]
  /\ UNCHANGED <<up, hidden, listeners, shown, last, timer, versioned>>

-----------------------------------------------------------------------------
(* ReachabilityStatusService.subscribe, called by a dot that is mounted.   *)

\* Mutant: a late subscriber waits for the next check.
Replay_None(d) == shown[d]

\* What a subscriber is told at once: Session.add replays the last status.
Replay(d) == IF last = "unknown" THEN shown[d] ELSE last

\* The first subscriber starts the session: a check and the interval,
\* whether or not the tab is visible.
MountFirst(d) ==
  /\ listeners = {}
  /\ listeners' = {d}
  /\ Check /\ timer' = StartTimer(timer)
  /\ UNCHANGED <<up, hidden, shown, last, versioned>>

MountLater(d) ==
  /\ listeners # {} /\ d \notin listeners
  /\ listeners' = listeners \cup {d}
  /\ shown' = [shown EXCEPT ![d] = Replay(d)]
  /\ UNCHANGED <<up, hidden, last, timer, versioned, checks>>

\* The unsubscribe closure: the last one out destroys the session, and its
\* checks in flight with it.
Unmount(d) ==
  /\ d \in listeners
  /\ listeners' = listeners \ {d}
  /\ IF listeners = {d}
     THEN /\ timer' = StopTimer(timer)
          /\ last' = "unknown" /\ versioned' = FALSE
          /\ checks' = [s \in Slots |->
                          IF checks[s] = Free THEN Free ELSE "dropped"]
     ELSE UNCHANGED <<timer, last, versioned, checks>>
  /\ UNCHANGED <<up, hidden, shown>>

\* visibilitychange: pause, or resume with a check at once.
Hide ==
  /\ ~hidden /\ hidden' = TRUE
  /\ timer' = IF listeners = {} THEN timer ELSE StopTimer(timer)
  /\ UNCHANGED <<up, listeners, shown, last, versioned, checks>>

Show ==
  /\ hidden /\ hidden' = FALSE
  /\ IF listeners = {} THEN UNCHANGED <<timer, checks>>
     ELSE Check /\ timer' = StartTimer(timer)
  /\ UNCHANGED <<up, listeners, shown, last, versioned>>

\* The server, or the network before it, goes down and comes back.
Turn ==
  /\ up' = ~up
  /\ UNCHANGED <<hidden, listeners, shown, last, timer, versioned, checks>>

-----------------------------------------------------------------------------
Answer(s) == AnswerUp(s) \/ AnswerWelcome(s) \/ Publish(s) \/ Dropped(s)

Next ==
  \/ Tick \/ Hide \/ Show \/ Turn
  \/ \E s \in Slots : Answer(s)
  \/ \E d \in Dots : MountFirst(d) \/ MountLater(d) \/ Unmount(d)

\* A running interval fires again and again, and every request is answered
\* or fails; nobody has to come, to leave, or to look.
Fairness == WF_vars(Tick) /\ \A s \in Slots : WF_vars(Answer(s))

Spec == Init /\ [][Next]_vars /\ Fairness

-----------------------------------------------------------------------------
\* Two dots of one server never disagree, whenever they were mounted: once a
\* session knows a status, all of its subscribers show that one.
DotsAgree == last # "unknown" => \A d \in listeners : shown[d] = last

\* A page somebody looks at is being polled: no order of mounting, hiding
\* and showing leaves a subscriber without an interval, and an interval never
\* outlives its last subscriber.
PolledWhileWatched ==
  /\ listeners # {} /\ ~hidden => timer = "running"
  /\ listeners = {} => timer = "none"

\* A dot that stays on a visible page ends up showing what the server is,
\* once the server stays as it is, whatever answers were under way.
TruthArrives == \A d \in Dots, b \in BOOLEAN :
  <>[](d \in listeners /\ ~hidden /\ up = b)
    => <>[](shown[d] = IF b THEN "up" ELSE "down")

=============================================================================
