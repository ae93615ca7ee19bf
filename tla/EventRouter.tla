---------------------------- MODULE EventRouter ----------------------------
(***************************************************************************)
(* CustomEventRouter (src/src/customEventRouter.ts) in the tabs of one     *)
(* browser, and the transport that relays its events between them          *)
(* (src/src/transports/, set up by src/src/components/                     *)
(* cca-router-provider.ts).                                                *)
(*                                                                         *)
(* A publish runs the callbacks of the tab to their end before it is       *)
(* forwarded, and a callback may publish in turn, or unsubscribe.          *)
(***************************************************************************)
EXTENDS Naturals, FiniteSets, Sequences, SequencesExt

CONSTANTS
  Tabs, Subs, Events, None,
  Reaction,    \* [Tabs -> [Events -> Events \cup {None}]]: what a reacting
               \* callback of that tab publishes when it hears an event
  MaxWire,     \* bound: messages under way to a tab
  MaxSubscriptions  \* bound: subscriptions at a time, over all tabs

VARIABLES
  callback,    \* _subscriptions: tab -> subscriber -> event -> its callback
  registry,    \* _eventRegistry: tab -> event -> subscribers
  windowListeners,  \* tab -> the events a window listener is installed for
  connected,   \* the tabs whose provider has a transport
  wire         \* messages under way to each tab, with the number of tabs
               \* they have crossed (a ghost)

vars == <<callback, registry, windowListeners, connected, wire>>

\* No subscription; one whose callback does nothing more; one that publishes
\* Reaction; one that unsubscribes its subscriber from everything.
Callbacks == {"none", "plain", "reacts", "leaves"}
Message == [event : Events, hop : Nat]

TypeOK ==
  /\ callback \in [Tabs -> [Subs -> [Events -> Callbacks]]]
  /\ registry \in [Tabs -> [Events -> SUBSET Subs]]
  /\ windowListeners \in [Tabs -> SUBSET Events]
  /\ connected \subseteq Tabs
  /\ wire \in [Tabs -> Seq(Message)]

Init ==
  /\ callback = [t \in Tabs |-> [s \in Subs |-> [e \in Events |-> "none"]]]
  /\ registry = [t \in Tabs |-> [e \in Events |-> {}]]
  /\ windowListeners = [t \in Tabs |-> {}]
  /\ connected = {} /\ wire = [t \in Tabs |-> <<>>]

-----------------------------------------------------------------------------
(* The three tables of one tab, as [cb, reg, win].                         *)

Tables(t) == [cb |-> callback[t], reg |-> registry[t], win |-> windowListeners[t]]

\* The window listener goes with the last subscriber.
Emptied(left, win, e) == IF left = {} THEN win \ {e} ELSE win

\* unsubscribeEvent.
Without(tb, s, e) ==
  IF tb.cb[s][e] = "none" THEN tb
  ELSE [cb  |-> [tb.cb EXCEPT ![s][e] = "none"],
        reg |-> [tb.reg EXCEPT ![e] = @ \ {s}],
        win |-> Emptied(tb.reg[e] \ {s}, tb.win, e)]

\* unsubscribe: from every event.
Gone(tb, s) == FoldLeft(LAMBDA acc, e : Without(acc, s, e), tb, SetToSeq(Events))

\* subscribe: an older subscription to the event is taken out first.
With(tb, s, e, c) ==
  LET old == Without(tb, s, e)
  IN  [cb  |-> [old.cb EXCEPT ![s][e] = c],
       reg |-> [old.reg EXCEPT ![e] = @ \cup {s}],
       win |-> old.win \cup {e}]

Store(t, tb) ==
  /\ callback' = [callback EXCEPT ![t] = tb.cb]
  /\ registry' = [registry EXCEPT ![t] = tb.reg]
  /\ windowListeners' = [windowListeners EXCEPT ![t] = tb.win]

\* Who hears an event: the subscribers in the registry, through the window
\* listener.
Hearers(tb, e) == IF e \in tb.win THEN {s \in tb.reg[e] : tb.cb[s][e] # "none"} ELSE {}

\* The tables after a dispatch, and what its callbacks publish meanwhile.
Left(tb, e) == LET go == {s \in Hearers(tb, e) : tb.cb[s][e] = "leaves"}
               IN  FoldLeft(Gone, tb, SetToSeq(go))
Nested(t, e) ==
  LET n == Cardinality({s \in Hearers(Tables(t), e) : callback[t][s][e] = "reacts"})
  IN  IF Reaction[t][e] = None THEN <<>> ELSE [i \in 1 .. n |-> Reaction[t][e]]

Dispatched(t, e) ==
  LET first == Left(Tables(t), e)
  IN  IF Nested(t, e) = <<>> THEN first ELSE Left(first, Reaction[t][e])

-----------------------------------------------------------------------------
(* Transports.                                                             *)

\* _receivingFromTransport: what callbacks publish while an event from a
\* transport is dispatched stays in this tab.
Relays(receiving) == ~receiving

\* Forward events, in order, to every other connected tab.
Forward(t, es, hop, w) ==
  IF t \notin connected THEN w
  ELSE [u \in Tabs |->
          IF u = t \/ u \notin connected THEN w[u]
          ELSE w[u] \o [i \in DOMAIN es |-> [event |-> es[i], hop |-> hop]]]

Bounded == \A t \in Tabs : Len(wire'[t]) <= MaxWire

\* publish(e), with or without { local: true }.  What the callbacks publish
\* is forwarded before e itself.
Publish(t, e, local) ==
  /\ Store(t, Dispatched(t, e))
  /\ wire' = Forward(t, IF local THEN Nested(t, e) ELSE Append(Nested(t, e), e), 0, wire)
  /\ Bounded /\ UNCHANGED connected

\* A message arrives: published locally, under the flag.
Receive(t) ==
  /\ t \in connected /\ wire[t] # <<>>
  /\ LET m == Head(wire[t])
     IN  /\ Store(t, Dispatched(t, m.event))
         /\ wire' = Forward(t, IF Relays(TRUE) THEN Nested(t, m.event) ELSE <<>>,
                            m.hop + 1, [wire EXCEPT ![t] = Tail(@)])
  /\ Bounded /\ UNCHANGED connected

Subscriptions == {x \in Tabs \X Subs \X Events : callback[x[1]][x[2]][x[3]] # "none"}

Subscribe(t, s, e) == \E c \in Callbacks \ {"none"} :
  /\ callback[t][s][e] # "none" \/ Cardinality(Subscriptions) < MaxSubscriptions
  /\ Store(t, With(Tables(t), s, e, c)) /\ UNCHANGED <<connected, wire>>

Unsubscribe(t, s) == Store(t, Gone(Tables(t), s)) /\ UNCHANGED <<connected, wire>>

UnsubscribeEvent(t, s, e) ==
  Store(t, Without(Tables(t), s, e)) /\ UNCHANGED <<connected, wire>>

\* The provider is attached (or its attribute set), and detached: a closed
\* channel loses what was under way.
Connect(t) ==
  /\ t \notin connected /\ connected' = connected \cup {t}
  /\ UNCHANGED <<callback, registry, windowListeners, wire>>

Disconnect(t) ==
  /\ t \in connected /\ connected' = connected \ {t}
  /\ wire' = [wire EXCEPT ![t] = <<>>]
  /\ UNCHANGED <<callback, registry, windowListeners>>

Next == \E t \in Tabs :
  \/ Receive(t) \/ Connect(t) \/ Disconnect(t)
  \/ \E e \in Events, local \in BOOLEAN : Publish(t, e, local)
  \/ \E s \in Subs : Unsubscribe(t, s)
  \/ \E s \in Subs, e \in Events : Subscribe(t, s, e) \/ UnsubscribeEvent(t, s, e)

Spec == Init /\ [][Next]_vars

-----------------------------------------------------------------------------
\* The three tables of a tab tell one story after any order of subscribing,
\* subscribing again, and leaving, inside a callback too: a subscriber with a
\* callback is in the registry, and an event has its window listener exactly
\* while somebody is subscribed to it.
TablesAgree == \A t \in Tabs, e \in Events :
  /\ registry[t][e] = {s \in Subs : callback[t][s][e] # "none"}
  /\ (e \in windowListeners[t]) = (registry[t][e] # {})

\* No event goes round: what is on the wire was published in a tab, never in
\* answer to something that arrived over the wire, even when two tabs react
\* to each other's events.
NoEcho == \A t \in Tabs : \A i \in DOMAIN wire[t] : wire[t][i].hop = 0
=============================================================================
