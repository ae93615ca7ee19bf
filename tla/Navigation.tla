----------------------------- MODULE Navigation -----------------------------
(***************************************************************************)
(* The hash router (src/src/router.ts) over the browser's session history. *)
(*                                                                         *)
(* The browser does two things later than asked: history.back() traverses  *)
(* in a task of its own, and a change of the hash is announced by a        *)
(* hashchange event in another.  The router counts its own writes in       *)
(* pendingSelfNavigations to tell their events from the user's, and its    *)
(* steps in depth to know whether going back stays inside the app.         *)
(***************************************************************************)
EXTENDS Naturals, Sequences

CONSTANTS
  Paths,       \* the addresses with a screen
  Retired,     \* addresses that have none any more
  Target,      \* where the redirects send those (a member of Paths)
  Nowhere,
  MaxEntries,  \* bound: history entries of the app
  MaxEvents    \* bound: hashchange events, and traversals, under way

ASSUME NavAssumption ==
  /\ Target \in Paths /\ Paths \cap Retired = {}
  /\ Nowhere \notin Paths /\ MaxEntries \in Nat \ {0} /\ MaxEvents \in Nat

VARIABLES
  entries,     \* the app's history entries; before them is another site
  idx,         \* the current entry; 0 once the app was left
  going,       \* traversals asked for by history.back()
  events,      \* hashchange events not delivered yet
  depth,       \* Router.depth
  pending,     \* Router.pendingSelfNavigations
  shown        \* the screen the listeners were last notified of

navVars == <<entries, idx, going, events, depth, pending, shown>>

Addresses == Paths \cup Retired

NavTypeOK ==
  /\ entries \in Seq(Addresses) /\ Len(entries) \in 1 .. MaxEntries
  /\ idx \in 0 .. Len(entries)
  /\ going \in 0 .. MaxEvents /\ events \in Nat
  /\ depth \in Nat /\ pending \in Nat
  /\ shown \in Paths \cup {Nowhere}

\* A tab that was opened on some address; the app is loading.
NavInit ==
  /\ \E p \in Addresses : entries = <<p>>
  /\ idx = 1 /\ going = 0 /\ events = 0
  /\ depth = 0 /\ pending = 0 /\ shown = Nowhere

Here == idx > 0
Current == entries[idx]

\* redirectTarget, and the screen of an address.
Live(p) == IF p \in Retired THEN Target ELSE p

-----------------------------------------------------------------------------
\* The browser enters a new address: what was ahead is forgotten, and an
\* event is queued.
Entered(p, es) == Append(SubSeq(es, 1, idx), p)

\* resolve(), `at` being the address and `n`, `k` the counters before it: a
\* retired address is rewritten with setHash, which is one more entry and
\* one more event of the router's own, and its replacement is shown.
Resolve(at, n, k) ==
  /\ shown' = Live(at)
  /\ IF at \in Retired
     THEN /\ entries' = Entered(Target, entries) /\ idx' = idx + 1
          /\ events' = n + 1 /\ pending' = k + 1
     ELSE /\ UNCHANGED <<entries, idx>> /\ events' = n /\ pending' = k

Boot ==
  /\ Here /\ shown = Nowhere
  /\ Resolve(Current, events, pending)
  /\ UNCHANGED <<going, depth>>

\* setHash of an address that is not the current one.
Write(p) ==
  /\ entries' = Entered(p, entries) /\ idx' = idx + 1
  /\ events' = events + 1 /\ pending' = pending + 1
  /\ UNCHANGED shown

\* setHash's answer: did the address change?
StepsMade(p) == IF p = Current THEN 0 ELSE 1

\* navigate(p).
Navigate(p) ==
  /\ Here /\ shown # Nowhere
  /\ IF p = Current THEN Resolve(p, events, pending) ELSE Write(p)
  /\ depth' = depth + StepsMade(p)
  /\ UNCHANGED going

\* back(fallback).
Back(fallback) ==
  IF depth > 0
  THEN /\ Here /\ going < MaxEvents
       /\ going' = going + 1
       /\ UNCHANGED <<entries, idx, events, depth, pending, shown>>
  ELSE Navigate(fallback)

-----------------------------------------------------------------------------
(* The browser and its user.                                               *)

\* One entry back, by history.back() or by the button: out of the app when
\* this is its first.
StepBack ==
  /\ Here /\ idx' = idx - 1
  /\ events' = IF idx = 1 THEN 0 ELSE events + 1
  /\ UNCHANGED <<entries, depth, pending, shown>>

Traverse   == going > 0 /\ StepBack /\ going' = going - 1
BackButton == StepBack /\ UNCHANGED going

ForwardButton ==
  /\ Here /\ idx < Len(entries)
  /\ idx' = idx + 1 /\ events' = events + 1
  /\ UNCHANGED <<entries, going, depth, pending, shown>>

\* An address typed, or a plain link followed.
Typed(p) ==
  /\ Here /\ p # Current
  /\ entries' = Entered(p, entries) /\ idx' = idx + 1 /\ events' = events + 1
  /\ UNCHANGED <<going, depth, pending, shown>>

\* Whose event is it?  One with no write of ours outstanding is the user's,
\* and unwinds a step.
Unwound == IF pending > 0 \/ depth = 0 THEN depth ELSE depth - 1

\* The hashchange listener: whatever the event was for, it is the current
\* address that is resolved.
HashChange ==
  /\ Here /\ events > 0 /\ shown # Nowhere
  /\ depth' = Unwound
  /\ Resolve(Current, events - 1, IF pending > 0 THEN pending - 1 ELSE 0)
  /\ UNCHANGED going

Bounded == Len(entries') <= MaxEntries /\ events' <= MaxEvents

NavNext ==
  /\ \/ Boot \/ Traverse \/ BackButton \/ ForwardButton \/ HashChange
     \/ \E p \in Addresses : Navigate(p) \/ Typed(p)
     \/ \E p \in Paths : Back(p)
  /\ Bounded

NavSpec == NavInit /\ [][NavNext]_navVars

-----------------------------------------------------------------------------
\* Nothing the browser owes the router is outstanding.
Settled == Here /\ events = 0 /\ going = 0 /\ shown # Nowhere

\* The step back() would take from a settled page stays inside the app,
\* after any mixture of the app's own steps, redirects and the browser's
\* buttons: the router never believes it is deeper than it is.
DepthIsHonest == Settled => depth < idx

\* A settled page shows the screen of its address, a retired address that of
\* its replacement, however many events were announced late.
ShownIsTheAddress == Settled => shown = Live(Current)
=============================================================================
