-------------------------------- MODULE CspCheck --------------------------------
(* The Content-Security-Policy that CouchDB serves with /_utils, and the callouts    *)
(* (components/cca-csp-check.ts) that read it and offer to extend it, one on the      *)
(* version-control screen and one on the identity-provider screen, each in a tab of    *)
(* its own; the edits are those of services/csp-policy.ts.  Writing the policy           *)
(* replaces the whole header (services/csp-service.ts).                                 *)
EXTENDS Naturals, SequencesExt

CONSTANTS
  Checks,        \* the callouts that are mounted
  OriginsOf,     \* what each of them needs to reach: a sequence of origins
  ViewTester,    \* the callouts that offer 'unsafe-eval' as well
  Covers,        \* <<source, origin>>: a pattern that permits an origin it does not spell out
  Headers,       \* the policies an administrator may serve: sequences of directives
  Admins,        \* the callouts whose session is a server administrator's
  Eval,          \* 'unsafe-eval'
  None,
  MaxWrites,     \* bound: writes of all callouts together
  MaxOthers      \* bound: policies that an administrator writes by hand

VARIABLES
  served,        \* the policy that CouchDB sends, or None
  enforced,      \* callout |-> the policy that came with its page, which the browser enforces
  policy,        \* callout |-> _policy: the one last read or reported, or None
  reading,       \* callout |-> the HEADs under way: of its mounting, and of reading back a write
  write,         \* callout |-> the PUT under way, or None
  denied,        \* callout |-> _writeDenied
  writes, others,
  original       \* history: callout |-> the policy its last switch-on replaced and what it made of it

vars == <<served, enforced, policy, reading, write, denied, writes, others, original>>

Style == "; "
Origins(c) == Range(OriginsOf[c])
Directive(name, values, sep) == [name |-> name, values |-> values, sep |-> sep]

-------------------------------------------------------------------------------
(* csp-policy.ts.  A policy is the sequence of its directives; `sep` is the text that     *)
(* follows a directive, which the edits hand on so that they can be undone.               *)

At(p, name) == SelectInSeq(p, LAMBDA d : d.name = name)
Has(p, name) == At(p, name) # 0
Values(p, name) == IF Has(p, name) THEN p[At(p, name)].values ELSE <<>>

(* The source list that governs `name`, or None when nothing does. *)
Governing(p, name) ==
  IF Has(p, name) THEN Values(p, name)
  ELSE IF Has(p, "default-src") THEN Values(p, "default-src") ELSE None
connectSources(p) == Governing(p, "connect-src")

isOriginAllowed(sources, o) ==
  sources = None \/ \E n \in DOMAIN sources : sources[n] = o \/ <<sources[n], o>> \in Covers
missingOrigins(p, os) == SelectSeq(os, LAMBDA o : ~isOriginAllowed(connectSources(p), o))

(* Whatever the policy puts between two directives; its last separator is the trailing text. *)
separatorStyle(p) ==
  LET between == SelectSeq(Front(p), LAMBDA d : d.sep # "")
  IN IF Len(p) > 1 /\ between # <<>> THEN between[1].sep ELSE Style
appendDirective(p, d) ==
  IF p = <<>> THEN <<d>>
  ELSE Append([p EXCEPT ![Len(p)].sep = separatorStyle(p)], [d EXCEPT !.sep = Last(p).sep])
removeLast(p) ==
  IF Len(p) = 1 THEN <<>> ELSE [Front(p) EXCEPT ![Len(p) - 1].sep = Last(p).sep]

(* The directive an edit is made on: the policy's own, or one seeded from default-src. *)
Seeded(p, name) ==
  IF Has(p, name) THEN p ELSE appendDirective(p, Directive(name, Values(p, "default-src"), ""))
Add(values, vs) == values \o SelectSeq(vs, LAMBDA v : v \notin Range(values))
Drop(values, vs) == SelectSeq(values, LAMBDA v : v \notin Range(vs))
Edited(p, name, values) == [p EXCEPT ![At(p, name)].values = values]

sameValues(v, w) == SetToBag(Range(v)) = SetToBag(Range(w)) /\ Len(v) = Len(w)
Redundant(p, d) ==
  IF Has(p, "default-src") THEN sameValues(d.values, Values(p, "default-src")) ELSE d.values = <<>>
dropIfSynthetic(p, name) ==
  IF At(p, name) = Len(p) /\ Redundant(p, Last(p)) THEN removeLast(p) ELSE p

addConnectSrcOrigins(p, os) ==
  LET q == Seeded(p, "connect-src")
  IN Edited(q, "connect-src", Add(Values(q, "connect-src"), os))
removeConnectSrcOrigins(p, os) ==
  IF ~Has(p, "connect-src") THEN p
  ELSE dropIfSynthetic(Edited(p, "connect-src", Drop(Values(p, "connect-src"), os)), "connect-src")

scriptSrcAllowsEval(p) ==
  LET s == Governing(p, "script-src") IN s = None \/ Eval \in Range(s)
setUnsafeEval(p, allow) ==
  LET q == Seeded(p, "script-src")
      present == Eval \in Range(Values(q, "script-src"))
  IN IF ~Has(p, "script-src") /\ ~allow THEN p
     ELSE IF allow THEN Edited(q, "script-src", Add(Values(q, "script-src"), <<Eval>>))
     ELSE IF present
          THEN dropIfSynthetic(Edited(q, "script-src", Drop(Values(q, "script-src"), <<Eval>>)),
                               "script-src")
          ELSE q

-------------------------------------------------------------------------------
TypeOK ==
  /\ served = None \/ DOMAIN served \subseteq Nat
  /\ reading \in [Checks -> SUBSET {"mount", "back"}] /\ denied \in [Checks -> BOOLEAN]
  /\ \A c \in Checks : write[c] # None => (c \in Admins /\ ~denied[c] /\ "back" \notin reading[c])
  /\ writes \in 0..MaxWrites /\ others \in 0..MaxOthers

Init ==
  /\ served \in Headers \union {None} /\ enforced = [c \in Checks |-> served]
  /\ policy = [c \in Checks |-> None] /\ reading = [c \in Checks |-> {"mount"}]
  /\ write = [c \in Checks |-> None]
  /\ denied = [c \in Checks |-> FALSE] /\ writes = 0 /\ others = 0
  /\ original = [c \in Checks |-> None]

(* An administrator writes `[csp] utils_header_value` by hand, or deletes it. *)
Elsewhere ==
  /\ others < MaxOthers /\ others' = others + 1
  /\ served' \in (Headers \union {None}) \ {served}
  /\ UNCHANGED <<enforced, policy, reading, write, denied, writes, original>>

(* The page is loaded again, with the policy that is served now. *)
Mount(c) ==
  /\ write[c] = None /\ reading[c] = {}
  /\ enforced' = [enforced EXCEPT ![c] = served] /\ policy' = [policy EXCEPT ![c] = None]
  /\ reading' = [reading EXCEPT ![c] = {"mount"}] /\ denied' = [denied EXCEPT ![c] = FALSE]
  /\ UNCHANGED <<served, write, writes, others, original>>

(* A policy that cannot be read is none, and the callout is not rendered.  The answer to   *)
(* the first HEAD may be as old as the page.                                               *)
reload(c) ==
  /\ \E head \in reading[c] :
       /\ reading' = [reading EXCEPT ![c] = @ \ {head}]
       /\ \E p \in {served, None} \union (IF head = "mount" THEN {enforced[c]} ELSE {}) :
            policy' = [policy EXCEPT ![c] = p]
  /\ UNCHANGED <<served, enforced, write, denied, writes, others, original>>

(* The browser refused a request, and reports the policy it enforces on this page: the    *)
(* one that came with it, whatever was written since.                                     *)
_recordViolation(c) ==
  /\ enforced[c] # None /\ missingOrigins(enforced[c], OriginsOf[c]) # <<>>
  /\ policy' = [policy EXCEPT ![c] = enforced[c]]
  /\ UNCHANGED <<served, enforced, reading, write, denied, writes, others, original>>

_canWrite(c) == c \in Admins /\ ~denied[c]
_busy(c) == write[c] # None \/ "back" \in reading[c]
_managed(c) ==
  /\ OriginsOf[c] # <<>>
  /\ Origins(c) \subseteq Range(Values(policy[c], "connect-src"))
(* A policy that permits the origins by a rule of its own has no switch. *)
Offered(c) ==
  /\ policy[c] # None /\ OriginsOf[c] # <<>>
  /\ missingOrigins(policy[c], OriginsOf[c]) # <<>> \/ _managed(c)
  /\ _canWrite(c) /\ ~_busy(c)

(* A header that is the one on the screen is not written. *)
_write(c, header, on) ==
  /\ header # policy[c] /\ writes < MaxWrites /\ writes' = writes + 1
  /\ write' = [write EXCEPT ![c] = [header |-> header, base |-> policy[c], on |-> on]]
  /\ UNCHANGED <<served, enforced, policy, reading, denied, others, original>>
setOriginAccess(c) ==
  /\ Offered(c)
  /\ IF _managed(c) THEN _write(c, removeConnectSrcOrigins(policy[c], OriginsOf[c]), "off")
                    ELSE _write(c, addConnectSrcOrigins(policy[c], OriginsOf[c]), "on")
setViewTesterAllowed(c) ==
  /\ c \in ViewTester /\ policy[c] # None /\ _canWrite(c) /\ ~_busy(c)
  /\ _write(c, setUnsafeEval(policy[c], ~scriptSrcAllowsEval(policy[c])), "eval")

(* The write is accepted, and the policy is read back. *)
Written(c) ==
  /\ write[c] # None /\ write' = [write EXCEPT ![c] = None] /\ served' = write[c].header
  /\ reading' = [reading EXCEPT ![c] = @ \union {"back"}]
  /\ original' = [original EXCEPT ![c] =
       IF write[c].on = "on" /\ served = write[c].base
       THEN [was |-> served, made |-> served'] ELSE None]
  /\ UNCHANGED <<enforced, policy, denied, writes, others>>
(* Refused, or the network lost the request or, with the policy written, its answer.      *)
WriteFails(c) ==
  /\ write[c] # None /\ write' = [write EXCEPT ![c] = None]
  /\ denied' = [denied EXCEPT ![c] = TRUE] /\ served' \in {served, write[c].header}
  /\ original' = [original EXCEPT ![c] = None]
  /\ UNCHANGED <<enforced, policy, reading, writes, others>>

Next ==
  \/ Elsewhere
  \/ \E c \in Checks :
       \/ Mount(c) \/ reload(c) \/ _recordViolation(c) \/ setOriginAccess(c)
       \/ setViewTesterAllowed(c) \/ Written(c) \/ WriteFails(c)

Spec == Init /\ [][Next]_vars

-------------------------------------------------------------------------------
Lands(c) == write[c] # None /\ write'[c] = None /\ served' = write[c].header /\ served' # served
(* Nobody wrote the policy between the reading and the writing of this callout. *)
UpToDate(c) == write[c].base = served
Outside(p, name) == SelectSeq([n \in DOMAIN p |-> p[n].values], LAMBDA v : v # Values(p, name))
Target(c) == IF write[c].on = "eval" THEN "script-src" ELSE "connect-src"
Own(c) == IF write[c].on = "eval" THEN {Eval} ELSE Origins(c)
Everything == UNION {Origins(c) : c \in Checks} \union {pair[2] : pair \in Covers}

(* csp-policy.ts, "Every directive the server shipped has to survive the edit": a switch    *)
(* changes the sources of one directive, by the callout's own; what it switches on is then  *)
(* permitted, and nothing that was permitted, by that directive or through default-src,      *)
(* is refused.                                                                              *)
OnlyItsOwnStep ==
  \A c \in Checks : (Lands(c) /\ UpToDate(c)) =>
    LET name == Target(c)
        others0 == SelectSeq(served, LAMBDA d : d.name # name)
        others1 == SelectSeq(served', LAMBDA d : d.name # name)
    IN /\ [n \in DOMAIN others1 |-> others1[n].values] = [n \in DOMAIN others0 |-> others0[n].values]
       /\ Range(Governing(served', name)) \ Own(c) = Range(Governing(served, name)) \ Own(c)
       /\ write[c].on = "on" =>
            \A o \in Everything :
              (o \in Origins(c) \/ isOriginAllowed(connectSources(served), o))
                => isOriginAllowed(connectSources(served'), o)
OnlyItsOwn == [][OnlyItsOwnStep]_vars

(* "a toggle, not a one-way write": switched off again, the policy is the one that was       *)
(* served before it was switched on, to the last separator - unless some of the origins       *)
(* were spelled out already, or its last directive restated default-src, which is the           *)
(* ambiguity that dropIfSynthetic names.                                                        *)
Ambiguous(p) == p # <<>> /\ Last(p).name = "connect-src" /\ Redundant(p, Last(p))
OffUndoesOnStep ==
  \A c \in Checks :
    (/\ Lands(c) /\ UpToDate(c) /\ write[c].on = "off"
     /\ original[c] # None /\ original[c].made = served
     /\ ~Ambiguous(original[c].was)
     /\ Origins(c) \intersect Range(Values(original[c].was, "connect-src")) = {})
      => served' = original[c].was
OffUndoesOn == [][OffUndoesOnStep]_vars

(* cca-csp-check.ts: "Turning it off removes exactly what it added", whatever the policy    *)
(* spelled out before.  It does not: an origin that the operator had listed goes as well.    *)
RemovesWhatItAddedStep ==
  \A c \in Checks :
    (Lands(c) /\ UpToDate(c) /\ write[c].on = "off" /\ original[c] # None /\ original[c].made = served)
      => Range(Values(original[c].was, "connect-src")) \subseteq Range(Values(served', "connect-src"))
                                                           \union Range(Values(served', "default-src"))
RemovesWhatItAdded == [][RemovesWhatItAddedStep]_vars

(* A switch that shows a policy which is not served any more writes over what came between.  *)
NothingOverwrittenStep == \A c \in Checks : Lands(c) => UpToDate(c)
NothingOverwritten == [][NothingOverwrittenStep]_vars

(* The 'unsafe-eval' switch does what it says: it is not stuck on. *)
EvalCanBeTakenBack ==
  \A c \in Checks : (policy[c] # None /\ Governing(policy[c], "script-src") # None)
    => ~scriptSrcAllowsEval(setUnsafeEval(policy[c], FALSE))
===============================================================================
