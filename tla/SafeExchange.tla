---------------------------- MODULE SafeExchange ----------------------------
(***************************************************************************)
(* What the design-document exchange promises, with no calls, reads or     *)
(* bookkeeping in sight: a database of design documents and a branch of    *)
(* files, both also written by others.  Every revision and every branch    *)
(* tip carries its author, so that what the app may do is told apart from  *)
(* what anybody may do.                                                    *)
(*                                                                         *)
(*   - the app writes into CouchDB only a body the branch has held, and    *)
(*     only over a body the branch has held too (nothing is lost by it);   *)
(*   - the app moves the branch by one commit at a time, made of bodies    *)
(*     CouchDB has held, and touches the documents it was asked for only.  *)
(*                                                                         *)
(* DesignSync is shown to implement this module.                           *)
(***************************************************************************)
EXTENDS Naturals, Sequences

CONSTANTS
  Docs,      \* design documents of one database
  Bodies,    \* document contents, up to key order and CouchDB's own fields
  Blobs,     \* file contents; a blob is its own sha
  BodyOf,    \* what a blob parses to
  Canon,     \* the one rendering a commit writes for a body
  NoBody,    \* a deleted document, an empty file
  NoFile     \* a path the branch does not have

VARIABLES
  couch,     \* each document's revisions, oldest first: [body, by]
  tree,      \* the files at the branch tip
  tip,       \* the tip commit: [no, by]
  pushed     \* every blob the branch ever held, per document

vars == <<couch, tree, tip, pushed>>

Held(d) == {BodyOf[b] : b \in pushed[d]}
Revisions(d) == {couch[d][i].body : i \in 1..Len(couch[d])}

Init ==
  /\ couch \in [Docs -> Seq([body : Bodies, by : {"user"}])]
  /\ tree \in [Docs -> Blobs \cup {NoFile}]
  /\ tip = [no |-> 0, by |-> "other"]
  /\ pushed = [d \in Docs |-> {tree[d]} \ {NoFile}]

\* Somebody saves or deletes a document.
Save(d) ==
  /\ \E body \in Bodies \cup {NoBody} :
       couch' = [couch EXCEPT ![d] = Append(@, [body |-> body, by |-> "user"])]
  /\ UNCHANGED <<tree, tip, pushed>>

\* The app writes a document: nothing the branch has not held is buried.
Pull(d) ==
  /\ couch[d] = <<>> \/ couch[d][Len(couch[d])].body \in Held(d) \cup {NoBody}
  /\ \E body \in Held(d) \cap Bodies :
       couch' = [couch EXCEPT ![d] = Append(@, [body |-> body, by |-> "sync"])]
  /\ UNCHANGED <<tree, tip, pushed>>

Publish(by, newTree) ==
  /\ tree' = newTree
  /\ tip' = [no |-> tip.no + 1, by |-> by]
  /\ pushed' = [d \in Docs |-> pushed[d] \cup ({newTree[d]} \ {NoFile})]
  /\ UNCHANGED couch

ForeignCommit == \E newTree \in [Docs -> Blobs \cup {NoFile}] : Publish("other", newTree)

\* The app commits: every file it sets renders a body CouchDB has held.
Push ==
  \E newTree \in [Docs -> Blobs \cup {NoFile}] :
    /\ \A d \in Docs : \/ newTree[d] \in {tree[d], NoFile}
                       \/ \E body \in Revisions(d) \cap Bodies : newTree[d] = Canon[body]
    /\ Publish("app", newTree)

Next ==
  \/ \E d \in Docs : Save(d) \/ Pull(d)
  \/ ForeignCommit
  \/ Push

Spec == Init /\ [][Next]_vars
=============================================================================
