-------------------------------- MODULE Topology --------------------------------
(* The replication topology (plugins/server-mgmt/server-topology.ts): the documents    *)
(* of _replicator and the record of the local server, folded into servers and           *)
(* connections and then into the graph that is drawn (services/topology-model.ts).       *)
EXTENDS Naturals, SequencesExt

CONSTANTS
  MaxDoc,        \* replication documents are 1..MaxDoc, in the order of their ids
  Documents,     \* what _replicator may hold: [source, target, continuous], see Endpoint
  KeyOf,         \* serverKey: how a URL spells a server |-> the server
  Local,         \* the key of this deployment's own server
  None,
  MaxTrouble     \* bound: loads that fail

VARIABLES
  replicator,    \* _replicator: id |-> a document, or None
  loading,
  data,          \* [servers, connections] of the last load, or None
  failed,        \* error: whether the last load ended in one
  trouble

vars == <<replicator, loading, data, failed, trouble>>

(* An endpoint is nothing, junk, the name of a database, or a URL: how it spells the      *)
(* server and which database it names, if any; "broken" is one whose path does not decode. *)
Nothing == [kind |-> "nothing"]
Junk == [kind |-> "junk"]
Bare(db) == [kind |-> "bare", db |-> db]
Url(spelling, db) == [kind |-> "url", server |-> spelling, db |-> db]
NoDb == ""
Broken == "%"

(* The documents of a load, in order, design documents left out. *)
Listed(docs) ==
  LET ids == SetToSortSeq({i \in 1..MaxDoc : docs[i] # None}, <)
  IN [n \in DOMAIN ids |-> [id |-> ids[n], source |-> docs[ids[n]].source,
                            target |-> docs[ids[n]].target, continuous |-> docs[ids[n]].continuous]]

-------------------------------------------------------------------------------
(* buildTopology.                                                                   *)

isReplicationDoc(doc) == doc.source # Nothing /\ doc.target # Nothing
Resolved(server, db) == [server |-> server, db |-> db]
resolveEndpoint(e) ==
  IF e.kind = "bare" THEN Resolved(Local, e.db)
  ELSE IF e.kind = "url" THEN Resolved(KeyOf[e.server], e.db) ELSE None
(* A server is added when an endpoint of it is resolved, whatever becomes of the document. *)
Synthesized(servers, r) == IF r = None THEN servers ELSE servers \union {r.server}

AddConnection(t, doc) ==
  LET source == resolveEndpoint(doc.source)
      target == resolveEndpoint(doc.target)
      servers == Synthesized(Synthesized(t.servers, source), target)
  IN IF ~isReplicationDoc(doc) THEN t
     ELSE IF None \in {source, target} THEN [t EXCEPT !.servers = servers]
     ELSE [servers |-> servers,
           connections |-> Append(t.connections,
             [source |-> source, target |-> target, continuous |-> doc.continuous, id |-> doc.id])]
buildTopology(docs) == FoldLeft(AddConnection, [servers |-> {Local}, connections |-> <<>>], docs)
(* decodeURIComponent throws, and nothing on the way to loadTopology catches it. *)
Throws(docs) ==
  \E n \in DOMAIN docs :
    isReplicationDoc(docs[n]) /\ \E e \in {docs[n].source, docs[n].target} : e.kind = "url" /\ e.db = Broken

-------------------------------------------------------------------------------
(* buildTopologyGraph.  A node is a server, <<server>>, or a database, <<server, name>>;     *)
(* `databases` holds for each database the sides it appeared on.                             *)

databaseNodeId(r) == IF r.db = NoDb THEN <<r.server>> ELSE <<r.server, r.db>>
attach(g, r, side) ==
  IF r.db = NoDb THEN g
  ELSE IF databaseNodeId(r) \notin DOMAIN g.databases
  THEN [g EXCEPT !.databases = (databaseNodeId(r) :> {side}) @@ @,
                 !.hosts = Append(@, [source |-> <<r.server>>, target |-> databaseNodeId(r)])]
  ELSE [g EXCEPT !.databases[databaseNodeId(r)] = @ \union {side}]

continuity(c) == IF c.continuous THEN "continuous" ELSE "one-time"
Start(c) ==
  [source |-> databaseNodeId(c.source), target |-> databaseNodeId(c.target), bidirectional |-> FALSE,
   count |-> 1, continuity |-> continuity(c), ids |-> <<c.id>>]
Join(e, c) ==
  [e EXCEPT !.count = @ + 1, !.ids = Append(@, c.id),
            !.bidirectional = @ \/ e.source # databaseNodeId(c.source),
            !.continuity = IF @ = continuity(c) THEN @ ELSE "mixed"]
(* The edge of an unordered pair, however its first document ran. *)
At(edges, c) ==
  SelectInSeq(edges, LAMBDA e :
    {e.source, e.target} = {databaseNodeId(c.source), databaseNodeId(c.target)})
AddEdge(g, c) ==
  LET h == attach(attach(g, c.source, "source"), c.target, "target")
      at == At(h.replications, c)
  IN IF at = 0 THEN [h EXCEPT !.replications = Append(@, Start(c))]
     ELSE [h EXCEPT !.replications[at] = Join(@, c)]
EmptyGraph == [databases |-> <<>>, hosts |-> <<>>, replications |-> <<>>]
buildTopologyGraph(t) == FoldLeft(AddEdge, EmptyGraph, t.connections)

direction(sides) ==
  IF sides = {"source", "target"} THEN "both"
  ELSE IF sides = {"source"} THEN "outgoing" ELSE "incoming"
Nodes(t) == {<<s>> : s \in t.servers} \union DOMAIN buildTopologyGraph(t).databases

-------------------------------------------------------------------------------
TypeOK ==
  /\ replicator \in [1..MaxDoc -> Documents \union {None}]
  /\ loading \in BOOLEAN /\ failed \in BOOLEAN /\ trouble \in 0..MaxTrouble
  /\ data # None => (Local \in data.servers /\ ~loading /\ ~failed)

Init ==
  /\ replicator = [i \in 1..MaxDoc |-> None]
  /\ loading = TRUE /\ data = None /\ failed = FALSE /\ trouble = 0

(* Others store, edit and delete replications.  What they do after the load waits for the   *)
(* next visit, so it is told as happening before that one reads.                             *)
Put(i, doc) ==
  /\ loading /\ replicator[i] # doc /\ replicator' = [replicator EXCEPT ![i] = doc]
  /\ UNCHANGED <<loading, data, failed, trouble>>

(* loadTopology, once per visit. *)
loadTopology ==
  /\ loading /\ ~Throws(Listed(replicator)) /\ loading' = FALSE
  /\ data' = buildTopology(Listed(replicator)) /\ UNCHANGED <<replicator, failed, trouble>>
LoadFails ==
  /\ loading /\ loading' = FALSE /\ data' = None /\ failed' = TRUE
  /\ IF Throws(Listed(replicator)) THEN UNCHANGED trouble
     ELSE trouble < MaxTrouble /\ trouble' = trouble + 1
  /\ UNCHANGED replicator
Revisit ==
  /\ ~loading /\ loading' = TRUE /\ data' = None /\ failed' = FALSE
  /\ UNCHANGED <<replicator, trouble>>

Next ==
  \/ \E i \in 1..MaxDoc, doc \in Documents \union {None} : Put(i, doc)
  \/ loadTopology \/ LoadFails \/ Revisit

Spec == Init /\ [][Next]_vars

-------------------------------------------------------------------------------
(* What the picture should say, from the documents.                                *)

Drawable(doc) == doc # None /\ None \notin {resolveEndpoint(doc.source), resolveEndpoint(doc.target)}
Drawn == {i \in 1..MaxDoc : Drawable(replicator[i])}
From(i) == databaseNodeId(resolveEndpoint(replicator[i].source))
To(i) == databaseNodeId(resolveEndpoint(replicator[i].target))

(* Every replication that names two ends is behind exactly one edge, which runs between    *)
(* the databases of its documents, both ways when two of them run against each other, and   *)
(* counts them all; no edge and no node is there without a document.                         *)
EveryReplicationOnce ==
  data # None =>
    LET edges == buildTopologyGraph(data).replications
    IN /\ \A i \in Drawn : \E n \in DOMAIN edges :
            /\ Contains(edges[n].ids, i) /\ {edges[n].source, edges[n].target} = {From(i), To(i)}
            /\ \A m \in DOMAIN edges \ {n} : ~Contains(edges[m].ids, i)
       /\ \A n \in DOMAIN edges :
            LET ids == ToSet(edges[n].ids)
            IN /\ edges[n].count = Cardinality(ids) /\ ids # {} /\ ids \subseteq Drawn
               /\ edges[n].bidirectional <=> \E i, j \in ids : From(i) = To(j) /\ From(j) = To(i) /\ From(i) # To(i)
               /\ edges[n].continuity = IF \A i \in ids : replicator[i].continuous THEN "continuous"
                                        ELSE IF \A i \in ids : ~replicator[i].continuous THEN "one-time" ELSE "mixed"

(* A database is one node however its server is spelled, hosted by the node of its server,  *)
(* and coloured by the sides it is on; an edge has both its nodes, which d3 insists on.      *)
DatabasesAreTheirs ==
  data # None =>
    LET g == buildTopologyGraph(data)
        dbs == DOMAIN g.databases
    IN /\ dbs = {d \in {From(i) : i \in Drawn} \union {To(i) : i \in Drawn} : Len(d) = 2}
       /\ \A d \in dbs :
            /\ Cardinality({n \in DOMAIN g.hosts : g.hosts[n].target = d}) = 1
            /\ direction(g.databases[d]) =
                 IF d \notin {To(i) : i \in Drawn} THEN "outgoing"
                 ELSE IF d \notin {From(i) : i \in Drawn} THEN "incoming" ELSE "both"
       /\ \A n \in DOMAIN g.hosts : g.hosts[n].source = <<g.hosts[n].target[1]>>
       /\ UNION {{e.source, e.target} : e \in ToSet(g.hosts) \union ToSet(g.replications)} \subseteq Nodes(data)

(* "An endpoint that is neither drops its whole replication rather than half-drawing it"    *)
(* (topology-model.ts:332).  The server of the other endpoint is drawn all the same.      *)
NothingHalfDrawn ==
  data # None => data.servers = {Local} \union {From(i)[1] : i \in Drawn} \union {To(i)[1] : i \in Drawn}

(* "one malformed `_replicator` document must not take the picture down"                   *)
(* (topology-model.ts:360-361).  One whose path does not decode does.                        *)
OneDocumentIsNotThePicture == failed => trouble > 0
===============================================================================
