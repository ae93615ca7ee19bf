------------------------------- MODULE DocQuery -------------------------------
(* The Mango query screen (plugins/db-mgmt/doc-query.ts): the query in the editor,  *)
(* runs and previews of it, pages of its results by bookmark, the offer of an index  *)
(* for its sort (index-offer.ts).                                                    *)
(* No answer is matched to the request before it: whichever lands, shows.            *)
EXTENDS Integers, FiniteSets, SequencesExt

CONSTANTS
  MaxId,         \* document ids are 1..MaxId
  Selectors, MatchOf,  \* selectors, and the documents each of them matches
  Sizes, Skips,  \* page sizes and skips on offer
  MaxFlying,     \* bound: requests in flight
  None,          \* no request, no answer
  MaxTyped       \* bound: changes of the query in the editor

VARIABLES
  sel, order,    \* _selectorJson and _sortItems
  size, skip,    \* _pageSize, _skip
  page, marks,   \* _page, and _bookmarks from page 1 on
  results, more, ran, busy,    \* _results, _hasMore, _ran, _loading
  indexed,       \* an index covers the sort
  offer,         \* the request IndexOffer would issue again, or None
  flying,        \* requests in flight
  typed,         \* the number of changes so far
  of,            \* history: what the results on the screen were asked for with
  crossed        \* history: see TypeIn, Turn and Land

vars == <<sel, order, size, skip, page, marks, results, more, ran, busy, indexed, offer,
          flying, typed, of, crossed>>
paging == <<page, marks, results, more, ran, of>>

Orders == {"none", "desc"}
NoMark == 0

Shape == [sel |-> sel, order |-> order, size |-> size, skip |-> skip]

-------------------------------------------------------------------------------
(* CouchDB: _find by selector, sort, skip, bookmark.  A bookmark is the document    *)
(* after which the page begins; the skip is sent with the first page only.          *)

All(s, o) == IF o = "desc" THEN SetToSortSeq(MatchOf[s], >) ELSE SetToSortSeq(MatchOf[s], <)
Least(m, n) == IF m < n THEN m ELSE n

SkipSent(q) == IF q.mark = NoMark THEN q.skip ELSE 0

Found(q) ==
  LET all  == All(q.sel, q.order)
      rest == IF q.mark = NoMark THEN all
              ELSE SelectSeq(all, LAMBDA id : IF q.order = "desc" THEN id < q.mark ELSE id > q.mark)
      from == SubSeq(rest, SkipSent(q) + 1, Len(rest))
  IN SubSeq(from, 1, Least(Len(from), q.size))
Bookmark(q) == IF Found(q) = <<>> THEN q.mark ELSE Last(Found(q))

-------------------------------------------------------------------------------
Request(kind, p, mark) ==
  [kind |-> kind, page |-> p, mark |-> mark, sel |-> sel, order |-> order,
   size |-> size, skip |-> IF kind = "page" THEN skip ELSE 0]

TypeOK ==
  /\ sel \in Selectors /\ order \in Orders /\ size \in Sizes /\ skip \in Skips
  /\ page \in 0..MaxId /\ \A n \in DOMAIN marks : marks[n] \in 0..MaxId
  /\ results \in Seq(1..MaxId) /\ more \in BOOLEAN /\ ran \in BOOLEAN /\ busy \in BOOLEAN
  /\ indexed \in BOOLEAN /\ (offer # None => offer.order = "desc")
  /\ \A q \in flying : q.kind \in {"page", "preview", "fields"}
  /\ typed \in 0..MaxTyped

Init ==
  /\ sel \in Selectors /\ order = "none" /\ size \in Sizes /\ skip = 0
  /\ page = 0 /\ marks = <<>> /\ results = <<>> /\ more = FALSE /\ ran = FALSE /\ busy = FALSE
  /\ indexed \in BOOLEAN /\ offer = None /\ flying = {} /\ typed = 0
  /\ of = None /\ crossed = FALSE

Free == offer = None
Issue(q) == Cardinality(flying) < MaxFlying /\ flying' = flying \union {q}
(* _fetchPage. *)
Fetch(q) == Issue(q) /\ busy' = TRUE

-------------------------------------------------------------------------------
(* The query: typed in the builder or the editor, or taken from the history.        *)

ResetResults ==
  page' = 0 /\ marks' = <<>> /\ results' = <<>> /\ more' = FALSE /\ ran' = FALSE /\ of' = None

Edited ==
  /\ typed < MaxTyped /\ typed' = typed + 1 /\ <<sel', order'>> # <<sel, order>>
TypeIn ==
  /\ Free /\ sel' \in Selectors /\ order' \in Orders /\ Edited
  /\ crossed' = (crossed \/ flying # {})
  /\ UNCHANGED <<size, skip, paging, busy, indexed, offer, flying>>
ApplySnapshot ==
  /\ Free /\ sel' \in Selectors /\ order' \in Orders /\ Edited
  /\ ResetResults /\ crossed' = (crossed \/ flying # {})
  /\ UNCHANGED <<size, skip, busy, indexed, offer, flying>>

-------------------------------------------------------------------------------
(* Runs.  Both buttons are disabled while something loads; the page size and the    *)
(* skip are not, once a query has been run.                                         *)

RunQuery ==
  /\ Free /\ ~busy /\ ResetResults /\ Fetch(Request("page", 0, NoMark))
  /\ crossed' = (flying # {})
  /\ UNCHANGED <<sel, order, size, skip, indexed, offer, typed>>
RunPreview ==
  /\ Free /\ ~busy /\ Fetch(Request("preview", 0, NoMark))
  /\ UNCHANGED <<sel, order, size, skip, paging, indexed, offer, typed, crossed>>
FetchFields ==
  /\ Free /\ Issue(Request("fields", 0, NoMark))
  /\ UNCHANGED <<sel, order, size, skip, paging, busy, indexed, offer, typed, crossed>>

(* _rerunFromFirstPage, once there is something to page: it asks for the new shape.  *)
Rerun ==
  /\ Free
  /\ IF ran THEN /\ Issue([Request("page", 0, NoMark) EXCEPT !.size = size', !.skip = skip'])
                 /\ busy' = TRUE /\ marks' = <<>> /\ crossed' = (flying # {})
            ELSE UNCHANGED <<flying, busy, marks, crossed>>
  /\ UNCHANGED <<sel, order, page, results, more, ran, of, indexed, offer, typed>>
ChangeSize == size' \in Sizes \ {size} /\ UNCHANGED skip /\ Rerun
ChangeSkip == skip' \in Skips \ {skip} /\ UNCHANGED size /\ Rerun

(* _goToPage: the query in the editor by now, with a bookmark of the one that ran.   *)
Turn(p) ==
  /\ Free /\ ~busy /\ ran
  /\ Fetch(Request("page", p, IF p \in DOMAIN marks THEN marks[p] ELSE NoMark))
  /\ crossed' = (crossed \/ flying # {} \/ of # Shape)
  /\ UNCHANGED <<sel, order, size, skip, paging, indexed, offer, typed>>
PrevPage == page > 0 /\ Turn(page - 1)
NextPage == more /\ page < MaxId /\ Turn(page + 1)

-------------------------------------------------------------------------------
(* Answers.                                                                     *)

NeedsIndex(q) == q.order # "none" /\ ~indexed

(* The bookmark of the next page is kept under the page that was asked for.          *)
Kept(q) ==
  IF Len(Found(q)) = q.size /\ ~(q.page + 1 \in DOMAIN marks /\ marks[q.page + 1] = Bookmark(q))
  THEN Append(SubSeq(marks, 1, Least(q.page, Len(marks))), Bookmark(q)) ELSE marks

Land(q) ==
  /\ flying' = flying \ {q} /\ ~NeedsIndex(q)
  /\ IF q.kind = "page"
     THEN /\ results' = Found(q) /\ more' = (Len(Found(q)) = q.size) /\ page' = q.page /\ marks' = Kept(q)
          /\ of' = [sel |-> q.sel, order |-> q.order, size |-> q.size, skip |-> q.skip]
          /\ crossed' = (crossed \/ of' # Shape \/ flying' # {})
     ELSE UNCHANGED <<results, more, page, marks, of, crossed>>
  /\ IF q.kind = "fields" THEN UNCHANGED <<ran, busy>> ELSE ran' = TRUE /\ busy' = FALSE
  /\ UNCHANGED <<sel, order, size, skip, indexed, offer, typed>>

(* _handleQueryError: the offer, for want of an index, or a toast.  The bookmarks that  *)
(* _rerunFromFirstPage threw away stay away.                                            *)
LandRefusal(q) ==
  /\ flying' = flying \ {q} /\ busy' = FALSE
  /\ IF NeedsIndex(q) THEN offer' = q ELSE UNCHANGED offer
  /\ crossed' = (crossed \/ (ran /\ q.kind = "page" /\ marks = <<>>))
  /\ UNCHANGED <<sel, order, size, skip, paging, indexed, typed>>

(* The retry: the request that failed, with the sort and the size of by now.          *)
Retried(q) == [q EXCEPT !.order = order, !.sel = IF q.kind = "fields" THEN sel ELSE q.sel, !.size = IF q.kind = "page" THEN size ELSE q.size,
                        !.skip = IF q.kind = "page" THEN skip ELSE 0]
CreateIndex ==
  /\ offer # None /\ offer' = None /\ indexed' = TRUE
  /\ Issue(Retried(offer)) /\ busy' = (busy \/ offer.kind # "fields")
  /\ crossed' = (crossed \/ flying # {})
  /\ UNCHANGED <<sel, order, size, skip, paging, typed>>
Dismiss ==
  /\ offer # None /\ offer' = None
  /\ UNCHANGED <<sel, order, size, skip, paging, busy, indexed, flying, typed, crossed>>

Next ==
  \/ TypeIn \/ ApplySnapshot \/ RunQuery \/ RunPreview \/ FetchFields
  \/ ChangeSize \/ ChangeSkip \/ PrevPage \/ NextPage
  \/ \E q \in flying : Land(q) \/ LandRefusal(q)
  \/ CreateIndex \/ Dismiss

Spec == Init /\ [][Next]_vars

-------------------------------------------------------------------------------
(* The rows on the screen are those of the page and the range its footer names -     *)
(* counted from the skip - for the query, size and skip they were asked for with, as  *)
(* long as no answer crossed another request and the query was not changed between     *)
(* two pages of it.                                                                   *)
RowsAreTheRange ==
  (ran /\ (\A q \in flying : q.kind # "page") /\ ~crossed /\ of = Shape) =>
    LET all  == All(sel, order)
        from == skip + page * size
    IN results = SubSeq(all, from + 1, Least(from + size, Len(all)))
===============================================================================
