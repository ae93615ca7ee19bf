------------------------------ MODULE DocBrowser ------------------------------
(* The document browser (plugins/db-mgmt/doc-browser.ts), with the two paged      *)
(* listings it reads from (db-mgmt-service.ts) and the offer to create a missing   *)
(* index (index-offer.ts): pages, page tokens, sorts, page sizes and skips, with    *)
(* loads whose answers may land in any order, and documents deleted meanwhile.      *)
EXTENDS Integers, FiniteSets, SequencesExt

CONSTANTS
  MaxId,        \* document ids are 1..MaxId
  WithField,    \* the documents that carry the sort field
  Sizes, Skips, \* page sizes and skips on offer
  MaxFlying     \* bound: loads in flight (and no page beyond MaxId)

VARIABLES
  db,           \* the ids of the documents in the database
  indexed,      \* a Mango index covers the sort field
  sort, size, skip, page,     \* _sort, _pageSize, _skip, _page
  tokens,       \* _bookmarks from page 1 on
  docs, more, failed, busy,   \* _docs, _hasMore, _loadError, _loading
  goodSort,     \* _lastGoodSort
  selected,     \* _selectedDocs
  confirming,   \* _pendingDelete
  offer,        \* IndexOffer: open
  flying,       \* loads in flight
  deleting,     \* the bulk delete in flight
  crossed,      \* history: the list was reshaped, or a page turned, over a load in flight
  changed       \* history: the database changed since the list was last reshaped

vars == <<db, indexed, sort, size, skip, page, tokens, docs, more, failed, busy, goodSort,
          selected, confirming, offer, flying, deleting, crossed, changed>>
view == <<docs, more, failed, goodSort, selected>>
data == <<db, indexed, changed>>
dialogs == <<confirming, offer, deleting>>

Ids == 1..MaxId
Sorts == {"none", "asc", "desc"}
NoToken == [by |-> "none", at |-> 0, size |-> 0, skip |-> 0]

-------------------------------------------------------------------------------
(* The listings.  _all_docs goes by id and its token is the id the next page       *)
(* starts at; _find leaves out documents without the field, and its bookmark is the *)
(* last document read.                                                              *)

Listing(s, d) ==
  IF s = "none" THEN SetToSortSeq(d, <)
  ELSE IF s = "asc" THEN SetToSortSeq(d \intersect WithField, <)
  ELSE SetToSortSeq(d \intersect WithField, >)

Beyond(s, id, t) == IF s = "none" THEN id >= t.at ELSE IF s = "asc" THEN id > t.at ELSE id < t.at

(* A token of the other listing: _all_docs reads it as no token, _find refuses it. *)
Foreign(q) == q.token # NoToken /\ (q.token.by = "none") # (q.sort = "none")
Starts(q) == q.token = NoToken \/ (Foreign(q) /\ q.sort = "none")

(* skip counts from the start of the list, so it goes with no token. *)
From(q) ==
  LET all == Listing(q.sort, db) IN
  IF Starts(q) THEN SubSeq(all, q.skip + 1, Len(all))
  ELSE SelectSeq(all, LAMBDA id : Beyond(q.sort, id, q.token))

Rows(q) == SubSeq(From(q), 1, IF Len(From(q)) < q.size THEN Len(From(q)) ELSE q.size)

(* listDocuments looks one row ahead, and mints a token only when it is there;       *)
(* queryDocuments passes on the bookmark that _find always returns.                  *)
Minted(q) ==
  LET at == IF q.sort = "none" THEN IF Len(From(q)) > q.size THEN From(q)[q.size + 1] ELSE 0
            ELSE IF Rows(q) = <<>> THEN q.token.at ELSE Last(Rows(q))
  IN IF at = 0 THEN NoToken ELSE [by |-> q.sort, at |-> at, size |-> q.size, skip |-> q.skip]

HasMore(q) == IF q.sort = "none" THEN Minted(q) # NoToken ELSE Len(Rows(q)) = q.size

-------------------------------------------------------------------------------
TypeOK ==
  /\ db \subseteq Ids /\ indexed \in BOOLEAN
  /\ sort \in Sorts /\ size \in Sizes /\ skip \in Skips /\ page \in 0..MaxId
  /\ \A n \in DOMAIN tokens : tokens[n].by \in Sorts
  /\ docs \in Seq(Ids) /\ more \in BOOLEAN /\ failed \in BOOLEAN /\ busy \in BOOLEAN
  /\ goodSort \in Sorts /\ selected \subseteq Ids /\ confirming \subseteq Ids
  /\ offer \in BOOLEAN /\ deleting \subseteq Ids
  /\ \A q \in flying : q.st \in {"sent", "answered", "refused", "noIndex"}

Query == [sort |-> sort, size |-> size, skip |-> skip, page |-> page, st |-> "sent",
          token |-> IF page \in DOMAIN tokens THEN tokens[page] ELSE NoToken,
          docs |-> <<>>, more |-> FALSE, minted |-> NoToken]

Init ==
  /\ db = Ids /\ indexed \in BOOLEAN
  /\ sort = "none" /\ size \in Sizes /\ skip = 0 /\ page = 0 /\ tokens = <<>>
  /\ docs = <<>> /\ more = FALSE /\ failed = FALSE /\ busy = TRUE /\ goodSort = "none"
  /\ selected = {} /\ confirming = {} /\ offer = FALSE /\ deleting = {}
  /\ flying = {Query} /\ crossed = FALSE /\ changed = FALSE

(* _load: sent with the sort, the size and the page of the moment. *)
Load ==
  /\ Cardinality(flying) < MaxFlying
  /\ busy' = TRUE /\ failed' = FALSE
  /\ flying' = flying \union {Query'}

(* _restart: everything that says where in the list we are is thrown away. *)
Restart ==
  /\ page' = 0 /\ tokens' = <<>> /\ docs' = <<>> /\ more' = FALSE
  /\ Load /\ crossed' = (flying # {}) /\ changed' = (changed /\ flying # {})

(* The sort headers are gone while the table is loading; the sizes, the skip box and  *)
(* the "Clear sort" button are not.                                                   *)
NextSort == CASE sort = "none" -> "asc" [] sort = "asc" -> "desc" [] sort = "desc" -> "none"
Free == ~offer /\ confirming = {}
Same == UNCHANGED <<db, indexed, goodSort, selected, dialogs>>

ToggleSort == Free /\ ~busy /\ sort' = NextSort /\ UNCHANGED <<size, skip>> /\ Restart /\ Same
ClearSort == Free /\ sort # "none" /\ sort' = "none" /\ UNCHANGED <<size, skip>> /\ Restart /\ Same
ChangeSize == Free /\ size' \in Sizes \ {size} /\ UNCHANGED <<sort, skip>> /\ Restart /\ Same
ChangeSkip == Free /\ skip' \in Skips \ {skip} /\ UNCHANGED <<sort, size>> /\ Restart /\ Same

(* Previous and Next are disabled while loading. *)
Turn(p) ==
  /\ Free /\ ~busy /\ page' = p /\ UNCHANGED <<sort, size, skip, tokens, docs, more>>
  /\ Load /\ crossed' = (crossed \/ flying # {}) /\ UNCHANGED changed /\ Same
PrevPage == page > 0 /\ Turn(page - 1)
NextPage == more /\ page < MaxId /\ Turn(page + 1)

-------------------------------------------------------------------------------
(* Answers.                                                                     *)

Answer(q) ==
  /\ q.st = "sent"
  /\ \E st \in {"answered", "refused"} \union IF q.sort # "none" /\ ~indexed THEN {"noIndex"} ELSE {} :
       /\ st = "answered" => (~Foreign(q) \/ q.sort = "none") /\ (q.sort # "none" => indexed)
       /\ flying' = (flying \ {q}) \union
            {IF st # "answered" THEN [q EXCEPT !.st = st]
             ELSE [q EXCEPT !.st = st, !.docs = Rows(q), !.more = HasMore(q), !.minted = Minted(q)]}
  /\ UNCHANGED <<data, sort, size, skip, page, tokens, view, busy, dialogs, crossed>>

(* The token of the next page is kept under the page on the screen by now.        *)
Keep(q) ==
  IF q.more /\ q.minted # NoToken /\ ~(page < Len(tokens) /\ tokens[page + 1] = q.minted)
  THEN Append(SubSeq(tokens, 1, page), q.minted) ELSE tokens

Land(q) ==
  /\ q.st = "answered" /\ flying' = flying \ {q}
  /\ docs' = q.docs /\ more' = q.more /\ tokens' = Keep(q)
  /\ goodSort' = q.sort /\ busy' = FALSE
  /\ UNCHANGED <<data, sort, size, skip, page, failed, selected, dialogs, crossed>>

LandRefusal(q) ==
  /\ q.st \in {"refused", "noIndex"} /\ flying' = flying \ {q} /\ busy' = FALSE
  /\ IF q.st = "noIndex" THEN offer' = TRUE /\ UNCHANGED <<failed, docs, more>>
     ELSE failed' = TRUE /\ docs' = <<>> /\ more' = FALSE /\ UNCHANGED offer
  /\ UNCHANGED <<data, sort, size, skip, page, tokens, goodSort, selected, confirming, deleting, crossed>>

(* The offer: create the index and load again, or go back to the last sort served. *)
CreateIndex ==
  /\ offer /\ offer' = FALSE /\ indexed' = TRUE
  /\ UNCHANGED <<db, changed, sort, size, skip, page, tokens, docs, more, goodSort, selected,
                 confirming, deleting>>
  /\ Load /\ crossed' = (crossed \/ flying # {})
Dismiss ==
  /\ offer /\ offer' = FALSE /\ sort' = goodSort /\ UNCHANGED <<size, skip>> /\ Restart
  /\ UNCHANGED <<db, indexed, goodSort, selected, confirming, deleting>>

-------------------------------------------------------------------------------
(* Selection and bulk delete; a selection outlives the page it was made on.       *)

Select ==
  /\ Free /\ ~busy /\ \E id \in ToSet(docs) :
       selected' = IF id \in selected THEN selected \ {id} ELSE selected \union {id}
  /\ UNCHANGED <<data, sort, size, skip, page, tokens, docs, more, failed, busy, goodSort, dialogs,
                 flying, crossed>>

Selected == selected \intersect ToSet(docs)
AskDelete ==
  /\ Free /\ Selected # {} /\ confirming' = Selected
  /\ UNCHANGED <<data, sort, size, skip, page, tokens, view, busy, offer, deleting, flying, crossed>>
CancelDelete ==
  /\ confirming # {} /\ confirming' = {}
  /\ UNCHANGED <<data, sort, size, skip, page, tokens, view, busy, offer, deleting, flying, crossed>>
ConfirmDelete ==
  /\ confirming # {} /\ deleting = {} /\ deleting' = confirming /\ confirming' = {} /\ selected' = {}
  /\ UNCHANGED <<data, sort, size, skip, page, tokens, docs, more, failed, busy, goodSort, offer,
                 flying, crossed>>

Bulk ==
  /\ deleting # {} /\ db \intersect deleting # {} /\ db' = db \ deleting /\ changed' = TRUE
  /\ UNCHANGED <<indexed, sort, size, skip, page, tokens, view, busy, dialogs, flying, crossed>>
Deleted ==
  /\ deleting # {} /\ db \intersect deleting = {} /\ deleting' = {}
  /\ UNCHANGED <<sort, size, skip>> /\ Restart
  /\ UNCHANGED <<db, indexed, goodSort, selected, confirming, offer>>
DeleteFailed ==
  /\ deleting # {} /\ deleting' = {}
  /\ UNCHANGED <<data, sort, size, skip, page, tokens, view, busy, confirming, offer, flying, crossed>>

Next ==
  \/ ToggleSort \/ ClearSort \/ ChangeSize \/ ChangeSkip \/ PrevPage \/ NextPage
  \/ \E q \in flying : Answer(q) \/ Land(q) \/ LandRefusal(q)
  \/ CreateIndex \/ Dismiss
  \/ Select \/ AskDelete \/ CancelDelete \/ ConfirmDelete \/ Bulk \/ Deleted \/ DeleteFailed

Spec == Init /\ [][Next]_vars

-------------------------------------------------------------------------------
(* Paging: whatever pages were turned, the documents on the screen are the page's   *)
(* own slice of the list, and Next is offered when there is more (_find also offers *)
(* it after a last page that is full) - as long as no answer crossed another query   *)
(* and the database stayed as it was.                                                *)
Slice(s, from, n) == SubSeq(s, from + 1, IF from + n < Len(s) THEN from + n ELSE Len(s))
PageIsItsSlice ==
  (~busy /\ ~failed /\ ~offer /\ ~crossed /\ ~changed) =>
    LET all == Listing(sort, db)
        from == skip + page * size IN
    /\ docs = Slice(all, from, size)
    /\ more = IF sort = "none" THEN Len(all) > from + size ELSE Len(docs) = size

(* doc-browser.ts: the two kinds of token "are not interchangeable, which is why every *)
(* sort change goes through _restart and throws the whole array away": the tokens kept  *)
(* are those of the sort on the screen.                                                 *)
TokensOfThisSort == \A n \in DOMAIN tokens : tokens[n].by = sort

===============================================================================
