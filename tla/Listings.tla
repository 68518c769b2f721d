------------------------------ MODULE Listings ------------------------------
(***************************************************************************)
(* The paged listings of the backend, read while its rows change.          *)
(*                                                                         *)
(* A page is read in steps, each a query of its own and none in a          *)
(* transaction: the ids of the page, the rows of these ids when the query  *)
(* joins other tables, and the count.  The next page is asked for in       *)
(* another request.  Between any two of these rows come, change, and go    *)
(* from what the listing shows.                                            *)
(***************************************************************************)
EXTENDS Naturals, Sequences, FiniteSets, SequencesExt

CONSTANTS
    Listings,   \* the listings that are read
    limit,      \* rows asked for per page
    MaxRows,    \* bound: rows
    MaxAmount,  \* bound: what a row counts besides its time
    MaxChanges  \* bound: rows that come and go during a walk

VARIABLES
    listing,  \* what is read
    rows,     \* the table, or the two tables, in the order of creation
    walk,     \* the client that asks for page after page
    since     \* what happened since its first request

vars == <<listing, rows, walk, since>>

ASSUME ListingsAssumption ==
    /\ limit \in Nat \ {0}
    /\ MaxRows \in Nat
    /\ MaxAmount \in Nat
    /\ MaxChanges \in Nat

-----------------------------------------------------------------------------
(* A query shows the rows of some statuses, in the order of a column.  The   *)
(* tables of a listing are told apart by their statuses too.                 *)
Query(shows, joins) == [shows |-> shows, joins |-> joins]

AnyMarket == {"ACTIVE", "PENDING_RESOLUTION", "RESOLVED", "DISPUTED", "CANCELLED"}

Columns == {"created", "amount"}

(* Without a status in the filter every market is shown.                     *)
getMarkets ==
    [name : {"getMarkets"},
     queries : {<<Query(shows, TRUE)>> : shows \in {AnyMarket, {"ACTIVE"}, {"DISPUTED"}}},
     by : Columns, descending : BOOLEAN, counts : {TRUE}]

Listing(name, queries, by) ==
    [name |-> name, queries |-> queries, by |-> by, descending |-> TRUE, counts |-> TRUE]

getPendingMarkets ==
    [Listing("getPendingMarkets", <<Query({"PENDING_RESOLUTION"}, TRUE)>>, "amount")
       EXCEPT !.descending = FALSE]

getPendingCreators == Listing("getPendingCreators", <<Query({"PENDING"}, TRUE)>>, "created")

getMarketTrades == Listing("getMarketTrades", <<Query({"trade"}, FALSE)>>, "created")

getTransactionHistory ==
    Listing("getTransactionHistory", <<Query({"transaction"}, FALSE)>>, "created")

getClaimHistory == Listing("getClaimHistory", <<Query({"verified"}, TRUE)>>, "created")

searchUsersOfAdmin == Listing("searchUsersOfAdmin", <<Query({"user"}, TRUE)>>, "created")

searchUsers == Listing("searchUsers", <<Query({"user"}, TRUE)>>, "amount")

getShareholders == Listing("getShareholders", <<Query({"share"}, TRUE)>>, "amount")

(* Two tables share the page, and neither query has an order.                *)
getUserPortfolio ==
    Listing("getUserPortfolio", <<Query({"share"}, TRUE), Query({"position"}, TRUE)>>, "none")

(* The rows of the two pages are merged and cut to one page; the total is    *)
(* how many they were.                                                       *)
getUserActivity ==
    [Listing("getUserActivity", <<Query({"transaction"}, FALSE), Query({"trade"}, TRUE)>>,
             "created") EXCEPT !.counts = FALSE]

Paged ==
    getMarkets
    \union {getPendingMarkets, getPendingCreators, getMarketTrades, getTransactionHistory,
            getClaimHistory, searchUsersOfAdmin, searchUsers, getShareholders, getUserPortfolio}

-----------------------------------------------------------------------------
Statuses == UNION {q.shows : q \in Range(listing.queries)}

(* What the other requests do to the rows of a listing.                      *)
FirstStatus(name) ==
    CASE name \in {"getMarkets", "getPendingMarkets"} -> {"ACTIVE"}
      [] name = "getPendingCreators" -> {"PENDING"}
      [] name = "getClaimHistory" -> {"open"}
      [] OTHER -> Statuses

(* An approved creator is called APPROVED here, apart from an ACTIVE market. *)
Steps ==
    {<<"ACTIVE", "RESOLVED">>, <<"ACTIVE", "DISPUTED">>, <<"ACTIVE", "CANCELLED">>,
     <<"DISPUTED", "CANCELLED">>, <<"CANCELLED", "DISPUTED">>,
     <<"PENDING", "APPROVED">>, <<"PENDING", "SUSPENDED">>, <<"open", "verified">>}

Known == DOMAIN rows

Shown(query) == {id \in Known : rows[id].status \in query.shows}

AllShown == {id \in Known : rows[id].status \in Statuses}

IsBefore(id, other) ==
    CASE listing.by = "none" -> TRUE
      [] listing.by = "created" ->
           IF listing.descending THEN id > other ELSE id < other
      [] listing.by = "amount" ->
           IF listing.descending THEN rows[id].amount >= rows[other].amount
                                 ELSE rows[id].amount <= rows[other].amount

(* The orders a query may answer in: rows of one key come in any order.      *)
Orders(ids) ==
    {s \in SetToSeqs(ids) :
       \A i, j \in DOMAIN s : i < j => IsBefore(s[i], s[j])}

-----------------------------------------------------------------------------
Idle ==
    [pc |-> "idle", page |-> 0, query |-> 0, picked |-> {}, answer |-> {}, total |-> 0,
     seen |-> {}, answers |-> 0, repeats |-> 0]

Init ==
    /\ listing \in Listings
    /\ rows = << >>
    /\ walk = Idle
    /\ since = [kept |-> {}, left |-> 0, came |-> 0]

Ended == walk.pc = "ended"

Walking == walk.pc # "idle" /\ ~Ended

(* Of the rows shown at the first request, those that stayed where they      *)
(* were; and how many rows went, came, or moved, which is both.              *)
Change(old, id, new) ==
    LET shownBefore == id \in Known /\ old.status \in Statuses
        shownAfter == new.status \in Statuses
        moved == shownBefore /\ shownAfter /\ old # new /\ listing.by = "amount"
        leaves == shownBefore /\ (~shownAfter \/ moved)
        comes == shownAfter /\ (~shownBefore \/ moved)
    IN  since' = IF Walking
                 THEN [kept |-> IF leaves THEN since.kept \ {id} ELSE since.kept,
                       left |-> since.left + (IF leaves THEN 1 ELSE 0),
                       came |-> since.came + (IF comes THEN 1 ELSE 0)]
                 ELSE since

CanChange == ~Ended /\ since.left + since.came < MaxChanges

(* Rows are inserted at times of their own.                                  *)
Insert(status, amount) ==
    LET row == [status |-> status, amount |-> amount]
    IN  /\ CanChange
        /\ Len(rows) < MaxRows
        /\ listing.by = "amount" \/ amount = 0
        /\ rows' = Append(rows, row)
        /\ Change(row, Len(rows) + 1, row)
        /\ UNCHANGED <<listing, walk>>

Step(id, status) ==
    LET row == [rows[id] EXCEPT !.status = status]
    IN  /\ CanChange
        /\ <<rows[id].status, status>> \in Steps
        /\ rows' = [rows EXCEPT ![id] = row]
        /\ Change(rows[id], id, row)
        /\ UNCHANGED <<listing, walk>>

(* Volume, followers, shares held, the end of a market.                      *)
Recount(id, amount) ==
    LET row == [rows[id] EXCEPT !.amount = amount]
    IN  /\ CanChange
        /\ listing.by = "amount"
        /\ amount # rows[id].amount
        /\ rows' = [rows EXCEPT ![id] = row]
        /\ Change(rows[id], id, row)
        /\ UNCHANGED <<listing, walk>>

-----------------------------------------------------------------------------
(* A page is asked for.                                                      *)
Ask(page) == [walk EXCEPT !.pc = "pick", !.page = page, !.query = 1, !.picked = {},
                          !.answer = {}, !.total = 0]

Begin ==
    /\ walk.pc = "idle"
    /\ walk' = Ask(1)
    /\ since' = [since EXCEPT !.kept = AllShown]
    /\ UNCHANGED <<listing, rows>>

Current == listing.queries[walk.query]

(* Mistaken form: the page counted from zero.                                *)
SkipWholePages(page) == page * limit

(* Mistaken form: pages are skipped as if they were rows.                    *)
SkipAsRows(page) == page - 1

Skip(page) == (page - 1) * limit

PageOf(order, page) ==
    {order[i] : i \in (Skip(page) + 1 .. Skip(page) + limit) \intersect DOMAIN order}

(* skip and take: the ids of one page.                                       *)
Pick ==
    /\ walk.pc = "pick"
    /\ \E order \in Orders(Shown(Current)) :
         walk' = [walk EXCEPT !.pc = IF Current.joins THEN "load" ELSE "count",
                              !.picked = PageOf(order, walk.page)]
    /\ UNCHANGED <<listing, rows, since>>

(* The rows of these ids, the filter applied again.                          *)
Load ==
    /\ walk.pc = "load"
    /\ walk' = [walk EXCEPT !.pc = "count", !.picked = @ \intersect Shown(Current)]
    /\ UNCHANGED <<listing, rows, since>>

(* Mistaken form: the rows of the page are counted.                          *)
CountOfPage(query) == Cardinality(walk.picked)

CountOf(query) == Cardinality(Shown(query))

Count ==
    LET more == walk.query < Len(listing.queries)
    IN  /\ walk.pc = "count"
        /\ walk' = [walk EXCEPT
                      !.pc = IF more THEN "pick" ELSE "answer",
                      !.query = IF more THEN @ + 1 ELSE @,
                      !.answer = @ \union walk.picked,
                      !.total = @ + (IF listing.counts THEN CountOf(Current)
                                     ELSE Cardinality(walk.picked)),
                      !.picked = {}]
        /\ UNCHANGED <<listing, rows, since>>

Newest(ids) ==
    {id \in ids : Cardinality({other \in ids : other > id}) < limit}

(* The client goes on while there are pages by the total it was told.        *)
Answer ==
    LET page == IF listing.counts THEN walk.answer ELSE Newest(walk.answer)
        told == [Ask(walk.page + 1) EXCEPT !.seen = walk.seen \union page,
                                           !.answers = walk.answers + Cardinality(page),
                                           !.repeats = walk.repeats
                                                       + Cardinality(page \intersect walk.seen)]
    IN  /\ walk.pc = "answer"
        /\ walk' = IF walk.page * limit < walk.total
                   THEN told
                   ELSE [told EXCEPT !.pc = "ended", !.page = walk.page, !.total = walk.total]
        /\ UNCHANGED <<listing, rows, since>>

Next ==
    \/ \E status \in FirstStatus(listing.name), amount \in 0 .. MaxAmount : Insert(status, amount)
    \/ \E id \in Known :
         \/ \E step \in Steps : Step(id, step[2])
         \/ \E amount \in 0 .. MaxAmount : Recount(id, amount)
    \/ Begin
    \/ Pick
    \/ Load
    \/ Count
    \/ Answer

(* The database answers what it is asked.                                    *)
Spec == Init /\ [][Next]_vars

-----------------------------------------------------------------------------
(* Types of the state.                                                       *)
TypeOK ==
    /\ listing \in Listings
    /\ Len(rows) <= MaxRows
    /\ \A id \in Known : rows[id].amount \in 0 .. MaxAmount
    /\ walk.pc \in {"idle", "pick", "load", "count", "answer", "ended"}
    /\ walk.picked \subseteq Known
    /\ Cardinality(walk.picked) <= limit
    /\ walk.seen \subseteq Known
    /\ walk.total \in 0 .. MaxRows
    /\ since.kept \subseteq Known

(* In the order of creation, a walk through all pages misses no more of the  *)
(* rows that were there all the time than rows went meanwhile: none when     *)
(* rows are only inserted, whatever the queries of a page see.               *)
MissesBounded ==
    (Ended /\ listing.by = "created") => Cardinality(since.kept \ walk.seen) <= since.left

(* And it repeats no more rows than came.                                    *)
RepeatsBounded ==
    (Ended /\ listing.by = "created") => walk.repeats <= since.came

(* In any order, the pages hold as many rows as the total they tell, but for *)
(* the rows that came and went.                                              *)
TotalAgrees ==
    Ended => /\ walk.answers <= walk.total + since.left + since.came
             /\ walk.total <= walk.answers + since.left + since.came

(* "Returns paginated list of user activities" (API_DOCUMENTATION.md): what  *)
(* no row comes or goes between is listed whole.                             *)
ActivitiesListed ==
    (Ended /\ since.left + since.came = 0) => since.kept \subseteq walk.seen
=============================================================================
