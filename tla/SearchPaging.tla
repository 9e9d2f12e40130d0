---------------------------- MODULE SearchPaging ---------------------------
(***************************************************************************)
(* A caller pages through the results of a search with the Algolia or the   *)
(* Meilisearch adapter (cursors, search-cursor.ts) or with Elasticsearch    *)
(* (native "from" or "search_after").  Two searches run side by side and    *)
(* the caller may mix up their cursors.  The backend may time out, lose     *)
(* shards, answer for another page, send an empty page in the middle, a     *)
(* document twice, or a total that is only an estimate.                     *)
(***************************************************************************)
EXTENDS Integers, Sequences, FiniteSets, SequencesExt

CONSTANTS
    Kind,       \* "algolia", "meilisearch" or "elasticsearch"
    Results,    \* documents each search finds
    Limit,      \* documents per page
    MaxFaults,  \* bound: faulty answers
    After       \* Elasticsearch: pages by search_after rather than from

SearchPagingAssumption ==
    /\ Results \in Nat /\ Limit \in Nat \ {0} /\ MaxFaults \in Nat /\ After \in BOOLEAN
    /\ Kind \in {"algolia", "meilisearch", "elasticsearch"}

Searches == {"s1", "s2"}
None == [search |-> "none", page |-> 0]
FirstPage == IF Kind = "meilisearch" THEN 1 ELSE 0
Pages == (Results + Limit - 1) \div Limit
LastPage == Pages + FirstPage - 1

VARIABLES
    cursors,   \* search -> the cursor the caller would go on with
    got,       \* search -> documents received, [search, number]
    state,     \* search -> "open", "ended", "refused"
    faults

vars == <<cursors, got, state, faults>>

Init ==
    /\ cursors = [s \in Searches |-> None] /\ got = [s \in Searches |-> <<>>]
    /\ state = [s \in Searches |-> "open"] /\ faults = 0

\* the documents of a page of a search, numbered in the backend's order
Page(s, page) ==
    LET from == (page - FirstPage) * Limit
        upto == IF from + Limit < Results THEN from + Limit ELSE Results
    IN  [i \in 1..(IF upto > from THEN upto - from ELSE 0) |-> [search |-> s, number |-> from + i]]

\* the truth, and what a faulty backend makes of it; totals: "exact", "lower", "absent"
Honest(s, page) == [hits |-> Page(s, page), page |-> page, pages |-> Pages, total |-> "exact",
                    timedOut |-> FALSE, failedShards |-> FALSE]

Twice(hits) == IF hits = <<>> THEN hits ELSE Append(Front(hits), Head(hits))

Broken(s, page) ==
    LET ok == Honest(s, page) IN
    CASE Kind = "elasticsearch" ->
            {[ok EXCEPT !.timedOut = TRUE, !.hits = <<>>], [ok EXCEPT !.failedShards = TRUE, !.hits = <<>>]}
            \cup {[ok EXCEPT !.total = t] : t \in {"lower", "absent"}}
      [] Kind = "meilisearch" ->
            {[Honest(s, page + 1) EXCEPT !.pages = Pages], [ok EXCEPT !.pages = 0]}
            \cup {[ok EXCEPT !.hits = hits] : hits \in
                     (IF page < LastPage THEN {<<>>, Twice(ok.hits), ok.hits \o Page(s, page + 1)} ELSE {})}
      [] Kind = "algolia" -> {}

\* searchPageFromCursor: the fingerprint is of this very search
CursorFits(cursor, s) == cursor = None \/ cursor.search = s

\* Meilisearch: pagination answers the request, no page but the last is empty,
\* no document comes twice
PaginationAgrees(response, page) ==
    Kind = "meilisearch" =>
        /\ response.page = page /\ Len(response.hits) <= Limit
        /\ response.hits # <<>> => page <= response.pages
        /\ response.hits = <<>> => page >= response.pages
        /\ \A i, j \in DOMAIN response.hits : response.hits[i] = response.hits[j] => i = j

\* Elasticsearch: no answer that timed out or lacks shards
IsComplete(response) == Kind = "elasticsearch" => ~response.timedOut /\ ~response.failedShards

\* elasticsearchMore; "unknown" is an absent more
ElasticsearchMore(total, length, from) ==
    IF total = "lower" THEN length > 0
    ELSE IF total = "absent" \/ After THEN FALSE
    ELSE from + length < Results

MoreUnknown(total, length) == length > 0 /\ (After \/ total = "absent")

\* mutant: the last page but one is taken for the last
TooFew(page, pages) == page + 2 - FirstPage < pages

\* Algolia counts pages from 0, Meilisearch from 1
FurtherPages(page, pages) == IF Kind = "algolia" THEN page + 1 < pages ELSE page < pages

\* what the adapter tells of further documents: "yes", "no" or "unknown"
More(response, page) ==
    IF Kind # "elasticsearch"
    THEN IF FurtherPages(response.page, response.pages) THEN "yes" ELSE "no"
    ELSE IF MoreUnknown(response.total, Len(response.hits)) THEN "unknown"
    ELSE IF ElasticsearchMore(response.total, Len(response.hits), page * Limit) THEN "yes" ELSE "no"

\* searchCursorForPage
NextPage(page) == page + 1

Search(s, cursor, response) ==
    LET page == IF cursor = None THEN FirstPage ELSE cursor.page
        refused == ~CursorFits(cursor, s) \/ ~IsComplete(response) \/ ~PaginationAgrees(response, page)
    IN  IF refused
        THEN state' = [state EXCEPT ![s] = "refused"] /\ UNCHANGED <<cursors, got>>
        ELSE /\ got' = [got EXCEPT ![s] = @ \o response.hits]
             /\ cursors' = [cursors EXCEPT ![s] = [search |-> s, page |-> NextPage(page)]]
             /\ state' = [state EXCEPT ![s] = IF More(response, page) = "no" THEN "ended" ELSE "open"]

\* the caller asks for the next page, the backend answers truly or not
Load(s) ==
    /\ state[s] = "open"
    /\ LET page == IF cursors[s] = None THEN FirstPage ELSE cursors[s].page
       IN  \/ Search(s, cursors[s], Honest(s, page)) /\ UNCHANGED faults
           \/ /\ faults < MaxFaults /\ faults' = faults + 1
              /\ \E response \in Broken(s, page) : Search(s, cursors[s], response)

\* the caller passes the cursor of the other search
Mix(s, other) ==
    /\ s # other /\ state[s] = "open" /\ cursors[other] # None /\ Kind # "elasticsearch"
    /\ Search(s, cursors[other], Honest(s, cursors[other].page))
    /\ UNCHANGED faults

\* after a refusal the caller tries the page again
Retry(s) ==
    /\ state[s] = "refused"
    /\ state' = [state EXCEPT ![s] = "open"]
    /\ UNCHANGED <<cursors, got, faults>>

Next == \E s \in Searches : Load(s) \/ Retry(s) \/ \E other \in Searches : Mix(s, other)

Spec == Init /\ [][Next]_vars

----------------------------------------------------------------------------
All(s) == [i \in 1..Results |-> [search |-> s, number |-> i]]

(***************************************************************************)
(* A caller who pages until it is told that there is no more has received   *)
(* every document exactly once, in the backend's order: no page is left     *)
(* out, repeated, cut short by an incomplete answer, or read with another   *)
(* search's cursor.                                                         *)
(***************************************************************************)
EndMeansAll == \A s \in Searches : state[s] = "ended" => got[s] = All(s)

(***************************************************************************)
(* Until then the caller has the first so many of them.                     *)
(***************************************************************************)
AlwaysAPrefix == \A s \in Searches : IsPrefix(got[s], All(s))
=============================================================================
