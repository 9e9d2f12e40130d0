----------------------------- MODULE QueryPages -----------------------------
(***************************************************************************)
(* A caller reads a query page by page while other callers write.           *)
(*                                                                         *)
(* The memory store (memory.ts, cursor.ts) hands out keyset cursors: a      *)
(* cursor holds the ordering and the last row's sort keys, and the next     *)
(* page holds the rows after them.  The other stores (Mode "offset") are    *)
(* paged by offset: they order the rows themselves, ties in any order, and  *)
(* are asked for one row more than the page to learn whether more follow.   *)
(***************************************************************************)
EXTENDS Integers, Sequences, FiniteSets, SequencesExt

CONSTANTS
    Mode,        \* "keyset" or "offset"
    Types,       \* JSON types the sort field may have
    NumRows,     \* rows the table may hold
    MaxChanges   \* bound: writes between the pages

QueryPagesAssumption ==
    /\ Mode \in {"keyset", "offset"}
    /\ Types \subseteq {"missing", "null", "boolean", "number", "string"}
    /\ NumRows \in Nat /\ MaxChanges \in Nat

Ids == 1 .. NumRows
NoCursor == <<>>

\* a field's value: its JSON type and a number that orders it within the type
Val(type, v) == [type |-> type, v |-> v]
Values == {Val(t, v) : t \in Types, v \in {0}}
          \cup {Val(t, 1) : t \in Types \cap {"boolean"}}

By(field, direction) == [field |-> field, direction |-> direction]
Sorts == {<<>>, <<By("id", "asc")>>, <<By("f", "asc")>>, <<By("f", "desc")>>, <<By("id", "desc")>>,
          <<By("f", "desc"), By("id", "desc")>>}

VARIABLES
    table,     \* the rows in the order of the store's map, each [id, f]
    sort,      \* plan.sort as the caller wrote it
    limit,     \* plan.limit
    notNull,   \* whether plan.where asks for f isNotNull
    cursor,    \* the cursor of the last page, NoCursor before the first
    offset,    \* plan.offset of the next page
    phase,     \* "first", "more", "end", "refused"
    seen,      \* history: the rows returned, in order, as they were read
    touched,   \* history: ids written since the first page
    start,     \* history: the rows when the first page was read
    changes

vars == <<table, sort, limit, notNull, cursor, offset, phase, seen, touched, start, changes>>
plan == <<sort, limit, notNull>>

(***************************************************************************)
(* cursor.ts                                                               *)
(***************************************************************************)

\* a missing value sorts as null
comparable(value) == IF value.type = "missing" THEN Val("null", 0) ELSE value

comparableTypeRank(value) ==
    CASE value.type = "null" -> 0
      [] value.type = "boolean" -> 1
      [] value.type = "number" -> 2
      [] OTHER -> 3

TypesMixed(a, b) == IF a = b \/ a.type # b.type THEN 0 ELSE a.v - b.v
compareValues(a, b) ==
    IF a = b THEN 0
    ELSE IF a.type # b.type THEN comparableTypeRank(a) - comparableTypeRank(b)
         ELSE a.v - b.v

\* the sort with the id appended as the last key
sortWithStableId(s) ==
    IF \E i \in DOMAIN s : s[i].field = "id" THEN s ELSE Append(s, By("id", "asc"))

valueFor(row, field) == IF field = "id" THEN Val("number", row.id) ELSE row.f

cursorValues(row, s) == [i \in DOMAIN s |-> comparable(valueFor(row, s[i].field))]

\* the first key that differs decides, against its direction
compareKeys(left, right, s) ==
    LET differ == {i \in DOMAIN s : compareValues(left[i], right[i]) # 0}
    IN  IF differ = {} THEN 0
        ELSE LET i == CHOOSE k \in differ : \A j \in differ : k <= j
                 order == compareValues(left[i], right[i])
             IN  IF s[i].direction = "asc" THEN order ELSE -order

compareRowToCursor(row, c) == compareKeys(cursorValues(row, c.sort), c.values, c.sort)

assertCursorMatchesSort(c, s) == c.sort = s

(***************************************************************************)
(* memory.ts                                                               *)
(***************************************************************************)

\* one merge of the bottom-up sort; the left run wins a tie
RECURSIVE Merge(_, _, _)
Merge(left, right, s) ==
    IF left = <<>> THEN right
    ELSE IF right = <<>> THEN left
    ELSE IF compareKeys(cursorValues(Head(left), s), cursorValues(Head(right), s), s) <= 0
         THEN <<Head(left)>> \o Merge(Tail(left), right, s)
         ELSE <<Head(right)>> \o Merge(left, Tail(right), s)

\* the runs of a pass: [from, from + width), [from + width, from + 2 * width), ...
RECURSIVE Pass(_, _, _)
Pass(source, width, s) ==
    IF source = <<>> THEN <<>>
    ELSE LET n == Len(source)
             middle == IF width < n THEN width ELSE n
             end == IF 2 * width < n THEN 2 * width ELSE n
         IN  Merge(SubSeq(source, 1, middle), SubSeq(source, middle + 1, end), s)
             \o Pass(SubSeq(source, end + 1, n), width, s)

RECURSIVE Passes(_, _, _)
Passes(source, width, s) ==
    IF width >= Len(source) THEN source ELSE Passes(Pass(source, width, s), 2 * width, s)

sortMemoryRows(rows, s) == Passes(rows, 1, s)

filtered == SelectSeq(table, LAMBDA row : notNull => row.f.type \notin {"null", "missing"})

copyRows(rows, from, to) == SubSeq(rows, from + 1, IF to < Len(rows) THEN to ELSE Len(rows))

(***************************************************************************)
(* The writers.                                                            *)
(***************************************************************************)

Order == <<3, 1, 4, 2, 5>>

Init ==
    /\ \E held \in [Ids -> Values \cup {Val("absent", 0)}] :
         table = SelectSeq([i \in 1 .. NumRows |->
                              LET id == SelectSeq(Order, LAMBDA k : k <= NumRows)[i]
                              IN  [id |-> id, f |-> held[id]]],
                           LAMBDA row : row.f.type # "absent")
    /\ sort \in Sorts /\ limit \in 1 .. 2 /\ notNull \in BOOLEAN
    /\ cursor = NoCursor /\ offset = 0 /\ phase = "first"
    /\ seen = <<>> /\ touched = {} /\ start = {} /\ changes = 0

Change(id) ==
    /\ phase = "more" /\ changes < MaxChanges
    /\ changes' = changes + 1 /\ touched' = touched \cup {id}
    /\ UNCHANGED <<plan, cursor, offset, phase, seen, start>>

Held == {row.id : row \in ToSet(table)}

\* a new row goes to the end of the map
Create == \E id \in Ids \ Held, f \in {Val("null", 0), Val("number", 0)} :
    Change(id) /\ table' = Append(table, [id |-> id, f |-> f])

\* an update keeps the row's place in the map
Update == \E id \in Held, f \in {Val("null", 0), Val("number", 0)} :
    /\ Change(id)
    /\ table' = [i \in DOMAIN table |-> IF table[i].id = id THEN [id |-> id, f |-> f] ELSE table[i]]

Delete == \E id \in Held :
    Change(id) /\ table' = SelectSeq(table, LAMBDA row : row.id # id)

(***************************************************************************)
(* The reader.                                                             *)
(***************************************************************************)

Returned(rows) ==
    /\ seen' = seen \o rows
    /\ start' = IF phase = "first" THEN ToSet(filtered) ELSE start
    /\ UNCHANGED <<table, plan, touched, changes>>

\* MemoryStoreAdapter.query: filter, sort, drop what the cursor has passed,
\* cut to the limit; a cursor is returned only when more rows follow
KeysetPage ==
    /\ Mode = "keyset" /\ phase \in {"first", "more"}
    /\ LET full == sortWithStableId(sort)
           sorted == sortMemoryRows(filtered, full)
           list == IF cursor = NoCursor THEN sorted
                   ELSE SelectSeq(sorted, LAMBDA row : compareRowToCursor(row, cursor) > 0)
           more == Len(list) > limit
           page == copyRows(list, 0, limit)
       IN  /\ Returned(page)
           /\ cursor' = IF more THEN [sort |-> full, values |-> cursorValues(Last(page), full)]
                        ELSE cursor
           /\ phase' = IF more THEN "more" ELSE "end"
    /\ UNCHANGED offset

\* the caller goes on with another ordering: decodeCursor and
\* assertCursorMatchesSort throw, or the cursor fits and the page is read
Resort ==
    /\ Mode = "keyset" /\ phase = "more"
    /\ \E s \in Sorts \ {sort} :
         /\ sort' = s
         /\ phase' = IF assertCursorMatchesSort(cursor, sortWithStableId(s)) THEN phase ELSE "refused"
    /\ UNCHANGED <<table, limit, notNull, cursor, offset, seen, touched, start, changes>>

\* normalizeStoreQueryPlan: a limited, sorted plan gets the id as its last key
appendStableLimitSort(s) ==
    IF s = <<>> \/ \E i \in DOMAIN s : s[i].field = "id" THEN s
    ELSE Append(s, By("id", "asc"))

limitWithLookahead(l) == l + 1

trimLookaheadRows(rows) ==
    [rows |-> copyRows(rows, 0, limit), more |-> Len(rows) > limit]

\* what a database may answer: the rows in any order that respects the sort
Orderings(s) ==
    {o \in SetToSeqs(ToSet(filtered)) :
       \A i, j \in DOMAIN o : i < j =>
          compareKeys(cursorValues(o[i], s), cursorValues(o[j], s), s) <= 0}

OffsetPage ==
    /\ Mode = "offset" /\ phase \in {"first", "more"}
    /\ \E o \in Orderings(appendStableLimitSort(sort)) :
         LET trimmed == trimLookaheadRows(copyRows(o, offset, offset + limitWithLookahead(limit)))
         IN  /\ Returned(trimmed.rows)
             /\ offset' = offset + Len(trimmed.rows)
             /\ phase' = IF trimmed.more THEN "more" ELSE "end"
    /\ UNCHANGED cursor

Done == phase \in {"end", "refused"} /\ UNCHANGED vars

Next == Create \/ Update \/ Delete \/ KeysetPage \/ Resort \/ OffsetPage \/ Done

Spec == Init /\ [][Next]_vars

(***************************************************************************)
(* Properties.                                                             *)
(***************************************************************************)

\* The documented order, apart from the code's comparison: null and missing
\* first, then booleans, numbers and strings.
TypeOrder == [missing |-> 0, null |-> 0, boolean |-> 1, number |-> 2, string |-> 3]
Before(a, b) == TypeOrder[a.type] < TypeOrder[b.type] \/ (a.type = b.type /\ a.v < b.v)
KeyBefore(x, y, s) ==
    \E i \in DOMAIN s :
       /\ \A j \in 1 .. i - 1 : /\ ~Before(valueFor(x, s[j].field), valueFor(y, s[j].field))
                                /\ ~Before(valueFor(y, s[j].field), valueFor(x, s[j].field))
       /\ IF s[i].direction = "asc" THEN Before(valueFor(x, s[i].field), valueFor(y, s[i].field))
          ELSE Before(valueFor(y, s[i].field), valueFor(x, s[i].field))

TotalSort == IF \E i \in DOMAIN sort : sort[i].field = "id" THEN sort
             ELSE Append(sort, By("id", "asc"))

\* Across all pages of a keyset query the rows come in strictly increasing
\* order of the requested sort, whatever is written between the pages: no row
\* is returned twice at the same place, and pages never overlap.
PagesInOrder ==
    Mode = "keyset" /\ phase # "refused" =>
        \A i \in 1 .. Len(seen) - 1 : KeyBefore(seen[i], seen[i + 1], TotalSort)

\* A row that was there when the first page was read and that nobody wrote is
\* returned, once, by the time the last page is read: by keyset whatever else
\* is written; by offset when nothing is written and the caller gave a sort.
EveryRowOnce ==
    phase = "end" /\ (Mode = "keyset" \/ (sort # <<>> /\ changes = 0)) =>
        \A row \in start :
           row.id \notin touched =>
             Cardinality({i \in DOMAIN seen : seen[i].id = row.id}) = 1

\* A cursor is never used with another ordering than the one it was made for.
CursorKeepsItsSort ==
    phase = "more" /\ cursor # NoCursor => cursor.sort = TotalSort
=============================================================================
