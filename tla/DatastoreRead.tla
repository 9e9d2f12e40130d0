---------------------------- MODULE DatastoreRead ----------------------------
(***************************************************************************)
(* Queries of the Datastore store outside a transaction                     *)
(* (datastore-runtime.ts).  A query is run in one of three ways: directly,  *)
(* when Datastore's filters mean what the portable ones do; over candidates,*)
(* when they select too much and the adapter filters, sorts and cuts        *)
(* itself; over the whole kind, when they may omit rows.  Only a direct     *)
(* query hands out a cursor, which the application follows page by page.    *)
(* Pages are separate requests: the application may write between them.    *)
(*                                                                         *)
(* Datastore is modelled from what the code relies on: an order by the sort *)
(* field and the key, which leaves out entities without that field; pages   *)
(* that end anywhere and say there is more, even at the end, where the      *)
(* emulator repeats its last cursor.                                       *)
(***************************************************************************)
EXTENDS Integers, Sequences, FiniteSets, SequencesExt

CONSTANTS
    Ids,          \* of the entities, ordered as their keys
    Values,       \* of the field the condition is on
    SortValues,   \* of the field "g" the rows may be sorted by
    Ops,          \* the operators of the conditions, "all" for none
    Sorts,        \* "none", "f", "g"
    Declared,     \* fields with fieldType metadata
    AllowScan,    \* allowQueryScanFallback
    Repeats,      \* the emulator repeats a cursor with entities on the page
    MaxWrites     \* bound: writes of the application during a read

\* A value of a field, "missing" if the entity has none; "[1]" and "[]" are arrays.
\* "gone" stands for no entity at all.
Ranked == <<"gone", "missing", "null", "0", "1", "[1]", "[]">>
Rank(value) == CHOOSE i \in DOMAIN Ranked : Ranked[i] = value
NoLimit == Cardinality(Ids) + 2

DatastoreReadAssumption ==
    /\ Ids \subseteq Nat \ {0} /\ IsFiniteSet(Ids)
    /\ Values \subseteq Range(Ranked) \ {"gone"} /\ SortValues \subseteq {"missing", "0", "1"}
    /\ "f" \in Declared => Values \subseteq {"null", "0", "1"}
    /\ "g" \in Declared => "missing" \notin SortValues
    /\ MaxWrites \in Nat

VARIABLES
    stored,   \* [Ids -> row]
    touched,  \* the ids written since the query was asked
    plan,     \* [op, sort, limit, offset]
    phase,    \* "ask", "reading", "answered", "done"
    from,     \* where the next page starts
    resumed,  \* plan.cursor was given
    seen,     \* seenCursors, seenPageCursors
    rows,     \* scannedRows, candidateRows
    answer,   \* of the last page
    followed  \* the rows of all pages of this loop

vars == <<stored, touched, plan, phase, from, resumed, seen, rows, answer, followed>>

Rows == [f : Values, g : SortValues] \cup {[f |-> "gone", g |-> "0"]}
Plans == [op : Ops, sort : Sorts, limit : {1, 2, NoLimit}, offset : {0, 1}]
Start == [key |-> 0, id |-> 0]
NoAnswer == [told |-> "none", list |-> <<>>, more |-> FALSE, incomplete |-> FALSE]

Init ==
    /\ stored \in [Ids -> Rows] /\ touched = {} /\ plan \in Plans /\ phase = "ask"
    /\ from = Start /\ resumed = FALSE /\ seen = {} /\ rows = <<>>
    /\ answer = NoAnswer /\ followed = <<>>

(***************************************************************************)
(* Plans.                                                                  *)
(***************************************************************************)

\* compareWhere with the operand 1 (0 and 1 for "in", from 1 on for "range")
PortableMatch(op, value) ==
    CASE op = "=" -> value = "1"
      [] op = "!=" -> value \notin {"missing", "1"}
      [] op = "in" -> value \in {"0", "1"}
      [] op = "range" -> value = "1"
      [] op = "isNull" -> value \in {"missing", "null"}
      [] op = "isNotNull" -> value \notin {"missing", "null"}
      [] OTHER -> TRUE

\* What Datastore answers: an array is indexed by its elements.
NativeMatch(op, value) ==
    CASE op \in {"=", "range"} -> value \in {"1", "[1]"}
      [] op = "in" -> value \in {"0", "1", "[1]"}
      [] op = "!=" -> value \in {"null", "0"}
      [] op = "isNull" -> value = "null"
      [] op = "isNotNull" -> value \in {"0", "1", "[1]"}
      [] OTHER -> TRUE

\* datastorePlanRequiresPortableFullScan
ScansOnlyNull(op) == op = "isNull"
NeedsFullScan(op) == op = "isNull" \/ ("f" \notin Declared /\ op \in {"!=", "isNotNull"})

\* datastorePlanNeedsPortableScalarFilter
NeedsPortableFilter(op) == op # "all" /\ (op = "isNull" \/ "f" \notin Declared)

Mode(op) == IF NeedsFullScan(op) THEN "scan" ELSE IF NeedsPortableFilter(op) THEN "candidates" ELSE "direct"

Inequality(op) == op \in {"!=", "range", "isNotNull"}

\* assertGoogleInequalitySortOrder
SortFits(p) == Inequality(p.op) => p.sort = "f" \/ (p.sort = "none" /\ p.limit = NoLimit)

\* assertGoogleSortableFieldsDeclared
SortDeclared(p) == p.sort = "none" \/ p.sort \in Declared

Refused(p) ==
    \/ (~NeedsPortableFilter(p.op) \/ ~AllowScan) /\ ~SortFits(p)
    \/ NeedsFullScan(p.op) /\ ~AllowScan
    \/ ~NeedsPortableFilter(p.op) /\ ~SortDeclared(p)

Ask ==
    /\ phase = "ask"
    /\ IF Refused(plan) THEN phase' = "done" /\ answer' = [NoAnswer EXCEPT !.told = "refused"]
       ELSE phase' = "reading" /\ UNCHANGED answer
    /\ UNCHANGED <<stored, touched, plan, from, resumed, seen, rows, followed>>

(***************************************************************************)
(* Pages.                                                                  *)
(***************************************************************************)

Key(sort, row) == IF sort = "none" THEN 0 ELSE Rank(row[sort])
Before(sort, a, b) == Key(sort, a) < Key(sort, b) \/ (Key(sort, a) = Key(sort, b) /\ a.id < b.id)
Sorted(sort, set) == SetToSortSeq(set, LAMBDA a, b : Before(sort, a, b))

Entities == {[id |-> k, f |-> stored[k].f, g |-> stored[k].g] : k \in {l \in Ids : stored[l].f # "gone"}}

\* The order of the query sent; an inequality alone orders by its field.
ServerSort ==
    IF Mode(plan.op) = "scan" THEN "none"
    ELSE IF plan.sort = "none" /\ Inequality(plan.op) THEN "f" ELSE plan.sort

Answering ==
    IF Mode(plan.op) = "scan" THEN Entities
    ELSE {e \in Entities : NativeMatch(plan.op, e.f) /\ Key(ServerSort, e) # Rank("missing")}

At(e) == [key |-> Key(ServerSort, e), id |-> e.id]
Past(e) == Key(ServerSort, e) > from.key \/ (Key(ServerSort, e) = from.key /\ e.id > from.id)

Skipped == IF Mode(plan.op) = "direct" /\ ~resumed THEN plan.offset ELSE 0
AtMost == IF Mode(plan.op) = "direct" THEN plan.limit ELSE NoLimit

\* A page of the server: a prefix of what is left, whether it says there is more
\* (always when something was left out), and the cursor it ends at.
Pages ==
    LET left == Sorted(ServerSort, {e \in Answering : Past(e)})
        whole == SubSeq(left, Skipped + 1, Len(left))
        sizes == {n \in 0 .. Len(whole) : n <= AtMost /\ (n = 0 => whole = <<>>)}
        page(n) == SubSeq(whole, 1, n)
        end(n) == IF n > 0 THEN At(whole[n]) ELSE IF left # <<>> THEN At(Last(left)) ELSE from
        told(n, more) == [list |-> page(n), more |-> more, end |-> end(n)]
    IN  {told(n, TRUE) : n \in sizes} \cup {told(n, FALSE) : n \in sizes \cap {Len(whole)}}
        \cup {[told(n, TRUE) EXCEPT !.end = from] : n \in IF Repeats /\ (from \in seen \/ resumed) THEN sizes \ {0} ELSE {}}

Cut(list) ==
    LET left == SubSeq(list, plan.offset + 1, Len(list))
    IN  [list |-> SubSeq(left, 1, IF Len(left) > plan.limit THEN plan.limit ELSE Len(left)),
         more |-> Len(left) > plan.limit]

\* filterRows, the insertion sort by sortWithStableId, offset and limit
Finish(all) ==
    Cut(SortSeq(SelectSeq(all, LAMBDA e : PortableMatch(plan.op, e.f)),
                LAMBDA a, b : Before(plan.sort, a, b)))

Answers(told, list, more, incomplete) ==
    /\ phase' = "answered"
    /\ answer' = [told |-> told, list |-> list, more |-> more, incomplete |-> incomplete]
    /\ followed' = followed \o list

Continues(page, list) ==
    /\ rows' = list /\ seen' = seen \cup {page.end} /\ from' = page.end
    /\ UNCHANGED <<phase, answer, followed>>

\* scanDatastoreRows: a cursor seen before ends the scan; with entities on that page
\* the scan is incomplete, and its page is not added.
ScanPage ==
    /\ phase = "reading" /\ Mode(plan.op) = "scan"
    /\ \E page \in Pages :
          LET repeated == page.more /\ page.end \in seen
              list == IF repeated THEN rows ELSE rows \o page.list
              incomplete == repeated /\ page.list # <<>>
          IN  IF repeated \/ ~page.more
              THEN /\ Answers("rows", Finish(list).list, incomplete \/ Finish(list).more, incomplete)
                   /\ UNCHANGED <<rows, seen, from>>
              ELSE Continues(page, list)
    /\ UNCHANGED <<stored, touched, plan, resumed>>

CandidatePage ==
    /\ phase = "reading" /\ Mode(plan.op) = "candidates"
    /\ \E page \in Pages :
          LET repeated == page.more /\ page.end \in seen
              list == rows \o page.list
          IN  IF repeated /\ page.list # <<>>
              THEN Answers("error", <<>>, FALSE, FALSE) /\ UNCHANGED <<rows, seen, from>>
              ELSE IF repeated \/ ~page.more
              THEN /\ Answers("rows", Finish(list).list, Finish(list).more, FALSE)
                   /\ UNCHANGED <<rows, seen, from>>
              ELSE Continues(page, list)
    /\ UNCHANGED <<stored, touched, plan, resumed>>

\* datastoreDirectQueryPageInfo: the emulator repeats its terminal cursor with an
\* empty page, which is the end.
EmptyPageGoesOn(page) == FALSE
Terminal(page) == resumed /\ page.end = from /\ page.list = <<>>

DirectPage ==
    /\ phase = "reading" /\ Mode(plan.op) = "direct"
    /\ \E page \in Pages :
          IF page.more /\ resumed /\ page.end = from /\ page.list # <<>>
          THEN Answers("error", <<>>, FALSE, FALSE) /\ UNCHANGED from
          ELSE Answers("rows", page.list, page.more /\ ~Terminal(page), FALSE) /\ from' = page.end
    /\ UNCHANGED <<stored, touched, plan, resumed, rows, seen>>

\* The application asks for the next page with the cursor it was given; a cursor is
\* bound to its query but for the limit, and offset() excludes cursor().
SameQuery(p) == p.op = plan.op /\ p.sort = plan.sort

Follow(p) ==
    /\ phase = "answered" /\ answer.told = "rows" /\ answer.more /\ Mode(plan.op) = "direct"
    /\ p.offset = 0 /\ resumed' = TRUE
    /\ IF Refused(p) \/ Mode(p.op) # "direct" \/ ~SameQuery(p)
       THEN phase' = "done" /\ UNCHANGED plan /\ answer' = [NoAnswer EXCEPT !.told = "refused"]
       ELSE phase' = "reading" /\ plan' = [p EXCEPT !.offset = plan.offset] /\ UNCHANGED answer
    /\ UNCHANGED <<stored, touched, from, seen, rows, followed>>

Stop ==
    /\ phase = "answered" /\ ~(answer.more /\ Mode(plan.op) = "direct")
    /\ phase' = "done"
    /\ UNCHANGED <<stored, touched, plan, from, resumed, seen, rows, answer, followed>>

AppWrite(k, row) ==
    /\ phase \in {"reading", "answered"} /\ Cardinality(touched) < MaxWrites /\ stored[k] # row
    /\ stored' = [stored EXCEPT ![k] = row] /\ touched' = touched \cup {k}
    /\ UNCHANGED <<plan, phase, from, resumed, seen, rows, answer, followed>>

Done == phase = "done" /\ UNCHANGED vars

Read == Ask \/ ScanPage \/ CandidatePage \/ DirectPage \/ Stop \/ \E p \in Plans : Follow(p)
Next == Read \/ (\E k \in Ids, row \in Rows : AppWrite(k, row)) \/ Done

Spec == Init /\ [][Next]_vars
FairSpec == Spec /\ WF_vars(Read)

(***************************************************************************)
(* Properties.                                                             *)
(***************************************************************************)

Wanted == {e \in Entities : PortableMatch(plan.op, e.f)}
Expected ==
    LET all == Sorted(plan.sort, Wanted) IN SubSeq(all, plan.offset + 1, Len(all))

Whole(list, all) == list = SubSeq(all, 1, IF Len(all) > plan.limit THEN plan.limit ELSE Len(all))

\* A query answered by the portable filter while nothing was written gives the very
\* page an evaluation over all rows would, says there is more exactly when there
\* is, and a scan that was not whole never says that there is no more.
PortablePageExact ==
    (phase = "answered" /\ answer.told = "rows" /\ Mode(plan.op) # "direct" /\ touched = {}) =>
        IF answer.incomplete THEN answer.more
        ELSE Whole(answer.list, Expected) /\ (answer.more <=> Len(Expected) > plan.limit)

\* The pages of a loop over cursors, put together, are the rows of the query in the
\* order asked for, each once, and the loop ends with the last of them.
LoopExact ==
    (phase = "answered" /\ answer.told = "rows" /\ Mode(plan.op) = "direct" /\ touched = {}) =>
        /\ Range(followed) \subseteq Wanted
        /\ Cardinality(Range(followed)) = Len(followed)
        /\ plan.sort # "none" => IsPrefix(followed, Expected)
        /\ ~answer.more => Len(followed) = Len(Expected)

\* Whatever the application writes between the pages, a row it leaves alone is in a
\* whole result once if it satisfies the condition, and never if it does not.
UntouchedOnce ==
    LET once(e) == Cardinality({i \in DOMAIN followed : followed[i].id = e.id}) = 1
    IN  (phase = "answered" /\ answer.told = "rows" /\ ~answer.more /\ ~answer.incomplete
            /\ plan.offset = 0 /\ (Mode(plan.op) = "direct" \/ plan.limit = NoLimit)) =>
            \A e \in Entities : e.id \notin touched => (once(e) <=> PortableMatch(plan.op, e.f))

\* A loop that follows the cursors it is given comes to an end, although the
\* emulator never says that there is no more.
Ended == phase = "done"
LoopEnds == []<>Ended
=============================================================================
