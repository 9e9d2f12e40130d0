-------------------------- MODULE DatastoreSnapshot --------------------------
(***************************************************************************)
(* Reads of the Datastore store that may take several requests: getMany of *)
(* more keys than one lookup takes, and aggregates (datastore-runtime.ts).  *)
(* Requests outside a transaction are answered at different moments, so the *)
(* adapter refuses what one moment cannot answer, unless the read is at a   *)
(* fixed time.  Aggregates are computed by Datastore, whose own notions of  *)
(* missing and null values must not show, or from a scan of the kind.      *)
(***************************************************************************)
EXTENDS Integers, Sequences, FiniteSets, FiniteSetsExt, Functions, TLC

CONSTANTS
    Ids,         \* entity ids, in key order
    FValues, GValues,   \* of the entities' two fields
    Kinds,       \* "getMany", "aggregate"
    AskedIds,    \* the sequences of ids asked for
    SpecSets,    \* the sets of aggregates asked for at once
    Conditions,  \* [field, op] of the one condition
    AllowScan,   \* allowAggregateScanFallback
    LookupMax,   \* DATASTORE_LOOKUP_MAX_KEYS
    MaxWrites    \* bound: writes of the application during the read

\* Values of a field: two numbers, null, and no value.
NoValue == 9
Null == 8
Numbers == {0, 1}

DatastoreSnapshotAssumption ==
    /\ Ids = 1 .. Cardinality(Ids) /\ LookupMax \in Nat \ {0} /\ MaxWrites \in Nat
    /\ FValues \subseteq Numbers /\ GValues \subseteq Numbers \cup {Null, NoValue}

VARIABLES
    moments,   \* the worlds since the read was asked, the last one is now
    kind, ids, specs, condition, atTime,   \* what was asked; atTime: readAt()
    phase,     \* "ask", "running", "done"
    told,      \* "none", "ok", "refused"
    got,       \* [spec or id -> value] of the requests answered
    at         \* ids or requests done

vars == <<moments, kind, ids, specs, condition, atTime, phase, told, got, at>>

Entity == [f : FValues, g : GValues]
Gone == [f |-> NoValue, g |-> NoValue]
Worlds == [Ids -> Entity \cup {Gone}]
Now == moments[Len(moments)]
Asked == IF atTime THEN moments[1] ELSE Now

Init ==
    /\ \E world \in Worlds : moments = <<world>>
    /\ kind \in Kinds /\ atTime \in BOOLEAN
    /\ ids \in (IF kind = "getMany" THEN AskedIds ELSE {<<>>})
    /\ specs \in (IF kind = "aggregate" THEN SpecSets ELSE {{}})
    /\ condition \in (IF kind = "aggregate" THEN Conditions ELSE {[field |-> "g", op |-> "all"]})
    /\ phase = "ask" /\ told = "none" /\ got = <<>> /\ at = 0

Keep == UNCHANGED <<moments, kind, ids, specs, condition, atTime>>
Ends(answer) == phase' = "done" /\ told' = answer

(***************************************************************************)
(* getMany.                                                                *)
(***************************************************************************)

Unique == Range(ids)

\* More keys than a lookup takes need one snapshot.
LookupAnyway == FALSE
LookupRefused == Cardinality(Unique) > LookupMax /\ ~atTime

AskMany ==
    /\ phase = "ask" /\ kind = "getMany"
    /\ IF LookupRefused THEN Ends("refused") ELSE phase' = "running" /\ UNCHANGED told
    /\ UNCHANGED <<got, at>> /\ Keep

\* One lookup, of the next keys: what is there, in any order, so by id.
Lookup ==
    /\ phase = "running" /\ kind = "getMany"
    /\ \E keys \in SUBSET (Unique \ DOMAIN got) :
          /\ Cardinality(keys) = LookupMax \/ keys = Unique \ DOMAIN got
          /\ Cardinality(keys) <= LookupMax
          /\ got' = [k \in DOMAIN got \cup keys |->
                        IF k \notin keys THEN got[k] ELSE IF k \in Ids THEN Asked[k] ELSE Gone]
    /\ IF DOMAIN got' = Unique THEN Ends("ok") ELSE UNCHANGED <<phase, told>>
    /\ UNCHANGED at /\ Keep

(***************************************************************************)
(* Aggregates.                                                             *)
(***************************************************************************)

Op == condition.op
Matches(row) ==
    LET value == row[condition.field]
    IN  CASE Op = "all" -> TRUE
          [] Op = "=" -> value = 1
          [] Op = "=null" -> value = Null
          [] Op = "in" -> value \in Numbers
          [] Op = "inMixed" -> value \in {1, Null}
          [] Op = "range" -> value = 1
          [] Op = "!=" -> value \in {0, Null}
          [] Op = "!=null" -> value \in Numbers
          [] OTHER -> value \in {Null, NoValue}       \* "isNull"

Rows(world) == {k \in DOMAIN world : world[k] # Gone /\ Matches(world[k])}

\* aggregateRows: a missing or null value is no value
Field(spec) == IF spec = "sumF" THEN "f" ELSE "g"
Numeric(world, rows, field) == {k \in rows : world[k][field] \in Numbers}
Least(set) == IF set = {} THEN Null ELSE Min(set)
Greatest(set) == IF set = {} THEN Null ELSE Max(set)

AggregateRows(spec, world, rows) ==
    LET numeric == Numeric(world, rows, Field(spec))
        values == {world[k][Field(spec)] : k \in numeric}
    IN  CASE spec = "count" -> Cardinality(rows)
          [] spec \in {"sum", "sumF"} -> Cardinality({k \in numeric : world[k][Field(spec)] = 1})
          [] spec = "min" -> Least(values)
          [] OTHER -> Greatest(values)

\* What the condition says of null on the aggregate's field
OnField == condition.field = "g" /\ Op # "all"
OnlyNull == OnField /\ Op \in {"isNull", "=null"}
ExcludesNull == OnField /\ Op \in {"in", "inMixed", "!=null", "=", "range"}

MinMax == specs \cap {"min", "max"}
Sdk == specs \ MinMax
Inequality == Op \in {"range", "!=", "!=null"}
Negative == Op \in {"!=", "!=null"}

\* datastoreNativeAggregateFiltersAreSafe
FiltersSafe == Op # "isNull"

\* A min or max Datastore's order and filters cannot find.
MinMaxRefused ==
    MinMax # {} /\ \/ Inequality /\ ~OnField
                   \/ OnField /\ Op = "inMixed"
                   \/ ~OnlyNull /\ ~ExcludesNull /\ Negative

NativeRequests == (IF Sdk # {} THEN 1 ELSE 0) + (IF OnlyNull THEN 0 ELSE Cardinality(MinMax))
ManyRequests == NativeRequests > 1

\* An aggregation over several fields covers only entities that have them all.
FieldsDiffer == Cardinality(Sdk) > 1 /\ ("count" \in Sdk \/ {"sum", "sumF"} \subseteq Sdk)

NativeRefused == ~FiltersSafe \/ MinMaxRefused \/ ManyRequests \/ FieldsDiffer
ScanRefused == Cardinality(specs) > 1 /\ ~atTime

AskAggregate ==
    /\ phase = "ask" /\ kind = "aggregate"
    /\ IF (AllowScan /\ ScanRefused) \/ (~AllowScan /\ NativeRefused) THEN Ends("refused")
       ELSE phase' = "running" /\ UNCHANGED told
    /\ UNCHANGED <<got, at>> /\ Keep

\* Datastore's own answers: an aggregation, and the first row in the field's order.
SdkAnswer(spec, world) ==
    LET fields == {Field(s) : s \in Sdk \ {"count"}}
        rows == {k \in Rows(world) : \A field \in fields : world[k][field] # NoValue}
    IN  AggregateRows(spec, world, rows)

NullFiltered == ~ExcludesNull

FirstRow(spec, world) ==
    LET values == {world[k].g : k \in {l \in Rows(world) :
                        world[l].g # NoValue /\ (NullFiltered => world[l].g # Null)}}
    IN  IF spec = "max" THEN Greatest(values \cap Numbers)
        ELSE IF Null \in values THEN Null ELSE Least(values)

Answered(values) ==
    /\ got' = values @@ got
    /\ IF DOMAIN got' = specs THEN Ends("ok") ELSE UNCHANGED <<phase, told>>
    /\ UNCHANGED at /\ Keep

Native == phase = "running" /\ kind = "aggregate" /\ ~AllowScan

Aggregation == Native /\ Sdk # {} /\ Sdk \cap DOMAIN got = {} /\ Answered([s \in Sdk |-> SdkAnswer(s, Asked)])

\* A condition that only null satisfies needs no request.
FindMinMax ==
    /\ Native /\ Sdk \subseteq DOMAIN got
    /\ \E spec \in MinMax \ DOMAIN got :
          Answered(spec :> IF OnlyNull THEN Null ELSE FirstRow(spec, Asked))

ScanWhole == at = Cardinality(Ids)

\* scanDatastoreRows page by page, then filterRows and aggregateRows; a scan that is
\* not whole is refused.
Scan ==
    /\ phase = "running" /\ kind = "aggregate" /\ AllowScan /\ at < Cardinality(Ids)
    /\ \E upto \in at + 1 .. Cardinality(Ids) :
          /\ at' = upto
          /\ got' = [k \in DOMAIN got \cup (at + 1 .. upto) |-> IF k > at THEN Asked[k] ELSE got[k]]
    /\ UNCHANGED <<phase, told>> /\ Keep

ScanEnds ==
    /\ phase = "running" /\ kind = "aggregate" /\ AllowScan
    /\ \/ /\ ScanWhole
          /\ got' = [s \in specs |-> AggregateRows(s, got, Rows(got))] /\ Ends("ok")
       \/ at > 0 /\ Ends("refused") /\ UNCHANGED got
    /\ UNCHANGED at /\ Keep

AppWrite(k, row) ==
    /\ phase = "running" /\ Len(moments) <= MaxWrites /\ row # Now[k]
    /\ moments' = Append(moments, [Now EXCEPT ![k] = row])
    /\ UNCHANGED <<kind, ids, specs, condition, atTime, phase, told, got, at>>

Done == phase = "done" /\ UNCHANGED vars

Next ==
    \/ AskMany \/ Lookup \/ AskAggregate \/ Aggregation \/ FindMinMax \/ Scan \/ ScanEnds
    \/ (\E k \in Ids, row \in Entity \cup {Gone} : AppWrite(k, row)) \/ Done

Spec == Init /\ [][Next]_vars

(***************************************************************************)
(* Properties.                                                             *)
(***************************************************************************)

Moments == {moments[i] : i \in DOMAIN moments}
Value(spec, world) == AggregateRows(spec, world, Rows(world))

\* The rows of one getMany were all there, as they are told, at one moment during
\* the call, however many lookups it took.
RowsOfOneMoment ==
    (kind = "getMany" /\ told = "ok") =>
        \E world \in Moments : \A k \in Unique : got[k] = IF k \in Ids THEN world[k] ELSE Gone

\* Several aggregates told together are true of one moment during the call, and a
\* single one that Datastore computes is too: each is what an evaluation over the
\* rows of that moment gives.
AggregatesOfOneMoment ==
    (kind = "aggregate" /\ told = "ok" /\ (Cardinality(specs) > 1 \/ ~AllowScan)) =>
        \E world \in Moments : \A spec \in specs : got[spec] = Value(spec, world)

\* While nothing is written a scan gives what an evaluation over all rows gives.
ScanExact ==
    (kind = "aggregate" /\ told = "ok" /\ Len(moments) = 1) =>
        \A spec \in specs : got[spec] = Value(spec, Now)
=============================================================================
