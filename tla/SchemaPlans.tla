------------------------------ MODULE SchemaPlans ------------------------------
(***************************************************************************)
(* The index plans of the stores whose indexes are deployed by hand:       *)
(* Firestore and Datastore write down, for the indexes a model declares,   *)
(* the composite indexes its queries need, and the plan is normalised      *)
(* before it is shown or applied.                                          *)
(*                                                                         *)
(* Limited Firestore queries and every Datastore query add the model's id  *)
(* as an ascending tie breaker, so an index without the id needs one with  *)
(* it; Datastore needs each index with and without an ancestor when the    *)
(* model has ancestors.  An index name is a tuple of the parts the code    *)
(* joins with "_"; a shape is the sequence of fields, each with its        *)
(* direction.                                                              *)
(***************************************************************************)
EXTENDS Integers, Sequences, FiniteSets

CONSTANTS Kind,        \* "firestore" or "datastore"
          Names,       \* index names a model may declare
          MaxIndexes   \* bound on the indexes of a model

SchemaPlansAssumption == Kind \in {"firestore", "datastore"} /\ MaxIndexes \in Nat

VARIABLES declared,    \* the indexes of the model: [name, shape]
          hasAncestor, \* the model has Datastore ancestors
          mode,        \* the ancestor modes still to plan (Datastore)
          position,    \* the next declared index
          shapes,      \* the identities planned so far
          names,       \* the names taken (Firestore)
          changes,     \* the plan
          verdict      \* "planning", "accepted" or "refused"

vars == <<declared, hasAncestor, mode, position, shapes, names, changes, verdict>>

Field == {[field |-> f, desc |-> b] : f \in {"x", "id"}, b \in BOOLEAN}
Shape == UNION {[1..n -> Field] : n \in 1..2}
ProperShapes == {s \in Shape : \A i, j \in 1..Len(s) : s[i].field = s[j].field => i = j}

DeclaredIndexes == [name : Names, shape : ProperShapes]

\* model.indexes holds one index of a name.
Init ==
    /\ declared \in UNION {[1..n -> DeclaredIndexes] : n \in 1..MaxIndexes}
    /\ \A i, j \in 1..Len(declared) : declared[i].name = declared[j].name => i = j
    /\ hasAncestor \in IF Kind = "datastore" THEN BOOLEAN ELSE {FALSE}
    /\ mode = IF hasAncestor THEN <<"ancestor", "root">> ELSE <<"root">>
    /\ position = 1
    /\ shapes = IF Kind = "firestore" THEN {<<"root", declared[i].shape>> : i \in 1..Len(declared)} ELSE {}
    /\ names = {declared[i].name : i \in 1..Len(declared)}
    /\ changes = <<>>
    /\ verdict = "planning"

----------------------------------------------------------------------------
IncludesId(shape) == \E i \in 1..Len(shape) : shape[i].field = "id"

\* The shape with the id as an ascending tie breaker at its end.
Stable(shape) ==
    IF IncludesId(shape) THEN shape ELSE Append(shape, [field |-> "id", desc |-> FALSE])

\* <name>_stable_id, or the first <name>_stable_id_<n> that no index has.
Suffix == <<"stable_id", "stable_id_2", "stable_id_3", "stable_id_4">>
PlainSuffix(name, taken) == Append(name, Suffix[1])
FreshName(name, taken) ==
    LET free == {n \in 1..Len(Suffix) : Append(name, Suffix[n]) \notin taken}
    IN  Append(name, Suffix[CHOOSE n \in free : \A m \in free : n <= m])

Change(name, shape, ancestor) == [name |-> name, shape |-> shape, ancestor |-> ancestor]

\* What tells two planned Datastore indexes apart: the ancestor mode, and the shape
\* with the id.
Identity(ancestor, index) == <<ancestor, Stable(index.shape)>>

\* The stable variant of an index, unless the id is in it or a declared or
\* planned index has that shape already.
NeedsVariant(index) ==
    ~IncludesId(index.shape) /\ <<"root", Stable(index.shape)>> \notin shapes

FirestoreIndex ==
    /\ Kind = "firestore" /\ verdict = "planning" /\ position <= Len(declared)
    /\ LET index == declared[position]
           fresh == FreshName(index.name, names)
           plain == Change(index.name, index.shape, "none")
       IN  IF NeedsVariant(index)
           THEN /\ changes' = changes \o <<plain, Change(fresh, Stable(index.shape), "none")>>
                /\ shapes' = shapes \cup {<<"root", Stable(index.shape)>>}
                /\ names' = names \cup {fresh}
           ELSE /\ changes' = Append(changes, plain)
                /\ UNCHANGED <<shapes, names>>
    /\ position' = position + 1
    /\ UNCHANGED <<declared, hasAncestor, mode, verdict>>

\* One declared index in one ancestor mode: planned with the id at its end,
\* unless an index of that shape is planned in this mode.
DatastoreIndex ==
    /\ Kind = "datastore" /\ verdict = "planning" /\ mode # <<>> /\ position <= Len(declared)
    /\ LET index == declared[position]
           identity == Identity(Head(mode), index)
       IN  /\ changes' = IF identity \in shapes THEN changes
                         ELSE Append(changes, Change(index.name, Stable(index.shape), Head(mode)))
           /\ shapes' = shapes \cup {identity}
    /\ position' = position + 1
    /\ UNCHANGED <<declared, hasAncestor, mode, names, verdict>>

NextMode ==
    /\ Kind = "datastore" /\ verdict = "planning" /\ mode # <<>> /\ position > Len(declared)
    /\ mode' = Tail(mode)
    /\ position' = 1
    /\ UNCHANGED <<declared, hasAncestor, shapes, names, changes, verdict>>

\* The identity of a change in a plan, and the refusal of a plan that has one twice.
ChangeKey(change) == <<change.name, change.ancestor>>

Normalize ==
    /\ verdict = "planning"
    /\ IF Kind = "datastore" THEN mode = <<>> ELSE position > Len(declared)
    /\ verdict' = IF \E i, j \in 1..Len(changes) : i # j /\ ChangeKey(changes[i]) = ChangeKey(changes[j])
                  THEN "refused" ELSE "accepted"
    /\ UNCHANGED <<declared, hasAncestor, mode, position, shapes, names, changes>>

Done == verdict # "planning" /\ UNCHANGED vars

Next == FirestoreIndex \/ DatastoreIndex \/ NextMode \/ Normalize \/ Done

Spec == Init /\ [][Next]_vars

----------------------------------------------------------------------------
Planned(shape, ancestors) ==
    \E i \in 1..Len(changes) : changes[i].shape = shape /\ changes[i].ancestor \in ancestors

HasId(shape) == \E i \in 1..Len(shape) : shape[i].field = "id"
WithTieBreaker(shape) == IF HasId(shape) THEN shape ELSE shape \o <<[field |-> "id", desc |-> FALSE]>>

\* The plan a store makes for its own models is never refused for naming a change
\* twice, also when a model declares an index under the very name the plan would
\* give to the variant of another one.
PlanAccepted == verdict # "refused"

\* Every query a declared index serves finds a planned index: with the id as tie
\* breaker, in both ancestor modes when the model has ancestors, and for Firestore
\* in the declared shape too, even when another index made its variant redundant.
QueriesServed ==
    verdict = "accepted" => \A i \in 1..Len(declared) :
        IF Kind = "firestore"
        THEN Planned(declared[i].shape, {"none"}) /\ Planned(WithTieBreaker(declared[i].shape), {"none"})
        ELSE /\ Planned(WithTieBreaker(declared[i].shape), {"root"})
             /\ hasAncestor => Planned(WithTieBreaker(declared[i].shape), {"ancestor"})

\* The Datastore configuration never lists an index twice, which its deployment
\* would refuse; two declared indexes that differ by the id at the end are one.
NothingTwice ==
    \A i, j \in 1..Len(changes) :
        changes[i].shape = changes[j].shape /\ changes[i].ancestor = changes[j].ancestor => i = j
=============================================================================
