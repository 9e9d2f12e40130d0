------------------------------ MODULE Preload ------------------------------
(***************************************************************************)
(* include() on a list: preloadIncludes of core/query.ts loads one relation *)
(* for all owners together, in chunks of one `in' query or by id, deals the *)
(* instances out to the owners, makes copies where owners share a target,   *)
(* runs the relation hooks and, for a nested path, preloads the next        *)
(* relation on everything it found.                                         *)
(*                                                                         *)
(* Hooks and other code may change an owner, a target row or an instance    *)
(* whenever the load awaits.  Keys and ancestors are positive numbers; 0 is *)
(* a missing field.                                                         *)
(***************************************************************************)
EXTENDS Integers, Sequences, FiniteSets, SequencesExt, Functions, TLC

CONSTANTS
    Owners,         \* number of owners in the list
    Keys,           \* values of the owners' local key
    Rows,           \* the target rows at first, a function from row to [fk, anc]
    Kind,           \* "one" or "many"
    Path,           \* "id": loadById; "idScoped": find under the owner's ancestor;
                    \* "in": no ancestors; "inferred": ancestor from ancestorFields;
                    \* "root": relation.ancestor names a root above all ancestors
    Nested,         \* whether the include path goes on
    MaxIn,          \* MAX_PORTABLE_IN_VALUES
    MaxChanges      \* bound: changes other code makes to owners and rows

PreloadAssumption ==
    /\ Owners \in Nat /\ MaxIn \in Nat \ {0} /\ MaxChanges \in Nat
    /\ Kind \in {"one", "many"} /\ Nested \in BOOLEAN
    /\ Path \in {"id", "idScoped", "in", "inferred", "root"}

VARIABLES
    phase,      \* "before", "load", "assign", "after", "nested", "ok", "failed"
    at,         \* the owner whose hook or assignment is next
    owners,     \* each owner's [key, anc]
    snap,       \* ownerLocalKey snapshots, taken after the before hooks
    store,      \* the target rows
    todo,       \* queries still to send: [scope, keys, serves]
    insts,      \* instances: [row, fk, anc, query, data, for], "query" as the
                \* query returned it, "data" as it is now, "for" the owners served
    results,    \* resultByOwner: a sequence of instances per owner
    snapshots,  \* sharedRelationResultSnapshots: data by instance
    refs,       \* each owner's primed relation, or NotPrimed
    changes,
    seen,       \* history: the rows of each owner when its query ran
    touched     \* history: owners whose hook changed the data of its targets

vars == <<phase, at, owners, snap, store, todo, insts, results, snapshots, refs, changes, seen, touched>>

Own == 1 .. Owners
Ancestors == {Rows[r].anc : r \in DOMAIN Rows}
NotPrimed == <<0>>
Fields == [key : Keys \cup {0}, anc : IF Path \in {"id", "in"} THEN {0} ELSE Ancestors \cup {0}]

Init ==
    /\ phase = "before" /\ at = 1
    /\ owners \in [Own -> Fields] /\ snap = owners
    /\ store = Rows /\ todo = <<>> /\ insts = <<>>
    /\ results = [o \in Own |-> <<>>] /\ snapshots = <<>>
    /\ refs = [o \in Own |-> NotPrimed]
    /\ changes = 0 /\ seen = [o \in Own |-> {}] /\ touched = {}

(***************************************************************************)
(* The owners' keys and the queries they need.                             *)
(***************************************************************************)

Active == {o \in Own : owners[o].key # 0}

\* relationAncestorForOwner; an explicit root is the same for all
ScopeOf(o) == IF Path \in {"inferred", "idScoped"} THEN owners[o].anc ELSE 0
CannotScope == Path \in {"inferred", "idScoped"} /\ \E o \in Active : owners[o].anc = 0

\* the queries: one load per owner, or chunks of the distinct keys of each group
OneEach == {[scope |-> ScopeOf(o), keys |-> {owners[o].key}, serves |-> {o}] : o \in Active}

chunkArray(keys) ==
    LET order == SetToSortSeq(keys, <)
    IN  {{order[i] : i \in {j \in DOMAIN order : (j - 1) \div MaxIn = c}} : c \in 0 .. (Len(order) - 1) \div MaxIn}

groupActiveOwnersByAncestor == {{p \in Active : ScopeOf(p) = ScopeOf(o)} : o \in Active}

InQueries ==
    UNION {{[scope |-> ScopeOf(CHOOSE o \in group : TRUE), keys |-> chunk,
             serves |-> {o \in group : owners[o].key \in chunk}]
               : chunk \in chunkArray({owners[o].key : o \in group})}
             : group \in groupActiveOwnersByAncestor}

Queries == IF Path \in {"id", "idScoped"} THEN OneEach ELSE InQueries

(***************************************************************************)
(* beforeRelationLoad, one owner after the other; then the keys are taken.  *)
(***************************************************************************)

BeforeHook ==
    /\ phase = "before"
    /\ IF at < Owners
       THEN at' = at + 1 /\ UNCHANGED <<phase, snap, todo>>
       ELSE /\ ~CannotScope
            /\ at' = 1 /\ snap' = owners /\ phase' = "load"
            /\ todo' = SetToSeq(Queries)
    /\ UNCHANGED <<owners, store, insts, results, snapshots, refs, changes, seen, touched>>

\* what a query finds, and an afterQuery hook that may transform the result
Load ==
    /\ phase = "load" /\ todo # <<>>
    /\ LET q == Head(todo)
           found == {r \in DOMAIN store : store[r].fk \in q.keys /\ (q.scope # 0 => store[r].anc = q.scope)}
       IN \E form \in {"plain", "transformed"} :
          /\ insts' = insts \o [i \in 1 .. Cardinality(found) |->
                LET r == SetToSortSeq(found, <)[i]
                IN  [row |-> r, fk |-> store[r].fk, anc |-> store[r].anc,
                     query |-> form, data |-> form, for |-> q.serves]]
          /\ seen' = [o \in Own |->
                IF o \in q.serves
                THEN {r \in DOMAIN store : /\ store[r].fk = snap[o].key
                                           /\ snap[o].anc # 0 => store[r].anc = snap[o].anc}
                ELSE seen[o]]
    /\ todo' = Tail(todo)
    /\ UNCHANGED <<phase, at, owners, snap, store, results, snapshots, refs, changes, touched>>

(***************************************************************************)
(* Dealing out.                                                            *)
(***************************************************************************)

\* byForeign: the bucket of the key, or of the key with the ancestor fields
KeyBucket(o) == {i \in DOMAIN insts : o \in insts[i].for /\ insts[i].fk = snap[o].key}
Bucket(o) == {i \in KeyBucket(o) : snap[o].anc # 0 => insts[i].anc = snap[o].anc}

\* assertUnambiguousDatastoreRelationFallback
Ambiguous(o) == Kind = "one" /\ Path = "root" /\ snap[o].anc = 0 /\ Cardinality(Bucket(o)) > 1

ResultFor(o) ==
    LET matches == SetToSortSeq(Bucket(o), <)
    IN  IF snap[o].key = 0 \/ matches = <<>> THEN <<>>
        ELSE IF Kind = "many" THEN matches ELSE <<matches[1]>>

\* the owners' results and, before any hook sees one, the data of every
\* instance more than one owner shares
Deal ==
    /\ phase = "load" /\ todo = <<>>
    /\ ~(\E o \in Own : snap[o].key # 0 /\ Ambiguous(o))
    /\ results' = [o \in Own |-> ResultFor(o)]
    /\ snapshots' = [i \in DOMAIN insts |-> insts[i].data]
    /\ phase' = "assign" /\ at' = 1
    /\ UNCHANGED <<owners, snap, store, todo, insts, refs, changes, seen, touched>>

\* the first owner of a shared instance keeps it, the others get copies
Shared(o, i) == FALSE
Taken(o, i) == \E p \in 1 .. o - 1 : i \in ToSet(results[p])

CopyOf(i) == [insts[i] EXCEPT !.data = snapshots[i], !.for = {}]

Isolated(o) ==
    LET copied == SelectSeq(results[o], LAMBDA i : Taken(o, i))
    IN  [items |-> [k \in DOMAIN results[o] |->
                      IF Taken(o, results[o][k])
                      THEN Len(insts) + Cardinality({j \in 1 .. k : Taken(o, results[o][j])})
                      ELSE results[o][k]],
         added |-> [j \in DOMAIN copied |-> CopyOf(copied[j])]]

\* runAfterInstantiateHooks on the copies is awaited; then the ref is primed
Assign ==
    /\ phase = "assign"
    /\ insts' = insts \o Isolated(at).added
    /\ refs' = [refs EXCEPT ![at] = Isolated(at).items]
    /\ phase' = "after"
    /\ UNCHANGED <<at, owners, snap, store, todo, results, snapshots, changes, seen, touched>>

\* validateRelationLoadBoundary
OwnerUnchecked(o) == TRUE
OwnerKept(o) == owners[o] = snap[o]

\* runAfterRelationLoad: the hook may change the models it is given, and may
\* put a list in another order, and the ref is primed again
AfterHook ==
    /\ phase = "after" /\ OwnerKept(at)
    /\ \E changed \in BOOLEAN, reversed \in BOOLEAN :
         /\ insts' = IF changed
                     THEN [i \in DOMAIN insts |->
                             IF i \in ToSet(refs[at]) THEN [insts[i] EXCEPT !.data = "hooked"] ELSE insts[i]]
                     ELSE insts
         /\ touched' = IF changed THEN touched \cup {at} ELSE touched
         /\ refs' = [refs EXCEPT ![at] = IF reversed THEN Reverse(@) ELSE @]
    /\ IF at < Owners
       THEN phase' = "assign" /\ at' = at + 1
       ELSE phase' = (IF Nested /\ \E o \in Own : refs[o] # <<>> THEN "nested" ELSE "ok") /\ UNCHANGED at
    /\ UNCHANGED <<owners, snap, store, todo, results, snapshots, changes, seen>>

(***************************************************************************)
(* Nested includes.  The recursive call first takes modelResultSnapshots of *)
(* the related models, which refuses two with one identity.                 *)
(***************************************************************************)

Related == FlattenSeq([o \in Own |-> refs[o]])
DuplicateIdentity ==
    \E j, k \in DOMAIN Related : j # k /\ insts[Related[j]].row = insts[Related[k]].row

NestedLoaded ==
    /\ phase = "nested" /\ ~DuplicateIdentity
    /\ \A o \in Own : OwnerKept(o)
    /\ phase' = "ok"
    /\ UNCHANGED <<at, owners, snap, store, todo, insts, results, snapshots, refs, changes, seen, touched>>

(***************************************************************************)
(* Failure: a hook or a query throws, or a check refuses.                   *)
(***************************************************************************)

Cleared == [o \in Own |-> NotPrimed]

Fail ==
    /\ phase \notin {"ok", "failed"}
    /\ phase' = "failed" /\ refs' = Cleared
    /\ UNCHANGED <<at, owners, snap, store, todo, insts, results, snapshots, changes, seen, touched>>

(***************************************************************************)
(* Other code.                                                             *)
(***************************************************************************)

OwnerChanges(o, f) ==
    /\ phase \notin {"ok", "failed"} /\ changes < MaxChanges /\ owners[o] # f
    /\ owners' = [owners EXCEPT ![o] = f] /\ changes' = changes + 1
    /\ UNCHANGED <<phase, at, snap, store, todo, insts, results, snapshots, refs, seen, touched>>

RowMoves(r, k) ==
    /\ phase = "load" /\ Path \notin {"id", "idScoped"} /\ changes < MaxChanges /\ store[r].fk # k
    /\ store' = [store EXCEPT ![r].fk = k] /\ changes' = changes + 1
    /\ UNCHANGED <<phase, at, owners, snap, todo, insts, results, snapshots, refs, seen, touched>>

Done == phase \in {"ok", "failed"} /\ UNCHANGED vars

Next ==
    \/ BeforeHook \/ Load \/ Deal \/ Assign \/ AfterHook \/ NestedLoaded \/ Fail \/ Done
    \/ \E o \in Own, f \in Fields : OwnerChanges(o, f)
    \/ \E r \in DOMAIN Rows, k \in Keys : RowMoves(r, k)

Spec == Init /\ [][Next]_vars

(***************************************************************************)
(* Properties.                                                             *)
(***************************************************************************)

RowsOf(list) == {insts[i].row : i \in ToSet(list)}

\* Whatever is handed to an owner when its afterRelationLoad hook is accepted
\* is the join for the owner's key as it is then: all targets, or one of them,
\* that carried the key under the owner's ancestor when its query ran.
IncludeIsJoin ==
    phase = "after" /\ phase' \in {"assign", "nested", "ok"} =>
      LET rows == RowsOf(refs[at])
      IN  /\ owners[at] = snap[at]
          /\ IF Kind = "many" \/ snap[at].key = 0 THEN rows = IF snap[at].key = 0 THEN {} ELSE seen[at]
             ELSE rows \subseteq seen[at] /\ Cardinality(rows) = (IF seen[at] = {} THEN 0 ELSE 1)

\* Two owners never hold one model instance, also when they share a target.
NoSharedInstance ==
    \A o, p \in Own : o # p /\ refs[o] # NotPrimed /\ refs[p] # NotPrimed =>
        ToSet(refs[o]) \cap ToSet(refs[p]) = {}

\* A model carries what the query returned, until the hook of the owner that
\* holds it changes it: what one owner's hook does never shows in the copy
\* another owner is given, and a copy is not the row as it was before afterQuery.
HookStaysHome ==
    \A o \in Own : refs[o] # NotPrimed /\ o \notin touched =>
        \A i \in ToSet(refs[o]) : insts[i].data = insts[i].query

\* After a failure no owner keeps a relation the failed load primed.
FailureLeavesNothing == phase = "failed" => \A o \in Own : refs[o] = NotPrimed
=============================================================================
