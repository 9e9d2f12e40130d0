----------------------------- MODULE QueryBuild -----------------------------
(***************************************************************************)
(* QueryBuilder (query.ts): conditions are collected by where, orWhere,     *)
(* whereAny and scope, compiled into a plan, handed to the beforeQuery or   *)
(* beforeAggregate hooks, sanitized, and run by a store; the hooks after    *)
(* the query see the result before the caller does.                         *)
(*                                                                         *)
(* Which rows a plan selects is decided row by row, so the rows of the      *)
(* model are all there can be: a row has an id, two fields, and the         *)
(* Datastore ancestor it lives under.  Sorting, paging and projection are   *)
(* in QueryPages.                                                          *)
(***************************************************************************)
EXTENDS Naturals, FiniteSets, TLC

CONSTANTS
    MaxCalls,       \* bound: builder calls before the query runs
    MaxHookSteps    \* bound: changes hooks make to the plan

QueryBuildAssumption == MaxCalls \in Nat /\ MaxHookSteps \in Nat

None == "none"
Ids == {1, 2}
Ancestors == {"p", "q"}
Row == [id : Ids, a : {0, 1}, b : {0, 1}, anc : Ancestors]

Entry(field, value) == [field |-> field, value |-> value]
Entries == {Entry("a", 0), Entry("a", 1), Entry("b", 1)}
Leaf(where) == [where |-> where, or |-> {}]

VARIABLES
    phase,        \* "build", "compiled", "sanitized", "loaded", "found", "done", "failed"
    calls,        \* builder calls so far
    constraints,  \* QueryBuilder.constraints: what scopes added
    where,        \* QueryBuilder.plan.where
    or,           \* QueryBuilder.plan.or: the branches
    ancestor,     \* QueryBuilder.plan.meta.datastoreAncestor
    op,           \* what was asked: "load", "find", "count", "update"
    findId,       \* the id of a find or an update
    plan,         \* the plan between its compilation and the store
    base,         \* loadPlan.baseWhere
    kept,         \* loadPlan.protectedMeta
    hookSteps,    \* changes hooks have made
    list,         \* the rows loaded
    result        \* what the caller is given

vars == <<phase, calls, constraints, where, or, ancestor, op, findId, plan,
          base, kept, hookSteps, list, result>>
built == <<constraints, where, or, ancestor>>

compareWhere(row, entry) == row[entry.field] = entry.value

RECURSIVE matchesPlan(_, _)
matchesPlan(row, p) ==
    LET baseMatches == \A e \in p.where : compareWhere(row, e)
    IN  IF p.or = {} THEN baseMatches
        ELSE (p.where # {} /\ baseMatches) \/ \E b \in p.or : matchesPlan(row, b)

(***************************************************************************)
(* The builder.  A refused call throws and leaves the builder as it was.    *)
(***************************************************************************)

Call ==
    /\ phase = "build" /\ calls < MaxCalls
    /\ calls' = calls + 1
    /\ UNCHANGED <<phase, op, findId, plan, base, kept, hookSteps, list, result>>

\* where(field, op, value) and where(shape) add conjuncts
Where == Call /\ \E e \in Entries : where' = where \cup {e}
              /\ UNCHANGED <<constraints, or, ancestor>>

\* orWhere throws after where and for an empty shape
OrWhere ==
    /\ Call
    /\ \E shape \in SUBSET Entries :
         or' = IF where # {} \/ shape = {} THEN or ELSE or \cup {Leaf(shape)}
    /\ UNCHANGED <<constraints, where, ancestor>>

\* whereAny refuses an empty list and an empty branch
WhereAny ==
    /\ Call
    /\ \E one, two \in Entries : or' = or \cup {Leaf({one}), Leaf({two})}
    /\ UNCHANGED <<constraints, where, ancestor>>

\* a scope resolver answers with conditions the caller cannot see or drop
Scope == Call /\ \E e \in Entries : constraints' = constraints \cup {e}
              /\ UNCHANGED <<where, or, ancestor>>

Ancestor == Call /\ \E a \in Ancestors : ancestor' = a
                 /\ UNCHANGED <<constraints, where, or>>

(***************************************************************************)
(* Compilation and sanitation of plans.                                    *)
(***************************************************************************)

mergeWhereConstraints(cs, w) == cs \cup w

RECURSIVE constrainOrBranch(_, _)
constrainOrBranch(branch, cs) ==
    [where |-> IF branch.where # {} \/ branch.or = {}
               THEN mergeWhereConstraints(cs, branch.where) ELSE {},
     or |-> {constrainOrBranch(b, cs) : b \in branch.or}]

WithoutScopes(extra) == where \cup extra

compileBaseConstraints(extra) == constraints \cup where \cup extra

compilePlan(extra) ==
    LET b == compileBaseConstraints(extra)
    IN  [where |-> IF or = {} THEN b ELSE {},
         or |-> {constrainOrBranch(branch, b) : branch \in or}]

\* where beside branches means "and" at the top of a plan, and "or" in a branch
normalizeMixedOrPlan(p) ==
    IF p.or = {} \/ p.where = {} THEN p
    ELSE [where |-> {}, or |-> {constrainOrBranch(b, p.where) : b \in p.or}]

RECURSIVE assertNonEmptyOrLeaf(_)
assertNonEmptyOrLeaf(branch) ==
    /\ branch.where # {} \/ branch.or # {}
    /\ \A b \in branch.or : assertNonEmptyOrLeaf(b)

sanitizeQueryPlan(p) == normalizeMixedOrPlan(p)

reapplyBaseConstraints(p, b) ==
    IF p.or = {} \/ b = {} THEN p
    ELSE [where |-> {}, or |-> {constrainOrBranch(branch, b) : branch \in p.or}]

reapplyProtectedMeta(meta, original) == IF original = None THEN meta ELSE original

(***************************************************************************)
(* Running the query.                                                      *)
(***************************************************************************)

\* load, first, count and the aggregates, find(id).load, find(id).update: find
\* clones the builder and adds the id to its constraints
Start ==
    /\ phase = "build"
    /\ \E o \in {"load", "find", "count", "update"}, i \in Ids :
         LET extra == IF o \in {"find", "update"} THEN {Entry("id", i)} ELSE {}
         IN  /\ op' = o /\ findId' = i
             /\ plan' = compilePlan(extra) @@ [anc |-> ancestor]
             /\ base' = IF or # {} THEN compileBaseConstraints(extra) ELSE {}
    /\ kept' = ancestor
    /\ phase' = "compiled"
    /\ UNCHANGED <<calls, built, hookSteps, list, result>>

HookChange ==
    /\ phase = "compiled" /\ hookSteps < MaxHookSteps
    /\ hookSteps' = hookSteps + 1
    /\ UNCHANGED <<phase, calls, built, op, findId, base, kept, list, result>>

\* hooks narrow the plan, add branches, flat or nested, replace the branches
\* of a plan that has some, and change the metadata
HookAddsWhere ==
    HookChange /\ \E e \in Entries : plan' = [plan EXCEPT !.where = @ \cup {e}]

HookAddsBranch ==
    /\ HookChange
    /\ \E b \in {Leaf({e}) : e \in Entries}
                \cup {[where |-> {}, or |-> {Leaf({e})}] : e \in Entries}
                \cup {Leaf({}), [where |-> {Entry("a", 0)}, or |-> {Leaf({Entry("b", 1)})}]} :
         plan' = [plan EXCEPT !.or = @ \cup {b}]

HookReplacesBranches ==
    /\ HookChange /\ plan.or # {}
    /\ \E e \in Entries : plan' = [plan EXCEPT !.or = {Leaf({e})}]

HookMovesAncestor ==
    HookChange /\ \E a \in Ancestors \cup {None} : plan' = [plan EXCEPT !.anc = a]

\* sanitizeQueryPlan, reapplyBaseConstraints, reapplyProtectedMeta
Sanitize ==
    /\ phase = "compiled"
    /\ IF \A b \in plan.or : assertNonEmptyOrLeaf(b)
       THEN /\ plan' = reapplyBaseConstraints(
                           sanitizeQueryPlan([where |-> plan.where, or |-> plan.or]), base)
                         @@ [anc |-> reapplyProtectedMeta(plan.anc, kept)]
            /\ phase' = "sanitized"
       ELSE phase' = "failed" /\ UNCHANGED plan
    /\ UNCHANGED <<calls, built, op, findId, base, kept, hookSteps, list, result>>

Selected ==
    {r \in Row : matchesPlan(r, plan) /\ (plan.anc = None \/ r.anc = plan.anc)}

\* store.query, or the store's own aggregate: several rows may share an id only
\* under different ancestors, so a find whose plan names none can be ambiguous
RunStore ==
    /\ phase = "sanitized"
    /\ list' = Selected
    /\ phase' = "loaded"
    /\ UNCHANGED <<calls, built, op, findId, plan, base, kept, hookSteps, result>>

\* afterQuery hooks may drop rows; a row twice, a row that was not loaded and a
\* changed id are refused
sanitizeModelResult(answer, loaded) == ~answer.twice /\ answer.rows \subseteq loaded

AfterQuery ==
    /\ phase = "loaded" /\ op # "count"
    /\ \E answer \in [rows : {list} \cup {{r} : r \in Row}, twice : BOOLEAN] :
         IF /\ sanitizeModelResult(answer, list)
            /\ op # "load" => Cardinality(answer.rows) < 2
         THEN /\ result' = answer.rows
              /\ phase' = IF op = "update" THEN "found" ELSE "done"
         ELSE UNCHANGED result /\ phase' = "failed"
    /\ UNCHANGED <<calls, built, op, findId, plan, base, kept, hookSteps, list>>

\* the store counts, or its query result is counted: an incomplete page is
\* refused
Complete(more) == ~more

AfterAggregate ==
    /\ phase = "loaded" /\ op = "count"
    /\ \E page \in {list} \cup {list \ {r} : r \in list} :
         IF Complete(page # list)
         THEN result' = page /\ phase' = "done"
         ELSE UNCHANGED result /\ phase' = "failed"
    /\ UNCHANGED <<calls, built, op, findId, plan, base, kept, hookSteps, list>>

\* assertDatastoreWriteMatchesScopedAncestor
StaysUnder(row, scope) == scope = None \/ row.anc = scope

\* find(id).update(patch): the patch may set fields and move the row; it may
\* not change the id
Update ==
    /\ phase = "found"
    /\ \/ result = {} /\ phase' = "done" /\ UNCHANGED result
       \/ \E item \in result, patched \in Row :
            IF patched.id = item.id /\ StaysUnder(patched, ancestor)
            THEN result' = {patched} /\ phase' = "done"
            ELSE UNCHANGED result /\ phase' = "failed"
    /\ UNCHANGED <<calls, built, op, findId, plan, base, kept, hookSteps, list>>

Init ==
    /\ phase = "build" /\ calls = 0
    /\ constraints = {} /\ where = {} /\ or = {} /\ ancestor = None
    /\ op = "load" /\ findId = 1
    /\ plan = Leaf({}) @@ [anc |-> None]
    /\ base = {} /\ kept = None /\ hookSteps = 0 /\ list = {} /\ result = {}

Next ==
    \/ Where \/ OrWhere \/ WhereAny \/ Scope \/ Ancestor
    \/ Start
    \/ HookAddsWhere \/ HookAddsBranch \/ HookReplacesBranches \/ HookMovesAncestor
    \/ Sanitize \/ RunStore
    \/ AfterQuery \/ AfterAggregate \/ Update

Spec == Init /\ [][Next]_vars

(***************************************************************************)
(* Properties.                                                             *)
(***************************************************************************)

\* the rows every scope and every where of the builder accepts, under its
\* ancestor
InBase(r) ==
    /\ \A e \in constraints \cup where : compareWhere(r, e)
    /\ op \in {"find", "update"} => r.id = findId
    /\ ancestor = None \/ r.anc = ancestor

\* Without hooks a query selects the rows its builder calls describe: every
\* scope, every where and, if branches were given, one of the branches.
PlanMeansBuilder ==
    (phase \in {"sanitized", "loaded"} /\ hookSteps = 0) =>
        Selected = {r \in Row : InBase(r) /\ (or = {} \/ \E b \in or : matchesPlan(r, b))}

\* Hooks that add conditions, add or replace branches or change the metadata
\* never make a query, a find or an aggregate reach a row outside the scopes,
\* the conditions, the id or the ancestor its caller fixed.
HooksStayInBase ==
    (phase = "done" /\ op # "update") => \A r \in result : InBase(r)

\* An aggregate computed through a query counts every row the plan selects.
CountComplete == (phase = "done" /\ op = "count") => result = Selected

\* find().update() of a query under an ancestor leaves the row under it.
UpdateStaysUnderAncestor ==
    (phase = "done" /\ op = "update" /\ ancestor # None) =>
        \A r \in result : r.anc = ancestor
=============================================================================
