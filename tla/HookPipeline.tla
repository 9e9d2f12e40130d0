---------------------------- MODULE HookPipeline ----------------------------
(***************************************************************************)
(* Lifecycle hooks (hooks.ts, ActiveContext.runHooks) and the soft-delete   *)
(* plugin built on them (soft-delete.ts).                                   *)
(*                                                                         *)
(* One call of runHooks collects the hooks of the plugins and of the model, *)
(* orders them and runs them: one after the other on a shared payload, or,  *)
(* for afterStoreWrite, all at once on copies of it.  A hook may change the *)
(* payload in place, return keys to merge into it, fail, or do nothing; the *)
(* model lets every hook that is not the library's own choose among these.  *)
(* A query plan is a tree: a row matches it through `where' or through one  *)
(* of the branches of `or'.  Rows carry a soft-delete field that is a time  *)
(* stamp, null, or missing (the row is older than the plugin).              *)
(***************************************************************************)
EXTENDS Naturals, Sequences, FiniteSets, SequencesExt

CONSTANTS
    Names,         \* the lifecycle events of this instance
    MaxHooks,      \* bound: hooks of one event
    Materialized   \* SoftDeleteOptions.materializedNulls

HookAssumption == MaxHooks \in Nat \ {0} /\ Materialized \in BOOLEAN

VARIABLES
    rows,     \* the stored rows of the model: [del, a]
    name,     \* the event whose hooks run; "idle" between calls
    hooks,    \* its hooks in running order, each named by where it comes from
    payload,  \* the payload the hooks share: [id, data, plan, meta]
    given,    \* the payload runHooks was called with
    covered,  \* the plugin's models option names the model
    running,  \* the hooks that have started and not settled
    settled,  \* the hooks that have returned or failed
    failed,   \* the hooks that failed
    seen,     \* what each hook saw of the payload when it started
    before,   \* the plan as the last plan guard found it
    outcome   \* "none", "returned", "threw"

vars == <<rows, name, hooks, payload, given, covered, running, settled,
          failed, seen, before, outcome>>

\* soft-delete field of a row, and another field a query may ask about
Row == [del : {"missing", "null", "stamp"}, a : {0, 1}]

(***************************************************************************)
(* Query plans.                                                            *)
(***************************************************************************)

Asks(a) == [field |-> "a", op |-> "=", value |-> a]
DelIs(op) == [field |-> "del", op |-> op, value |-> "null"]

Leaf(where) == [where |-> where, or |-> {}]

\* the plans a query builder or a hook may hand over, nested branches included
Plans == {Leaf({}), Leaf({Asks(0)}),
          [where |-> {Asks(1)}, or |-> {Leaf({Asks(0)})}],
          [where |-> {}, or |-> {Leaf({Asks(0)}), Leaf({DelIs("isNotNull")})}],
          [where |-> {Asks(0)},
           or |-> {[where |-> {}, or |-> {Leaf({Asks(1)}), Leaf({})}]}]}

compareWhere(row, entry) ==
    IF entry.field = "a" THEN row.a = entry.value
    ELSE CASE entry.op = "="         -> row.del = "null"
           [] entry.op = "isNull"    -> row.del \in {"null", "missing"}
           [] entry.op = "isNotNull" -> row.del = "stamp"

RECURSIVE matchesPlan(_, _)
matchesPlan(row, plan) ==
    LET base == \A entry \in plan.where : compareWhere(row, entry)
    IN  IF plan.or = {} THEN base
        ELSE (plan.where # {} /\ base) \/ \E b \in plan.or : matchesPlan(row, b)

(***************************************************************************)
(* The soft-delete plugin.                                                 *)
(***************************************************************************)

Constraint(mode) ==
    DelIs(IF mode = "only" THEN "isNotNull"
          ELSE IF Materialized THEN "=" ELSE "isNull")

\* an entry already there is not repeated: a set
constrainWhere(where, constraint) == where \cup {constraint}

RECURSIVE constrainPlan(_, _)
constrainPlan(plan, constraint) ==
    [where |-> IF plan.where # {} \/ plan.or = {}
               THEN constrainWhere(plan.where, constraint) ELSE plan.where,
     or |-> {constrainPlan(b, constraint) : b \in plan.or}]

\* the plan guard, run by beforeQuery and beforeAggregate
apply(p) ==
    IF ~covered \/ p.meta = "with" THEN p
    ELSE [p EXCEPT !.plan = constrainPlan(@, Constraint(p.meta))]

\* beforeValidate on a create: a field the data lacks is written as null
materializeSoftDeleteNull(row) ==
    IF row.del = "missing" THEN [row EXCEPT !.del = "null"] ELSE row

(***************************************************************************)
(* Ordering the hooks of an event.                                         *)
(***************************************************************************)

IsWrite(n) == n \in {"afterCreate", "afterUpdate", "afterDelete"}
isOutboxWriteHook(n, h) == h = "outbox" /\ IsWrite(n)
isSoftDeletePlanGuardHook(n, h) == h = "guard" /\ n \in {"beforeQuery", "beforeAggregate"}

PluginOrder(n, plugins, modelHooks) == plugins \o modelHooks

GuardBeforeModel(n, plugins, modelHooks) ==
    SelectSeq(plugins, LAMBDA h : isOutboxWriteHook(n, h))
        \o SelectSeq(plugins, LAMBDA h : ~isOutboxWriteHook(n, h))
        \o modelHooks

\* the outbox's write hooks, the other plugins', the model's, the plan guards
HookOrder(n, plugins, modelHooks) ==
    SelectSeq(plugins, LAMBDA h : isOutboxWriteHook(n, h))
        \o SelectSeq(plugins, LAMBDA h : /\ ~isOutboxWriteHook(n, h)
                                         /\ ~isSoftDeletePlanGuardHook(n, h))
        \o modelHooks
        \o SelectSeq(plugins, LAMBDA h : isSoftDeletePlanGuardHook(n, h))

PluginLists == UNION {[1 .. k -> {"outbox", "guard", "plugin"}] : k \in 1 .. (MaxHooks - 1)}

(***************************************************************************)
(* Running them.                                                           *)
(***************************************************************************)

Independent(n) == n = "afterStoreWrite"

\* what a hook that is not the library's may do
Effect == [kind : {"none", "throw", "data", "idInPlace", "idReturned", "meta"},
           plan : {Leaf({})}]
          \cup [kind : {"plan"}, plan : Plans]

\* validateHookPayloadContainer: the immutable keys are what they were
validateHookPayloadContainer(p, immutable) == p.id = immutable

\* mergeHookResult refuses an immutable key with another value before merging
mergeHookResult(p, effect) ==
    CASE effect.kind = "data"       -> [p EXCEPT !.data = "changed"]
      [] effect.kind = "meta"       -> [p EXCEPT !.meta = "with"]
      [] effect.kind = "idInPlace"  -> [p EXCEPT !.id = "other"]
      [] effect.kind = "plan"       -> [p EXCEPT !.plan = effect.plan]
      [] OTHER                      -> p

NoPayload == [id |-> "id", data |-> "written", plan |-> Leaf({}), meta |-> "default"]

\* toHookList, normalizeHookPayloadInput and runHooks up to the first hook
runHooks ==
    /\ name = "idle"
    /\ \E n \in Names, plugins \in PluginLists, m \in {<<>>, <<"model">>},
         plan \in Plans, mode \in {"default", "only", "with"}, c \in BOOLEAN :
         /\ name' = n
         /\ hooks' = HookOrder(n, plugins, m)
         /\ (mode # "default" \/ plan # Leaf({})) => n = "beforeQuery"
         /\ payload' = [NoPayload EXCEPT !.plan = plan, !.meta = mode]
         /\ covered' = c
    /\ given' = payload'
    /\ before' = payload'.plan
    /\ outcome' = "none"
    /\ running' = {} /\ settled' = {} /\ failed' = {}
    /\ seen' = [h \in 1 .. Len(hooks') |-> "unseen"]
    /\ UNCHANGED rows

\* the next hook of a sequential run starts after the previous one settled;
\* an independent run starts all of them
StartHook(h) ==
    /\ name # "idle" /\ outcome = "none"
    /\ h \in 1 .. Len(hooks) \ (running \cup settled)
    /\ Independent(name) \/ (settled = 1 .. (h - 1) /\ running = {} /\ failed = {})
    /\ running' = running \cup {h}
    /\ seen' = [seen EXCEPT ![h] = IF Independent(name) THEN given.data ELSE payload.data]
    /\ UNCHANGED <<rows, name, hooks, payload, given, covered, settled, failed,
                   before, outcome>>

\* the library's own hooks do their work; any other hook does what it likes
HookSettles(h) ==
    /\ h \in running
    /\ running' = running \ {h}
    /\ settled' = settled \cup {h}
    /\ \E effect \in Effect :
         LET guard  == isSoftDeletePlanGuardHook(name, hooks[h])
             work   == IF Independent(name) THEN given ELSE payload
             result == IF guard THEN apply(work) ELSE mergeHookResult(work, effect)
             bad    == \/ ~guard /\ effect.kind \in {"throw", "idReturned"}
                       \/ ~validateHookPayloadContainer(result, given.id)
         IN  /\ hooks[h] \in {"outbox", "guard"} => effect.kind = "none"
             /\ effect.kind \in {"plan", "meta"} => name = "beforeQuery"
             /\ failed' = IF bad THEN failed \cup {h} ELSE failed
             /\ payload' = IF Independent(name) \/ bad THEN payload ELSE result
             /\ before' = IF guard THEN payload.plan ELSE before
    /\ UNCHANGED <<rows, name, hooks, given, covered, seen, outcome>>

\* runHookList returns or rejects: a sequential run at the first failure, an
\* independent one when every hook has settled
Finish ==
    /\ name # "idle" /\ outcome = "none" /\ running = {}
    /\ settled = 1 .. Len(hooks) \/ (~Independent(name) /\ failed # {})
    /\ outcome' = IF failed = {} THEN "returned" ELSE "threw"
    /\ UNCHANGED <<rows, name, hooks, payload, given, covered, running, settled,
                   failed, seen, before>>

Idle ==
    /\ outcome # "none" /\ name # "idle"
    /\ name' = "idle" /\ hooks' = <<>> /\ outcome' = "none"
    /\ payload' = NoPayload /\ given' = NoPayload
    /\ covered' = TRUE /\ before' = Leaf({})
    /\ running' = {} /\ settled' = {} /\ failed' = {} /\ seen' = <<>>
    /\ UNCHANGED rows

\* a create of a covered model runs beforeValidate of the plugin
Create ==
    /\ name = "idle" /\ Cardinality(rows) < 2
    /\ \E row \in Row : rows' = rows \cup {materializeSoftDeleteNull(row)}
    /\ UNCHANGED <<name, hooks, payload, given, covered, running, settled,
                   failed, seen, before, outcome>>

\* softDelete and restore load the row fresh, set the field and save
softDelete(row) == [row EXCEPT !.del = "stamp"]
restore(row) == [row EXCEPT !.del = "null"]

Mark ==
    /\ name = "idle"
    /\ \E row \in rows : rows' = (rows \ {row}) \cup {softDelete(row)}
    /\ UNCHANGED <<name, hooks, payload, given, covered, running, settled,
                   failed, seen, before, outcome>>

Unmark ==
    /\ name = "idle"
    /\ \E row \in rows : rows' = (rows \ {row}) \cup {restore(row)}
    /\ UNCHANGED <<name, hooks, payload, given, covered, running, settled,
                   failed, seen, before, outcome>>

\* rows written before the plugin was installed may lack the field: only the
\* default configuration promises to serve them
Init ==
    /\ rows \in {{}} \cup {{r} : r \in {q \in Row : Materialized => q.del # "missing"}}
    /\ name = "idle" /\ hooks = <<>> /\ outcome = "none"
    /\ payload = NoPayload /\ given = NoPayload /\ covered = TRUE /\ before = Leaf({})
    /\ running = {} /\ settled = {} /\ failed = {} /\ seen = <<>>

Next ==
    \/ runHooks
    \/ \E h \in 1 .. MaxHooks : StartHook(h) \/ HookSettles(h)
    \/ Finish
    \/ Idle
    \/ Create
    \/ Mark
    \/ Unmark

Spec == Init /\ [][Next]_vars

(***************************************************************************)
(* Properties.                                                             *)
(***************************************************************************)

\* what the mode promises to show of the rows
Shown(mode) ==
    {r \in rows : CASE mode = "with" -> TRUE
                    [] mode = "only" -> r.del = "stamp"
                    [] OTHER         -> r.del # "stamp"}

\* However the other plugins and the model rewrote the plan, the plan that
\* leaves beforeQuery of a covered model selects exactly the rows of the plan
\* the guard found that the mode shows: deleted rows are hidden, in every
\* branch, and no live row is lost.
GuardExact ==
    (/\ outcome = "returned" /\ name = "beforeQuery" /\ covered
     /\ \E h \in 1 .. Len(hooks) : hooks[h] = "guard")
        => {r \in rows : matchesPlan(r, payload.plan)}
             = {r \in Shown(payload.meta) : matchesPlan(r, before)}

\* An outbox hook of a write sees the data that was written, whatever other
\* plugins registered before it do to the payload.
OutboxSeesWritten ==
    IsWrite(name) =>
        \A h \in 1 .. Len(hooks) :
            hooks[h] = "outbox" /\ seen[h] # "unseen" => seen[h] = given.data

\* A payload that runHooks returns names the entity it was called with, though
\* hooks hold and may change the very object.
EntityKept == outcome = "returned" => payload.id = given.id

\* When runHooks of afterStoreWrite ends, every hook has run to its end and saw
\* the payload runHooks was given: the failure of one keeps no other from
\* running, and none builds on another's change.
IndependentHooksAllRun ==
    (outcome # "none" /\ name = "afterStoreWrite") =>
        \A h \in 1 .. Len(hooks) : h \in settled /\ seen[h] = given.data
=============================================================================
