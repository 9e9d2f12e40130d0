-------------------------- MODULE ContextTransaction --------------------------
(* ActiveContext.transaction and transactionResult (src/src/core/context.ts): *)
(* what becomes of the deferred tasks, cache invalidations and tracked models *)
(* of a root transaction and of the savepoints inside it, when the store runs *)
(* the callback again, when a savepoint is released, rolled back or left      *)
(* unconfirmed, and when the answer to the commit is lost.                    *)
(*                                                                            *)
(* stack[1] is the TransactionState of the current attempt, stack[d+1] that of *)
(* a savepoint opened inside stack[d].  A task is a pair <<attempt, t>>, so a *)
(* callback that runs again registers new tasks.  The g-fields record what the *)
(* store really holds: they are observers, no guard reads them.               *)
EXTENDS Integers, Sequences, FiniteSets

CONSTANTS Keys,         \* entity cache keys
          Tasks,        \* names of deferred tasks
          Models,       \* model instances alive before the transaction
          MaxAttempts,  \* bound: runs of the callback by the store
          MaxDepth      \* bound: the transaction and its nested savepoints

TransactionAssumption == MaxAttempts \in Nat /\ MaxDepth \in Nat \ {0}

VARIABLES stack,      \* open TransactionStates, outermost first
          attempt,    \* attempts started
          inval,      \* per depth: cacheInvalidations, key -> task id
          poisoned,   \* the store will not commit (an unconfirmed savepoint)
          bound,      \* per model: Root, Stale or the depth whose context it has
          ran,        \* bag of deferred tasks that ran, by kind
          evicted,    \* keys invalidated after the store decided
          durable,    \* what the store committed: keys and tasks
          lost,       \* models whose changes were undone or are in doubt
          phase,      \* "idle", "running" or "ended"
          truth,      \* what the store did: "none", "committed", "rolledback"
          obs         \* TransactionResultObservation.outcome

vars == <<stack, attempt, inval, poisoned, bound, ran, evicted, durable, lost,
          phase, truth, obs>>

TaskIds == (1..MaxAttempts) \X Tasks
Depths  == 1..MaxDepth
top     == Len(stack)
Root    == 0     \* bound to the root context
Stale   == -1    \* bound to a closed context: every use is refused

State == [cb        : {"open", "finished", "failed"},
          commitT   : SUBSET TaskIds,    \* afterCommit
          rollbackT : SUBSET TaskIds,    \* afterRollback
          internal  : SUBSET (Keys \X Nat), \* invalidations in internalAfterCommit
          models    : SUBSET Models,     \* modelInstances
          dirty     : SUBSET Keys,       \* dirtyCacheKeys
          rbOnly    : BOOLEAN,           \* rollbackOnlyError is set
          gKeys     : SUBSET Keys,       \* written in this scope and not undone
          gTasks    : SUBSET TaskIds,    \* registered for work not undone
          gModels   : SUBSET Models]     \* changed in this scope

Fresh(dirty) == [cb |-> "open", commitT |-> {}, rollbackT |-> {}, internal |-> {},
                 models |-> {}, dirty |-> dirty, rbOnly |-> FALSE,
                 gKeys |-> {}, gTasks |-> {}, gModels |-> {}]

Init == /\ stack = << >> /\ attempt = 0
        /\ inval = [d \in Depths |-> {}]
        /\ poisoned = FALSE
        /\ bound = [m \in Models |-> Root]
        /\ ran = [x \in TaskIds |-> [commit |-> 0, rollback |-> 0]]
        /\ evicted = {} /\ durable = [keys |-> {}, tasks |-> {}]
        /\ lost = {}
        /\ phase = "idle" /\ truth = "none" /\ obs = "not_committed"

-----------------------------------------------------------------------------
(* Helpers.                                                                   *)

RunTasks(kind, tasks) ==
    ran' = [x \in TaskIds |->
              IF x \notin tasks THEN ran[x]
              ELSE IF kind = "commit" THEN [ran[x] EXCEPT !.commit = @ + 1]
              ELSE [ran[x] EXCEPT !.rollback = @ + 1]]

InvalidatedKeys(pairs) == {p[1] : p \in pairs}

(* markClosedTransactionModelInstances: tracked models that have the context  *)
(* of an enclosing scope or of the root get the closed one.  Those that have  *)
(* the context of the scope itself are stale with it.                         *)
MarkClosed(d, tracked) ==
    [m \in Models |-> IF bound[m] = d \/ m \in tracked THEN Stale ELSE bound[m]]

(* rebindTransactionModels: models of the scope follow it to the enclosing    *)
(* context.                                                                   *)
Rebind(d, target) == [m \in Models |-> IF bound[m] = d THEN target ELSE bound[m]]

-----------------------------------------------------------------------------
(* The callback's own operations, in any open scope.                          *)

Open(d) == d \in 1..top /\ stack[d].cb = "open"

(* context.invalidate inside a transaction: deferred once per key and scope.  *)
Invalidated(d, k) ==
    IF k \in InvalidatedKeys(inval[d])
    THEN stack[d].internal
    ELSE stack[d].internal \cup {<<k, attempt * MaxDepth + d>>}

Invalidate(d, k) ==
    /\ phase = "running" /\ Open(d)
    /\ stack' = [stack EXCEPT ![d].dirty = @ \cup {k}, ![d].internal = Invalidated(d, k)]
    /\ inval' = [inval EXCEPT ![d] = IF k \in InvalidatedKeys(@) THEN @
                                     ELSE @ \cup {<<k, attempt * MaxDepth + d>>}]
    /\ UNCHANGED <<attempt, poisoned, bound, ran, evicted, durable, lost, phase, truth, obs>>

(* A write through the transaction's store, with its invalidation and the     *)
(* model it came from.  The savepoint gate lets only the innermost scope      *)
(* reach the store.                                                           *)
Write(d, k, m) ==
    /\ phase = "running" /\ Open(d) /\ d = top
    /\ bound[m] # Stale
    /\ stack' = [stack EXCEPT ![d].dirty = @ \cup {k}, ![d].internal = Invalidated(d, k),
                              ![d].models = @ \cup {m},
                              ![d].gKeys = @ \cup {k}, ![d].gModels = @ \cup {m}]
    /\ inval' = [inval EXCEPT ![d] = IF k \in InvalidatedKeys(@) THEN @
                                     ELSE @ \cup {<<k, attempt * MaxDepth + d>>}]
    /\ UNCHANGED <<attempt, poisoned, bound, ran, evicted, durable, lost, phase, truth, obs>>

(* afterCommit and afterRollback.                                             *)
Register(d, t) ==
    LET x == <<attempt, t>>
    IN  /\ phase = "running" /\ Open(d)
        /\ \A e \in 1..top : x \notin stack[e].rollbackT
        /\ ran[x] = [commit |-> 0, rollback |-> 0]
        /\ stack' = [stack EXCEPT ![d].commitT = @ \cup {x}, ![d].rollbackT = @ \cup {x},
                                  ![d].gTasks = @ \cup {x}]
        /\ UNCHANGED <<attempt, inval, poisoned, bound, ran, evicted, durable, lost,
                       phase, truth, obs>>

(* A model loaded or created in the innermost scope takes its context.        *)
Load(d, m) ==
    /\ phase = "running" /\ Open(d) /\ d = top
    /\ bound[m] = Root
    /\ bound' = [bound EXCEPT ![m] = d]
    /\ stack' = [stack EXCEPT ![d].models = @ \cup {m}]
    /\ UNCHANGED <<attempt, inval, poisoned, ran, evicted, durable, lost, phase, truth, obs>>

(* The callback of a scope returns or throws; open savepoints inside it go on *)
(* and are waited for (waitForContextOperations).                             *)
FinishBody(d, how) ==
    /\ phase = "running" /\ Open(d)
    /\ stack' = [stack EXCEPT ![d].cb = how]
    /\ UNCHANGED <<attempt, inval, poisoned, bound, ran, evicted, durable, lost,
                   phase, truth, obs>>

MarkRollbackOnly(d) ==
    /\ phase = "running" /\ Open(d) /\ ~stack[d].rbOnly
    /\ stack' = [stack EXCEPT ![d].rbOnly = TRUE]
    /\ UNCHANGED <<attempt, inval, poisoned, bound, ran, evicted, durable, lost,
                   phase, truth, obs>>

-----------------------------------------------------------------------------
(* Savepoints (join: 'savepoint').                                            *)

SavepointState(p) == Fresh(p.dirty)

OpenSavepoint ==
    /\ phase = "running" /\ top > 0 /\ top < MaxDepth /\ Open(top)
    /\ stack' = Append(stack, SavepointState(stack[top]))
    /\ inval' = [inval EXCEPT ![top + 1] = {}]
    /\ UNCHANGED <<attempt, poisoned, bound, ran, evicted, durable, lost, phase, truth, obs>>

(* The child's invalidations whose key the parent does not invalidate yet.    *)
Accepted(d) == {p \in inval[d] : p[1] \notin InvalidatedKeys(inval[d - 1])}

(* What passes from a savepoint's state c to its parent p however it ended,   *)
(* unless it is known to be undone.                                           *)
Carry(p, c) ==
    [p EXCEPT !.rollbackT = @ \cup c.rollbackT, !.models = @ \cup c.models,
              !.dirty = @ \cup c.dirty,
              !.gKeys = @ \cup c.gKeys, !.gTasks = @ \cup c.gTasks,
              !.gModels = @ \cup c.gModels]

(* A released savepoint also hands over its commit tasks and its internal     *)
(* ones, less the invalidations the parent has already.                       *)
Inherit(p, c, dropped) ==
    [Carry(p, c) EXCEPT !.internal = @ \cup (c.internal \ dropped),
                        !.commitT = @ \cup c.commitT]

Pop == SubSeq(stack, 1, top - 1)

(* The callback finished and the store released the savepoint.                *)
Release ==
    LET d == top  c == stack[top]
    IN  /\ phase = "running" /\ d > 1 /\ c.cb = "finished" /\ ~c.rbOnly
        /\ inval' = [inval EXCEPT ![d - 1] = @ \cup Accepted(d), ![d] = {}]
        /\ stack' = [Pop EXCEPT ![d - 1] = Inherit(@, c, inval[d] \ Accepted(d))]
        /\ bound' = Rebind(d, d - 1)
        /\ UNCHANGED <<attempt, poisoned, ran, evicted, durable, lost, phase, truth, obs>>

(* The store rolled the savepoint back (the callback failed, or the release   *)
(* did): its tasks are dropped, its rollback tasks run, its models go stale.  *)
RollbackSavepoint ==
    LET d == top  c == stack[top]
    IN  /\ phase = "running" /\ d > 1 /\ c.cb # "open"
        /\ stack' = Pop
        /\ inval' = [inval EXCEPT ![d] = {}]
        /\ RunTasks("rollback", c.rollbackT)
        /\ bound' = MarkClosed(d, c.models)
        /\ lost' = lost \cup c.gModels
        /\ UNCHANGED <<attempt, poisoned, evicted, durable, phase, truth, obs>>

(* The rollback is not confirmed: the adapter broke the savepoint protocol    *)
(* (every enclosing state becomes rollback-only) or could not roll back (the  *)
(* store is poisoned).  Its writes may be there: their cache keys, models and *)
(* rollback tasks pass to the parent, its commit tasks do not.                *)
SavepointUnconfirmed(malformed) ==
    LET d == top  c == stack[top]
    IN  /\ phase = "running" /\ d > 1 /\ c.cb # "open"
        /\ poisoned' = (poisoned \/ ~malformed)
        /\ inval' = [inval EXCEPT ![d - 1] = @ \cup Accepted(d), ![d] = {}]
        /\ stack' = [e \in 1..(d - 1) |->
             LET s == IF e = d - 1 THEN Carry(stack[e], c) ELSE stack[e]
             IN  [s EXCEPT !.rbOnly = @ \/ malformed]]
        /\ bound' = Rebind(d, Stale)
        /\ UNCHANGED <<attempt, ran, evicted, durable, lost, phase, truth, obs>>

-----------------------------------------------------------------------------
(* The root transaction.                                                      *)

(* Mutant: the rollback tasks of the last attempt stay registered.            *)
NextAttemptKeeping == IF top = 0 THEN Fresh({})
                      ELSE [Fresh({}) EXCEPT !.rollbackT = stack[1].rollbackT]

NextAttempt == Fresh({})

(* The store runs the callback.  A second run means it undid the first one:   *)
(* the rollback tasks of that attempt run, its state is dropped.              *)
RunCallback ==
    /\ \/ phase = "idle"
       \/ phase = "running" /\ top = 1 /\ stack[1].cb # "open"
    /\ attempt < MaxAttempts
    /\ attempt' = attempt + 1
    /\ phase' = "running" /\ obs' = "unknown"
    /\ stack' = << NextAttempt >>
    /\ inval' = [d \in Depths |-> {}]
    /\ poisoned' = FALSE
    /\ bound' = IF top = 0 THEN bound ELSE Rebind(1, Stale)
    /\ IF top = 0 THEN UNCHANGED ran ELSE RunTasks("rollback", stack[1].rollbackT)
    /\ lost' = {}
    /\ UNCHANGED <<evicted, durable, truth>>

CallbackOk == top = 1 /\ stack[1].cb = "finished" /\ ~stack[1].rbOnly

Durable == [keys |-> stack[1].gKeys, tasks |-> stack[1].gTasks]

(* The commit is known, with or without an error after it: invalidations and  *)
(* afterCommit tasks run, models move to the root context.                    *)
Committed ==
    /\ phase = "running" /\ CallbackOk /\ ~poisoned
    /\ truth' = "committed" /\ durable' = Durable
    /\ obs' = "committed"
    /\ evicted' = evicted \cup InvalidatedKeys(stack[1].internal)
    /\ RunTasks("commit", stack[1].commitT)
    /\ bound' = Rebind(1, Root)
    /\ phase' = "ended" /\ stack' = << >>
    /\ UNCHANGED <<attempt, inval, poisoned, lost>>

(* Mutant: an unknown outcome evicts nothing.                                 *)
ErrorEvictionsNone(confirmed) == {}

(* What an error of the store's transaction means: only a confirmed rollback  *)
(* is reported as one and runs the rollback tasks; without one the keys of    *)
(* cacheInvalidations are evicted.                                            *)
Report(confirmed) == IF confirmed THEN "not_committed" ELSE "unknown"
ErrorTasks(confirmed) == IF confirmed THEN stack[1].rollbackT ELSE {}
ErrorEvictions(confirmed) == IF confirmed THEN {} ELSE InvalidatedKeys(inval[1])

(* The store's transaction rejects.  Without a confirmed rollback it may have *)
(* committed a callback that succeeded (c).  Models go stale.                 *)
StoreFails(confirmed, c) ==
    /\ phase = "running" /\ top = 1 /\ stack[1].cb # "open"
    /\ c => ~confirmed /\ CallbackOk /\ ~poisoned
    /\ truth' = IF c THEN "committed" ELSE "rolledback"
    /\ durable' = IF c THEN Durable ELSE durable
    /\ obs' = Report(confirmed)
    /\ RunTasks("rollback", ErrorTasks(confirmed))
    /\ evicted' = evicted \cup ErrorEvictions(confirmed)
    /\ bound' = MarkClosed(1, stack[1].models)
    /\ lost' = lost \cup stack[1].gModels
    /\ phase' = "ended" /\ stack' = << >>
    /\ UNCHANGED <<attempt, inval, poisoned>>

(* It rejects, or completes, without ever running the callback.               *)
NeverRun(confirmed) ==
    /\ phase = "idle"
    /\ phase' = "ended" /\ truth' = "rolledback"
    /\ obs' = Report(confirmed)
    /\ UNCHANGED <<stack, attempt, inval, poisoned, bound, ran, evicted, durable, lost>>

-----------------------------------------------------------------------------
Next ==
    \/ \E d \in Depths, k \in Keys : Invalidate(d, k) \/ (\E m \in Models : Write(d, k, m))
    \/ \E d \in Depths : \/ \E t \in Tasks : Register(d, t)
                         \/ \E m \in Models : Load(d, m)
                         \/ \E how \in {"finished", "failed"} : FinishBody(d, how)
                         \/ MarkRollbackOnly(d)
    \/ OpenSavepoint \/ Release \/ RollbackSavepoint
    \/ \E malformed \in BOOLEAN : SavepointUnconfirmed(malformed)
    \/ RunCallback \/ Committed
    \/ \E confirmed, c \in BOOLEAN : StoreFails(confirmed, c)
    \/ \E confirmed \in BOOLEAN : NeverRun(confirmed)

Spec == Init /\ [][Next]_vars

-----------------------------------------------------------------------------
(* Types, and: a state's deferred invalidations are exactly the ones its      *)
(* cacheInvalidations map knows, unless a savepoint was left unconfirmed.     *)
TypeOK ==
    /\ stack \in Seq(State) /\ top <= MaxDepth
    /\ attempt \in 0..MaxAttempts
    /\ inval \in [Depths -> SUBSET (Keys \X Nat)]
    /\ bound \in [Models -> {Root, Stale} \cup Depths]
    /\ \A m \in Models : bound[m] \in Depths => bound[m] <= top
    /\ \A d \in 1..top : /\ stack[d].internal \subseteq inval[d]
                         /\ ~poisoned /\ ~stack[d].rbOnly => stack[d].internal = inval[d]
    /\ phase \in {"idle", "running", "ended"}

(* afterCommit tasks run only for work the store kept, afterRollback tasks    *)
(* only for work it undid, each at most once and never both, over every retry *)
(* and nesting.                                                               *)
TasksFollowOutcome ==
    \A x \in TaskIds :
        /\ ran[x].commit + ran[x].rollback <= 1
        /\ ran[x].commit = 1 => truth = "committed" /\ x \in durable.tasks
        /\ ran[x].rollback = 1 => x \notin durable.tasks

(* When the outcome is known, no task is forgotten.                           *)
NoTaskForgotten ==
    phase = "ended" /\ obs = "committed" =>
        \A x \in durable.tasks : ran[x].commit = 1

(* Every key whose new row the store holds was invalidated after the decision, *)
(* even when nobody knows what the decision was.                              *)
CommittedKeysEvicted == phase = "ended" => durable.keys \subseteq evicted

(* A model that can still be used carries no change that was undone or is in  *)
(* doubt.                                                                     *)
UsableModelsKept == \A m \in lost : bound[m] = Stale

(* What transactionResult reports is what the store did.                      *)
ResultTruthful ==
    phase = "ended" => /\ obs = "committed" => truth = "committed"
                       /\ obs = "not_committed" => truth = "rolledback"

(* While a key was changed inside the transaction, no read of the same scope  *)
(* or of one inside it may use the shared cache: the dirty set never forgets  *)
(* a key that the scope still holds.                                          *)
DirtyKeysCovered == \A d, e \in 1..top : d <= e /\ stack[e].cb = "open" /\ e = top =>
                        stack[d].gKeys \subseteq stack[e].dirty
=============================================================================
