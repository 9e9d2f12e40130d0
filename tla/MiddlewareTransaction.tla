------------------------ MODULE MiddlewareTransaction ------------------------
(***************************************************************************)
(* A transaction through a store adapter with middleware and a request      *)
(* budget (createStoreMiddlewareTransaction, createStoreExecutionBudget-    *)
(* Adapter).  The wrapped store runs the callback, again when it meets a    *)
(* conflict; each attempt gets a guarded adapter of its own.  The callback  *)
(* starts operations it may not wait for, and may keep the adapter after it *)
(* has returned.                                                            *)
(***************************************************************************)
EXTENDS Naturals, FiniteSets

CONSTANTS
    Ops,          \* operations the callback may start, at most one each per attempt
    MaxAttempts   \* bound: attempts of the wrapped store

MiddlewareTransactionAssumption == IsFiniteSet(Ops) /\ MaxAttempts \in Nat \ {0}

Attempts == 1 .. MaxAttempts

VARIABLES
    attempt,    \* the attempt under way, 0 before the first
    closed,     \* per attempt, whether its guarded adapter refuses new work
    state,      \* per attempt: "none", "callback", "waiting", "throwing", "returned", "failed"
    op,         \* per attempt and operation: "none", "layers", "flying", "ok", "failed", "refused"
    caught,     \* per attempt and operation: whether the callback handled its failure
    staged,     \* per attempt: operations the store has applied
    active,     \* budget: not aborted and before its deadline
    outcome,    \* "open", "committed", "rolledBack"
    committed   \* operations whose effect is in the store

vars == <<attempt, closed, state, op, caught, staged, active, outcome, committed>>

Init ==
    /\ attempt = 0 /\ closed = [a \in Attempts |-> FALSE] /\ state = [a \in Attempts |-> "none"]
    /\ op = [a \in Attempts |-> [o \in Ops |-> "none"]]
    /\ caught = [a \in Attempts |-> [o \in Ops |-> FALSE]]
    /\ staged = [a \in Attempts |-> {}]
    /\ active = TRUE /\ outcome = "open" /\ committed = {}

BudgetActive(a) == a

\* the store calls the callback: the budget is checked first
Attempt ==
    /\ outcome = "open" /\ attempt < MaxAttempts
    /\ attempt # 0 => state[attempt] = "returned"       \* a failed callback is not run again
    /\ attempt' = attempt + 1
    /\ state' = [state EXCEPT ![attempt + 1] = IF BudgetActive(active) THEN "callback" ELSE "failed"]
    /\ closed' = [closed EXCEPT ![attempt + 1] = ~BudgetActive(active)]
    /\ UNCHANGED <<op, caught, staged, active, outcome, committed>>

\* an operation of the guarded adapter, from the callback or from something
\* that outlives it: refused once the attempt is closed or the budget ended
GuardOpen(a) == ~closed[a]

Start(a, o) ==
    /\ state[a] # "none" /\ op[a][o] = "none"
    /\ op' = [op EXCEPT ![a][o] = IF GuardOpen(a) /\ BudgetActive(active) THEN "layers" ELSE "refused"]
    /\ UNCHANGED <<attempt, closed, state, caught, staged, active, outcome, committed>>

\* dispatch: the budget is checked again when the layers reach the store
Dispatch(a, o) ==
    /\ op[a][o] = "layers"
    /\ op' = [op EXCEPT ![a][o] = IF BudgetActive(active) THEN "flying" ELSE "failed"]
    /\ UNCHANGED <<attempt, closed, state, caught, staged, active, outcome, committed>>

Answer(a, o) ==
    /\ op[a][o] = "flying"
    /\ \/ op' = [op EXCEPT ![a][o] = "ok"] /\ staged' = [staged EXCEPT ![a] = @ \cup {o}]
       \/ op' = [op EXCEPT ![a][o] = "failed"] /\ UNCHANGED staged
    /\ UNCHANGED <<attempt, closed, state, caught, active, outcome, committed>>

\* the callback handles the failure of an operation it waited for
Catch(a, o) ==
    /\ state[a] = "callback" /\ op[a][o] = "failed" /\ ~caught[a][o]
    /\ caught' = [caught EXCEPT ![a][o] = TRUE]
    /\ UNCHANGED <<attempt, closed, state, op, staged, active, outcome, committed>>

Pending(a) == {o \in Ops : op[a][o] \in {"layers", "flying"}}
NoWait(a) == {}
WaitedFor(a) == Pending(a)
Unhandled(a) == \E o \in Ops : op[a][o] = "failed" /\ ~caught[a][o]

\* the callback returns: nothing new is let in from here on
CallbackReturns ==
    /\ attempt # 0 /\ state[attempt] = "callback"
    /\ closed' = [closed EXCEPT ![attempt] = TRUE]
    /\ state' = [state EXCEPT ![attempt] = "waiting"]
    /\ UNCHANGED <<attempt, op, caught, staged, active, outcome, committed>>

\* the callback throws: what it started is waited for, its failures are not
\* reported, and the error goes to the store
LeftOpen(c) == c
ClosedForRollback(c) == TRUE

CallbackThrows ==
    /\ attempt # 0 /\ state[attempt] = "callback"
    /\ closed' = [closed EXCEPT ![attempt] = ClosedForRollback(@)]
    /\ state' = [state EXCEPT ![attempt] = "throwing"]
    /\ UNCHANGED <<attempt, op, caught, staged, active, outcome, committed>>

\* waitForPendingOperations, then the budget once more
Waited ==
    /\ attempt # 0 /\ state[attempt] \in {"waiting", "throwing"} /\ WaitedFor(attempt) = {}
    /\ state' = [state EXCEPT ![attempt] =
                   IF state[attempt] = "waiting" /\ ~Unhandled(attempt) /\ BudgetActive(active)
                   THEN "returned" ELSE "failed"]
    /\ UNCHANGED <<attempt, closed, op, caught, staged, active, outcome, committed>>

\* the wrapped store commits what the attempt staged, or gives up
Commit ==
    /\ attempt # 0 /\ outcome = "open" /\ state[attempt] = "returned"
    /\ outcome' = "committed" /\ committed' = staged[attempt]
    /\ UNCHANGED <<attempt, closed, state, op, caught, staged, active>>

Rollback ==
    /\ attempt # 0 /\ outcome = "open" /\ state[attempt] \in {"returned", "failed"}
    /\ outcome' = "rolledBack"
    /\ UNCHANGED <<attempt, closed, state, op, caught, staged, active, committed>>

BudgetEnds ==
    /\ active /\ active' = FALSE
    /\ UNCHANGED <<attempt, closed, state, op, caught, staged, outcome, committed>>

Done == outcome # "open" /\ UNCHANGED vars

Next ==
    \/ Attempt \/ CallbackReturns \/ CallbackThrows \/ Waited \/ Commit \/ Rollback
    \/ BudgetEnds \/ Done
    \/ \E a \in Attempts, o \in Ops : Start(a, o) \/ Dispatch(a, o) \/ Answer(a, o) \/ Catch(a, o)

Spec == Init /\ [][Next]_vars

(***************************************************************************)
(* Properties.                                                             *)
(***************************************************************************)

\* A commit holds every operation the attempt let in, except those whose
\* failure the callback handled: none is still on its way when the store
\* commits, and none fails unseen.
CommitComplete ==
    outcome = "committed" =>
        \A o \in Ops : op[attempt][o] \notin {"none", "refused"} =>
            o \in committed \/ (op[attempt][o] = "failed" /\ caught[attempt][o])

\* The store applies nothing for an attempt that is over: neither a callback's
\* leftovers nor an earlier attempt reach it.
NothingAfterAttempt ==
    \A a \in Attempts :
      (state[a] \in {"returned", "failed"} \/ outcome # "open") => staged'[a] = staged[a]

\* A budget that ended while operations were pending ends the transaction: an
\* attempt that returned to the store had its budget when the last one settled.
ExpiredAttemptFails ==
    \A a \in Attempts : state[a] \in {"waiting", "callback"} /\ state'[a] = "returned" => active
=============================================================================
