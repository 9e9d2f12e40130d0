----------------------------- MODULE SchemaCommand -----------------------------
(***************************************************************************)
(* `active-ts schema diff | generate | apply`: the command loads the       *)
(* configuration module, finds its context, its models and the function    *)
(* that disposes of the context, has the context plan or apply the schema  *)
(* of every adapter the models are routed to, first the stores and then    *)
(* the search adapters, and cleans up.  Every one of these steps may fail. *)
(*                                                                         *)
(* An adapter is routed to by a number, its place in the order of          *)
(* execution.                                                              *)
(***************************************************************************)
EXTENDS Integers, Sequences, FiniteSets

CONSTANTS Stores,    \* the number of stores the models are routed to
          Searches   \* the number of search adapters

Routes == 1..(Stores + Searches)
IsStore(r) == r <= Stores

SchemaCommandAssumption == Stores \in Nat /\ Searches \in Nat

VARIABLES
    command,  \* "diff" or "apply"; "generate" differs from "diff" in what it prints
    config,   \* what the configuration module exports, see Configs
    adapters, \* how each adapter plans and what it answers, see Adapters
    pc,       \* the step the command is at
    dispose,  \* the cleanup it has found: "none", "named", "default" or "context"
    next,     \* the adapter to execute next
    changed,  \* the adapters whose schema hook was told to apply
    failed,   \* the first step that failed, or "nothing"
    runs,     \* how often a cleanup ran
    reported  \* what the command ends with

vars == <<command, config, adapters, pc, dispose, next, changed, failed, runs, reported>>

\* The named cleanup export; the default export, which may be a promise; its
\* cleanup; the context, if one is exported and is one, with the dispose or close
\* its class adds; whether the models are a list of constructors; whether
\* context.ready and the cleanup itself succeed.
Configs == [named : {"none", "function", "invalid"},
            default : {"object", "rejects"},
            inDefault : {"none", "function", "invalid"},
            context : {"none", "plain", "function", "invalid"},
            models : BOOLEAN, ready : BOOLEAN, cleanup : BOOLEAN]

\* An adapter plans with its schema hook, with the older syncSchema (search only)
\* or not at all; it may have no support for what the models declare, may fail,
\* and may answer with a plan that is refused.
Adapters == [hook : {"schema", "legacy", "none"}, answer : {"plan", "throws", "refused", "unsupported"}]

Init ==
    /\ command \in {"diff", "apply"}
    /\ config \in Configs
    /\ adapters \in [Routes -> Adapters]
    /\ \A r \in Routes : IsStore(r) => adapters[r].hook # "legacy"
    /\ pc = "named" /\ dispose = "none" /\ next = 1 /\ changed = {}
    /\ failed = "nothing" /\ runs = 0 /\ reported = "nothing"

----------------------------------------------------------------------------
\* A step of the try block throws: what was found so far is cleaned up.
Fail == failed' = pc /\ pc' = "cleanup"
Continue(to) == pc' = to /\ UNCHANGED failed

\* The cleanup that is found first wins: named, in the default export, the
\* context's own.
Later(found) == found
Earlier(found) == IF dispose = "none" THEN found ELSE dispose

FindNamed ==
    /\ pc = "named"
    /\ IF config.named = "invalid" THEN Fail ELSE Continue("default")
    /\ dispose' = IF config.named = "function" THEN Earlier("named") ELSE dispose
    /\ UNCHANGED <<command, config, adapters, next, changed, runs, reported>>

\* The default export is awaited; its cleanup is looked at when none is named.
FindDefault ==
    /\ pc = "default"
    /\ IF config.default = "rejects" \/ (dispose = "none" /\ config.inDefault = "invalid")
       THEN Fail /\ UNCHANGED dispose
       ELSE /\ Continue("context")
            /\ dispose' = IF config.inDefault = "function" THEN Earlier("default") ELSE dispose
    /\ UNCHANGED <<command, config, adapters, next, changed, runs, reported>>

\* The context's own dispose is resolved before anything else of it is looked at.
FindContext ==
    /\ pc = "context"
    /\ dispose' = IF config.context = "function" THEN Earlier("context") ELSE dispose
    /\ IF config.context = "invalid" /\ dispose = "none" THEN Fail ELSE Continue("config")
    /\ UNCHANGED <<command, config, adapters, next, changed, runs, reported>>

CheckConfig ==
    /\ pc = "config"
    /\ IF config.context # "none" /\ config.models THEN Continue("ready") ELSE Fail
    /\ UNCHANGED <<command, config, adapters, dispose, next, changed, runs, reported>>

Ready ==
    /\ pc = "ready"
    /\ IF config.ready THEN Continue("groups") ELSE Fail
    /\ UNCHANGED <<command, config, adapters, dispose, next, changed, runs, reported>>

----------------------------------------------------------------------------
(* executeSchemaGroups. *)

\* A search adapter's syncSchema has no plan without effect: a diff lists its
\* indexes as manual work instead.
HasHook(r) == adapters[r].hook = "schema" \/ (adapters[r].hook = "legacy" /\ command = "apply")

\* A store that cannot hold the declared unique indexes is refused before its hook
\* is called; whether a search adapter can index is seen from its plan, as is
\* everything the plan itself gets wrong.
RefusedBefore(r) == IsStore(r) /\ adapters[r].answer = "unsupported"

\* A manual plan is the context's own and is well formed; it too is refused by a
\* search adapter that cannot index.
Refused(r) ==
    \/ adapters[r].answer = "unsupported"
    \/ HasHook(r) /\ adapters[r].answer \in {"throws", "refused"}

\* The hook runs before its plan is looked at, so a plan refused is a schema applied.
Execute ==
    /\ pc = "groups" /\ next \in Routes
    /\ changed' = IF HasHook(next) /\ ~RefusedBefore(next) /\ (command = "apply" \/ adapters[next].hook = "legacy")
                  THEN changed \cup {next} ELSE changed
    /\ IF Refused(next) THEN Fail /\ UNCHANGED next
       ELSE next' = next + 1 /\ Continue("groups")
    /\ UNCHANGED <<command, config, adapters, dispose, runs, reported>>

Printed ==
    /\ pc = "groups" /\ next \notin Routes
    /\ Continue("cleanup")
    /\ UNCHANGED <<command, config, adapters, dispose, next, changed, runs, reported>>

----------------------------------------------------------------------------
\* The cleanup fails: after a failed command that is only printed.
FirstError == IF failed # "nothing" THEN failed ELSE "cleanup"

Cleanup ==
    /\ pc = "cleanup"
    /\ runs' = IF dispose = "none" THEN runs ELSE runs + 1
    /\ reported' = IF dispose # "none" /\ ~config.cleanup THEN FirstError
                   ELSE IF failed # "nothing" THEN failed ELSE "success"
    /\ pc' = "exit"
    /\ UNCHANGED <<command, config, adapters, dispose, next, changed, failed>>

Exit == pc = "exit" /\ UNCHANGED vars

Next ==
    \/ FindNamed \/ FindDefault \/ FindContext \/ CheckConfig \/ Ready
    \/ Execute \/ Printed \/ Cleanup \/ Exit

Spec == Init /\ [][Next]_vars

----------------------------------------------------------------------------
\* A context the command has laid hands on is disposed of exactly once, by the
\* cleanup the configuration names, or else the default export's, or else its own,
\* whichever step fails: the process would otherwise hang on its open connections.
DisposedOnce ==
    pc = "exit" =>
        /\ runs <= 1
        /\ config.context = "function" /\ failed \notin {"named", "default"} => runs = 1
        /\ config.named = "function" => runs = 1 /\ dispose = "named"
        /\ config.named = "none" /\ config.inDefault = "function" /\ failed # "default" =>
              runs = 1 /\ dispose = "default"

\* What ended the command is what it reports: a cleanup that fails afterwards does
\* not hide it, and a failed cleanup is not reported as success.
CauseReported ==
    pc = "exit" =>
        /\ failed # "nothing" => reported = failed
        /\ reported = "success" => runs = 0 \/ config.cleanup

\* A diff is without effect, on adapters of every kind.
DiffChangesNothing == command = "diff" => changed = {}

\* The stores come first: an adapter is only told to apply when all before it
\* were executed without an error, so a failure leaves a prefix of the work done
\* and running the command again goes on from there.
PrefixApplied ==
    \A r \in changed : \A q \in 1..(r - 1) :
        q \in changed \/ (adapters[q].hook = "none" /\ adapters[q].answer # "unsupported")
=============================================================================
