--------------------------- MODULE MiddlewareWrite ---------------------------
(***************************************************************************)
(* A store write, cache mutation or search mutation through an adapter with *)
(* middleware (adapter-middleware.ts).  Each layer is application code: it  *)
(* may call next() never, once or several times, wait for it or not, go on  *)
(* after it has settled, and fail or swallow what next() threw.             *)
(* runRequiredMutationMiddleware stands around the layers and the adapter.  *)
(*                                                                         *)
(* A frame is one invocation of a layer; the outermost layer has one, an    *)
(* inner layer one for every next() of the layer around it.                 *)
(***************************************************************************)
EXTENDS Naturals, Sequences

CONSTANTS
    NumLayers,   \* layers of the adapter
    MaxFrames    \* bound: invocations of layers

MiddlewareWriteAssumption == NumLayers \in Nat \ {0} /\ MaxFrames \in Nat \ {0}

VARIABLES
    input,          \* what was asked to be written: "entries", "empty", "invalid"
    frames,         \* the invocations, each [layer, status, calls]
    acceptingNext,
    leafCalls,
    leaf,           \* the adapter's call: "none", "flying", "ok", "failed"
    dispatched,     \* history: calls that reached the adapter
    dispatching,    \* budget: whether the request may still dispatch
    duplicateNextError,
    lateNextError,
    phase,          \* "called", "layers", "leaf", "settled"
    outcome         \* what the caller was told: "none", "ok", "error"

vars == <<input, frames, acceptingNext, leafCalls, leaf, dispatched, dispatching,
          duplicateNextError, lateNextError, phase, outcome>>

Running(layer) == [layer |-> layer, status |-> "running", calls |-> 0]
Outer == frames[1]

Init ==
    /\ input \in {"entries", "empty", "invalid"}
    /\ frames = <<>> /\ acceptingNext = TRUE /\ leafCalls = 0 /\ leaf = "none"
    /\ dispatched = 0 /\ dispatching \in BOOLEAN
    /\ duplicateNextError = FALSE /\ lateNextError = FALSE
    /\ phase = "called" /\ outcome = "none"

(***************************************************************************)
(* The adapter's operations check and copy their input, then run the layers *)
(***************************************************************************)

Enter ==
    /\ phase' = "layers" /\ frames' = <<Running(1)>> /\ UNCHANGED outcome

Refuse == phase' = "settled" /\ outcome' = "error" /\ UNCHANGED frames

\* create, update and delete of a store: the id and the data must agree, and a
\* Datastore model needs its ancestor; the budget is checked on entry too
StoreWrite ==
    /\ phase = "called" /\ input # "empty"
    /\ IF input = "invalid" \/ ~dispatching THEN Refuse ELSE Enter
    /\ UNCHANGED <<input, acceptingNext, leafCalls, leaf, dispatched, dispatching,
                   duplicateNextError, lateNextError>>

\* setMany, deleteMany, setManyVersioned and invalidateMany of a cache: duplicate
\* keys are refused, and nothing to do is done at once; caches have no budget
CacheMutation ==
    /\ phase = "called"
    /\ dispatching' = TRUE
    /\ CASE input = "invalid" -> Refuse
         [] input = "empty" -> phase' = "settled" /\ outcome' = "ok" /\ UNCHANGED frames
         [] OTHER -> Enter
    /\ UNCHANGED <<input, acceptingNext, leafCalls, leaf, dispatched, duplicateNextError, lateNextError>>

\* index and delete of a search adapter: it must support indexing, and the
\* document must have an identity
SearchMutation ==
    /\ phase = "called" /\ input # "empty"
    /\ dispatching' = TRUE
    /\ IF input = "invalid" THEN Refuse ELSE Enter
    /\ UNCHANGED <<input, acceptingNext, leafCalls, leaf, dispatched, duplicateNextError, lateNextError>>

\* the innermost next(): refused after the layers settled and the second time;
\* a request budget that ended throws before the adapter is called
AnyTimes(calls) == TRUE
FirstCall(calls) == calls = 0

Always(accepting) == TRUE
Accepting(accepting) == accepting

Leaf ==
    IF ~Accepting(acceptingNext)
    THEN /\ lateNextError' = TRUE
         /\ UNCHANGED <<leafCalls, leaf, dispatched, duplicateNextError>>
    ELSE /\ leafCalls' = leafCalls + 1
         /\ UNCHANGED lateNextError
         /\ IF FirstCall(leafCalls)
            THEN /\ leaf' = IF dispatching THEN "flying" ELSE "failed"
                 /\ dispatched' = dispatched + (IF dispatching THEN 1 ELSE 0)
                 /\ UNCHANGED duplicateNextError
            ELSE duplicateNextError' = TRUE /\ UNCHANGED <<leaf, dispatched>>

\* runMiddlewareLayers: next() of a layer invokes the layer inside it.  A
\* settled invocation may still call it from something it left running.
CallNext(f) ==
    /\ frames[f].calls < 2
    /\ IF frames[f].layer < NumLayers
       THEN /\ Len(frames) < MaxFrames
            /\ frames' = Append([frames EXCEPT ![f].calls = @ + 1], Running(frames[f].layer + 1))
            /\ UNCHANGED <<leafCalls, leaf, dispatched, duplicateNextError, lateNextError>>
       ELSE /\ frames' = [frames EXCEPT ![f].calls = @ + 1]
            /\ Leaf
    /\ UNCHANGED <<input, acceptingNext, dispatching, phase, outcome>>

\* a layer returns or throws, whatever became of its next()
SettleFrame(f) ==
    /\ frames[f].status = "running"
    /\ \E status \in {"ok", "failed"} : frames' = [frames EXCEPT ![f].status = status]
    /\ UNCHANGED <<input, acceptingNext, leafCalls, leaf, dispatched, dispatching,
                   duplicateNextError, lateNextError, phase, outcome>>

LeafSettles ==
    /\ leaf = "flying"
    /\ leaf' \in {"ok", "failed"}
    /\ UNCHANGED <<input, frames, acceptingNext, leafCalls, dispatched, dispatching,
                   duplicateNextError, lateNextError, phase, outcome>>

\* the finally block, and the throw when next() was never called
LayersSettled ==
    /\ phase = "layers" /\ Outer.status # "running"
    /\ acceptingNext' = FALSE
    /\ IF leafCalls < 1
       THEN phase' = "settled" /\ outcome' = "error"
       ELSE phase' = "leaf" /\ UNCHANGED outcome
    /\ UNCHANGED <<input, frames, leafCalls, leaf, dispatched, dispatching, duplicateNextError, lateNextError>>

\* await leafPromise
LeafSucceeded(l) == l = "ok"
LeafAwaited(l) == l # "flying"

Errors ==
    (IF Outer.status = "failed" THEN {"middleware"} ELSE {})
    \cup (IF duplicateNextError THEN {"duplicate next()"} ELSE {})
    \cup (IF lateNextError THEN {"late next()"} ELSE {})
    \cup (IF leaf = "failed" THEN {"write"} ELSE {})

Report ==
    /\ phase = "leaf" /\ LeafAwaited(leaf)
    /\ phase' = "settled"
    /\ outcome' = IF Errors = {} THEN "ok" ELSE "error"
    /\ UNCHANGED <<input, frames, acceptingNext, leafCalls, leaf, dispatched, dispatching,
                   duplicateNextError, lateNextError>>

\* the request's budget ends
BudgetEnds ==
    /\ dispatching /\ dispatching' = FALSE
    /\ UNCHANGED <<input, frames, acceptingNext, leafCalls, leaf, dispatched,
                   duplicateNextError, lateNextError, phase, outcome>>

\* the rest of the program goes on
Others == UNCHANGED vars

Next ==
    \/ StoreWrite \/ CacheMutation \/ SearchMutation
    \/ \E f \in DOMAIN frames : CallNext(f) \/ SettleFrame(f)
    \/ LeafSettles \/ LayersSettled \/ Report \/ BudgetEnds \/ Others

Operation == StoreWrite \/ CacheMutation \/ SearchMutation
OuterSettles == frames # <<>> /\ SettleFrame(1)

\* the layers and the adapter settle; the wrapper's own code runs on
Spec == Init /\ [][Next]_vars /\ WF_vars(Operation) /\ WF_vars(OuterSettles) /\ WF_vars(LeafSettles)
             /\ WF_vars(LayersSettled) /\ WF_vars(Report)

(***************************************************************************)
(* Properties.                                                             *)
(***************************************************************************)

\* Whatever the layers do, the adapter is called at most once: a duplicated
\* next() never writes twice.
WrittenAtMostOnce == dispatched <= 1

\* A mutation that reports success was made: a layer can neither skip it nor
\* swallow its failure, and the caller is not told before the adapter answers.
OkMeansWritten == outcome = "ok" => leaf = "ok" \/ input = "empty"

\* Once the caller has been told, nothing of this mutation reaches the adapter
\* any more, and nothing is still on its way.
NothingAfterOutcome ==
    outcome # "none" => dispatched' = dispatched /\ leaf # "flying"

\* The caller is told at last when the layers and the adapter settle.
Told == outcome # "none"
Reported == []<>Told
=============================================================================
