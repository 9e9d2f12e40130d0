---------------------------- MODULE SavepointGate ----------------------------
(* The guard active-ts puts around the adapter of one open store transaction: *)
(* the operation tracker, which decides what may still start once a callback  *)
(* has finished and what the transaction waits for before it commits, and the *)
(* savepoint gate, which keeps the body of a savepoint apart from the work of *)
(* the scope around it (src/src/core/store-options.ts).                       *)
(*                                                                            *)
(* A scope is the transaction itself (0) or the body of a savepoint, named by *)
(* the index of the savepoint in item.  An item is one piece of tracked work: *)
(*   "op"         an adapter call: tracked and passed through the gate;       *)
(*   "work"       tracked only (transaction work, middleware, continuations); *)
(*   "savepoint"  tracked, queued at the gate, and opening a scope of its own.*)
(* Items are numbered in the order they are issued, which is the order of the *)
(* gate's sequence numbers.                                                   *)
EXTENDS Integers, Sequences, FiniteSets

CONSTANTS MaxItems,       \* bound: tracked work issued in one transaction
          Reentrant,      \* may the code under an "op" issue tracked work itself?
          AwaitAll,       \* does every body await the work it issued?
          Misbehave       \* may the adapter break the savepoint protocol?

ASSUME GateAssumption ==
    /\ MaxItems \in Nat
    /\ Reentrant \in BOOLEAN /\ AwaitAll \in BOOLEAN /\ Misbehave \in BOOLEAN

VARIABLES item,          \* issued items, in order
          body,          \* per scope: where its callback stands
          snap,          \* per scope: what its waitForPendingOperations awaits
          early,         \* savepoints whose adapter settled before the callback
          twice,         \* savepoints whose adapter ran the callback again
          rollbackOnly,  \* the gate's rollbackOnly flag
          effect,        \* what is known of a savepoint's writes (observer)
          outcome        \* how the transaction ended

vars == <<item, body, snap, early, twice, rollbackOnly, effect, outcome>>

Items  == 1..MaxItems
Scopes == 0..MaxItems
Issued == 1..Len(item)

Item == [kind    : {"op", "work", "savepoint"},
         token   : Scopes,    \* the scope it runs in; for a savepoint, its parent
         gop     : Scopes,    \* nearest enclosing op of the gate, 0 for none
         trp     : Scopes,    \* active parent in the same tracker, 0 for none
         by      : Scopes,    \* the item whose code issued it, 0 for a body
         st      : {"queued", "running", "ok", "failed"},
         handled : BOOLEAN]   \* rejectionHandled

(* Types, and the shape of the call tree: every item works in the root or in   *)
(* the scope of an earlier savepoint that has started, on the chain of an     *)
(* earlier op, for an earlier item of the same tracker.                       *)
TypeOK ==
    /\ \A i \in Issued :
          /\ item[i].token < i /\ item[i].gop < i /\ item[i].trp < i
          /\ body[item[i].token] # "none"
          /\ item[i].gop # 0 => item[item[i].gop].kind = "op"
          /\ item[i].trp # 0 => item[item[i].trp].token = item[i].token
    /\ \A s \in Items : body[s] # "none" => s \in Issued /\ item[s].kind = "savepoint"
    /\ item \in Seq(Item) /\ Len(item) <= MaxItems
    /\ body \in [Scopes -> {"none", "open", "drainOk", "drainErr", "ok", "err"}]
    /\ snap \in [Scopes -> SUBSET Items]
    /\ early \subseteq Items /\ twice \subseteq Items
    /\ rollbackOnly \in BOOLEAN
    /\ effect \in [Items -> {"none", "kept", "undone", "unknown"}]
    /\ outcome \in {"none", "commit", "rollback"}

Init == /\ item = << >>
        /\ body = [s \in Scopes |-> IF s = 0 THEN "open" ELSE "none"]
        /\ snap = [s \in Scopes |-> {}]
        /\ early = {} /\ twice = {}
        /\ rollbackOnly = FALSE
        /\ effect = [s \in Items |-> "none"]
        /\ outcome = "none"

-----------------------------------------------------------------------------
(* Scopes, ancestors and the two trackers' views of the items.                *)

Settled(i) == item[i].st \in {"ok", "failed"}

(* The scope t itself and the scopes opened inside it.  A parent is always   *)
(* issued before its child, so indices descend along a chain.                 *)
TokenWithin(t, ancestor) ==
    LET up[k \in 0..Len(item)] ==
            IF k = ancestor THEN TRUE ELSE IF k = 0 THEN FALSE ELSE up[item[k].token]
    IN  up[t]

(* The gate ops on the asynchronous call chain of item i, itself included.    *)
ReentrantOf(i) ==
    LET up[k \in 0..Len(item)] == IF k = 0 THEN {} ELSE {k} \cup up[item[k].gop]
    IN  up[i]

(* The tracked items on whose behalf item i was started, itself included.     *)
TrackedAncestors(i) ==
    LET up[k \in 0..Len(item)] == IF k = 0 THEN {} ELSE {k} \cup up[item[k].trp]
    IN  up[i]

Closed(s) == body[s] # "open"

(* pendingOperations of the tracker of scope s that have not settled.         *)
Pending(s) == {i \in Issued : item[i].token = s /\ ~Settled(i)}

(* Mutant: only what the body itself started can fail it.                     *)
UnhandledOfBody(s) == {i \in Issued : /\ item[i].token = s
                                      /\ item[i].st = "failed"
                                      /\ ~item[i].handled /\ item[i].by = 0}

(* Rejections of the tracker of scope s that nobody handled.                  *)
Unhandled(s) == {i \in Issued : /\ item[i].token = s
                                /\ item[i].st = "failed"
                                /\ ~item[i].handled}

-----------------------------------------------------------------------------
(* Where work comes from.  A frame is code with an ambient scope: the body of *)
(* a scope that has started (its code may go on after the callback returned)  *)
(* or the code of a running item.                                             *)

BodyFrames == {s \in Scopes : body[s] # "none"}
ItemFrames == {i \in Issued : /\ item[i].st = "running"
                              /\ \/ item[i].kind = "work"
                                 \/ item[i].kind = "op" /\ Reentrant}

(* currentSavepointToken: an adapter handle bound to scope b, used by code    *)
(* whose ambient scope is a, works on a when a lies inside b, else on b.      *)
ResolveToken(a, b) == IF TokenWithin(a, b) THEN a ELSE b

(* A tracker admits work while its scope is open, and afterwards only work    *)
(* started by an operation of the same tracker that is still active.          *)
Admitted(token, trp) == Closed(token) => trp # 0

(* Mutant: a savepoint holds work back only once it has started.              *)
BarriersRunning(token, n) == {j \in Issued : /\ j < n
                                             /\ item[j].kind = "savepoint"
                                             /\ item[j].token = token
                                             /\ item[j].st = "running"}

(* Unreleased savepoint barriers that an op of this scope issued now waits    *)
(* for: barriers of the scope itself with a smaller sequence number.          *)
BarriersBefore(token, n) == {j \in Issued : /\ j < n
                                            /\ item[j].kind = "savepoint"
                                            /\ item[j].token = token
                                            /\ ~Settled(j)}

(* Mutant: the savepoint waits for later work of its parent too.              *)
PriorOperationsAll(s) ==
    {j \in Issued : /\ item[j].kind = "op"
                    /\ ~Settled(j)
                    /\ item[j].token = item[s].token
                    /\ j \notin ReentrantOf(item[s].gop)}

(* Ops a savepoint at the gate waits for: earlier ones of its parent scope    *)
(* (for a nested parent, of the scopes inside it too), except the ops on      *)
(* whose own call chain the savepoint was requested.                          *)
PriorOperations(s) ==
    {j \in Issued : /\ j < s
                    /\ item[j].kind = "op"
                    /\ ~Settled(j)
                    /\ IF item[s].token = 0 THEN item[j].token = 0
                       ELSE TokenWithin(item[j].token, item[s].token)
                    /\ j \notin ReentrantOf(item[s].gop)}

Add(kind, token, gop, trp, by) ==
    /\ Len(item) < MaxItems
    /\ Admitted(token, trp)
    /\ item' = Append(item,
         [kind |-> kind, token |-> token, gop |-> gop, trp |-> trp, by |-> by,
          handled |-> FALSE,
          st |-> IF \/ kind = "savepoint"
                    \/ kind = "op" /\ BarriersBefore(token, Len(item) + 1) # {}
                 THEN "queued" ELSE "running"])
    /\ UNCHANGED <<body, snap, early, twice, rollbackOnly, effect, outcome>>

(* Code of the body of scope a uses a handle bound to scope b.                *)
IssueFromBody(a, b, kind) ==
    /\ a \in BodyFrames /\ b \in BodyFrames
    /\ Add(kind, ResolveToken(a, b), IF a = 0 THEN 0 ELSE item[a].gop, 0, 0)

(* Code running inside item i does.                                           *)
IssueFromItem(i, b, kind) ==
    /\ i \in ItemFrames /\ b \in BodyFrames
    /\ LET token == ResolveToken(item[i].token, b)
       IN  Add(kind, token,
               IF item[i].kind = "op" THEN i ELSE item[i].gop,
               IF token = item[i].token THEN i ELSE 0, i)

-----------------------------------------------------------------------------
(* Adapter calls and tracked work.                                            *)

Children(i) == {j \in Issued : item[j].by = i}

StartOp(i) ==
    /\ i \in Issued /\ item[i].kind = "op" /\ item[i].st = "queued"
    /\ BarriersBefore(item[i].token, i) = {}
    /\ item' = [item EXCEPT ![i].st = "running"]
    /\ UNCHANGED <<body, snap, early, twice, rollbackOnly, effect, outcome>>

(* The promise of an op or of tracked work settles.                           *)
Settle(i, st) ==
    /\ i \in Issued /\ item[i].kind # "savepoint" /\ item[i].st = "running"
    /\ AwaitAll => \A j \in Children(i) : Settled(j)
    /\ item' = [item EXCEPT ![i].st = st]
    /\ UNCHANGED <<body, snap, early, twice, rollbackOnly, effect, outcome>>

(* Mutant: a handler counts whenever it runs.                                 *)
CanObserveAlways(i, f) == TRUE

(* A rejection handler of item i completes.  It counts while the scope is     *)
(* open, or when it was attached by a still active operation f that i was     *)
(* started for.                                                               *)
CanObserve(i, f) ==
    \/ ~Closed(item[i].token)
    \/ /\ f # 0 /\ ~Settled(f)
       /\ item[f].token = item[i].token
       /\ f \in TrackedAncestors(i)

Catch(i, f) ==
    /\ i \in Issued /\ item[i].st = "failed" /\ ~item[i].handled
    /\ f \in {0} \cup ItemFrames
    /\ CanObserve(i, f)
    /\ item' = [item EXCEPT ![i].handled = TRUE]
    /\ UNCHANGED <<body, snap, early, twice, rollbackOnly, effect, outcome>>

-----------------------------------------------------------------------------
(* Savepoints and the end of a scope.                                         *)

(* Behind its earlier siblings and the prior ops, the savepoint reaches the   *)
(* adapter, which opens it and starts the callback.                           *)
StartSavepoint(s) ==
    /\ s \in Issued /\ item[s].kind = "savepoint" /\ item[s].st = "queued"
    /\ BarriersBefore(item[s].token, s) = {}
    /\ PriorOperations(s) = {}
    /\ item' = [item EXCEPT ![s].st = "running"]
    /\ body' = [body EXCEPT ![s] = "open"]
    /\ UNCHANGED <<snap, early, twice, rollbackOnly, effect, outcome>>

(* The adapter rejects, or completes, without ever running the callback.      *)
SkipSavepoint(s) ==
    /\ Misbehave
    /\ s \in Issued /\ item[s].kind = "savepoint" /\ item[s].st = "queued"
    /\ BarriersBefore(item[s].token, s) = {}
    /\ PriorOperations(s) = {}
    /\ item' = [item EXCEPT ![s].st = "failed"]
    /\ UNCHANGED <<body, snap, early, twice, rollbackOnly, effect, outcome>>

(* The callback returns or throws: the scope closes to new work and starts    *)
(* waiting for what is pending.                                               *)
CloseBody(s, how) ==
    /\ body[s] = "open"
    /\ AwaitAll => \A j \in Pending(s) : item[j].by # 0
    /\ body' = [body EXCEPT ![s] = how]
    /\ snap' = [snap EXCEPT ![s] = Pending(s)]
    /\ UNCHANGED <<item, early, twice, rollbackOnly, effect, outcome>>

SnapSettled(s) == \A j \in snap[s] : Settled(j)

(* waitForPendingOperations goes round again: work admitted meanwhile.        *)
DrainAgain(s) ==
    /\ body[s] \in {"drainOk", "drainErr"}
    /\ SnapSettled(s) /\ Pending(s) # {}
    /\ snap' = [snap EXCEPT ![s] = Pending(s)]
    /\ UNCHANGED <<item, body, early, twice, rollbackOnly, effect, outcome>>

(* Mutant: one round of waiting is enough.                                    *)
DrainCompleteOnce(s) == SnapSettled(s)

DrainComplete(s) == SnapSettled(s) /\ Pending(s) = {}

(* Nothing is pending: unhandled rejections and a rollback-only gate turn a   *)
(* finished callback into a failed one.  The transaction itself commits or    *)
(* rolls back here.                                                           *)
EndBody(s) ==
    /\ body[s] \in {"drainOk", "drainErr"}
    /\ DrainComplete(s)
    /\ LET good == /\ body[s] = "drainOk"
                   /\ Unhandled(s) = {}
                   /\ ~rollbackOnly
       IN  /\ body' = [body EXCEPT ![s] = IF good THEN "ok" ELSE "err"]
           /\ outcome' = IF s # 0 THEN outcome
                         ELSE IF good THEN "commit" ELSE "rollback"
    /\ snap' = [snap EXCEPT ![s] = {}]
    /\ UNCHANGED <<item, early, twice, rollbackOnly, effect>>

Running(s) == s \in Issued /\ item[s].kind = "savepoint" /\ item[s].st = "running"

(* The adapter's savepoint call settles after the callback did.  A settled    *)
(* call that contradicts the callback leaves the savepoint's writes unknown   *)
(* and the whole transaction rollback-only.                                   *)
AdapterSettles(s, resolved) ==
    /\ Running(s) /\ body[s] \in {"ok", "err"} /\ s \notin early
    /\ ~Misbehave /\ body[s] = "err" => ~resolved
    /\ LET lied == resolved /\ body[s] = "err"
       IN  /\ item' = [item EXCEPT ![s].st =
                         IF resolved /\ body[s] = "ok" /\ s \notin twice THEN "ok" ELSE "failed"]
           /\ effect' = [effect EXCEPT ![s] =
                         IF lied THEN "unknown" ELSE IF resolved THEN "kept" ELSE "undone"]
           /\ rollbackOnly' = (rollbackOnly \/ lied)
    /\ UNCHANGED <<body, snap, early, twice, outcome>>

(* It settles while the callback still runs: its own writes go on landing     *)
(* outside the savepoint.                                                     *)
AdapterSettlesEarly(s) ==
    /\ Misbehave
    /\ Running(s) /\ body[s] \in {"open", "drainOk", "drainErr"} /\ s \notin early
    /\ early' = early \cup {s}
    /\ effect' = [effect EXCEPT ![s] = "unknown"]
    /\ UNCHANGED <<item, body, snap, twice, rollbackOnly, outcome>>

(* Mutant: the savepoint fails, the transaction goes on.                      *)
EarlyForgiven(s) ==
    /\ Running(s) /\ s \in early /\ body[s] \in {"ok", "err"}
    /\ item' = [item EXCEPT ![s].st = "failed"]
    /\ UNCHANGED <<body, snap, early, twice, rollbackOnly, effect, outcome>>

(* The guard still waits for the callback, then fails the savepoint.          *)
EarlyDetected(s) ==
    /\ Running(s) /\ s \in early /\ body[s] \in {"ok", "err"}
    /\ item' = [item EXCEPT ![s].st = "failed"]
    /\ rollbackOnly' = TRUE
    /\ UNCHANGED <<body, snap, early, twice, effect, outcome>>

(* The adapter runs the callback again, or after the savepoint settled: the   *)
(* second run is refused.                                                     *)
CallbackAgain(s) ==
    /\ Misbehave
    /\ s \in Items /\ body[s] # "none" /\ s \notin twice /\ outcome = "none"
    /\ twice' = twice \cup {s}
    /\ rollbackOnly' = TRUE
    /\ UNCHANGED <<item, body, snap, early, effect, outcome>>

-----------------------------------------------------------------------------
Kinds == {"op", "work", "savepoint"}

Progress ==
    \/ \E i \in Items : StartOp(i) \/ (\E st \in {"ok", "failed"} : Settle(i, st))
    \/ \E s \in Items : StartSavepoint(s)
    \/ \E s \in Scopes : \/ \E how \in {"drainOk", "drainErr"} : CloseBody(s, how)
                         \/ DrainAgain(s)
                         \/ EndBody(s)
    \/ \E s \in Items : \/ \E resolved \in BOOLEAN : AdapterSettles(s, resolved)
                        \/ EarlyDetected(s)

Environment ==
    \/ \E a, b \in Scopes, kind \in Kinds : IssueFromBody(a, b, kind)
    \/ \E i \in Items, b \in Scopes, kind \in Kinds : IssueFromItem(i, b, kind)
    \/ \E i \in Items, f \in Scopes : Catch(i, f)
    \/ \E s \in Items : SkipSavepoint(s) \/ AdapterSettlesEarly(s) \/ CallbackAgain(s)

Next == Progress \/ Environment

Spec == Init /\ [][Next]_vars

(* Promises settle and callbacks return: every step of the machinery that     *)
(* stays possible is eventually taken.  Nothing makes the program issue work, *)
(* handle a rejection or the adapter misbehave.                               *)
FairSpec == Spec /\ WF_vars(Progress)

-----------------------------------------------------------------------------
(* While a savepoint is open, nothing of the scopes around it runs at the     *)
(* adapter: every running adapter call belongs to the savepoint or to one     *)
(* opened inside it, or is a call on whose chain the savepoint, or one around *)
(* it, was requested; and two open savepoints are nested.                     *)
SavepointIsolation ==
    \A s \in Issued : Running(s) =>
        /\ \A i \in Issued : item[i].kind = "op" /\ item[i].st = "running" =>
              \/ TokenWithin(item[i].token, s)
              \/ \E t \in Issued : TokenWithin(s, t) /\ i \in ReentrantOf(item[t].gop)
        /\ \A t \in Issued : Running(t) => TokenWithin(s, t) \/ TokenWithin(t, s)

(* Ignored work never outlives its scope: once the callback of a scope has    *)
(* been declared settled, nothing tracked in it is queued or running, so no   *)
(* write lands after the release, the commit or the rollback.                 *)
ScopeDrained ==
    \A s \in Scopes : body[s] \in {"ok", "err"} => Pending(s) = {}

(* A scope succeeds only if each of its failures was handled by code that the *)
(* scope was still waiting for.                                               *)
NoLostFailure ==
    \A s \in Scopes, i \in Issued :
        body[s] = "ok" /\ item[i].token = s /\ item[i].st = "failed" => item[i].handled

(* The transaction commits only when the writes of each of its savepoints are *)
(* known to be kept or undone, whatever the adapter did.                      *)
CommitKnown ==
    outcome = "commit" => \A s \in Items : effect[s] # "unknown"

(* What a settled scope decided stays decided: no late handler, late work or  *)
(* late adapter call turns a failed item into a handled one or adds work.     *)
SettledScopesFrozen ==
    \A s \in Scopes : body[s] \in {"ok", "err"} =>
       /\ body'[s] = body[s]
       /\ \A i \in 1..Len(item') :
             item'[i].token = s => i \in Issued /\ item'[i] = item[i]
SettledStaysSettled == [][SettledScopesFrozen]_vars

(* The gate never leaves everybody waiting for everybody: if callbacks return *)
(* and adapter calls settle, the transaction ends.                            *)
Ended == outcome # "none"
TransactionEnds == []<>Ended
=============================================================================
