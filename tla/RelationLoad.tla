---------------------------- MODULE RelationLoad ---------------------------
(***************************************************************************)
(* A lazily loaded relation: the promise slots of core/lazy-ref.ts, the      *)
(* owner and result snapshots of core/relation-result.ts taken around the    *)
(* relation hooks, and the choice of targets by join key and Datastore       *)
(* ancestor of core/relation-ancestor.ts.                                   *)
(*                                                                         *)
(* A target row is [fk, anc]: the foreign key and the ancestor it lives      *)
(* under.  Hooks are user code: they may change the owner and the result.    *)
(* Keys and ancestors are positive numbers; 0 is a missing field.           *)
(***************************************************************************)
EXTENDS Integers, Sequences, FiniteSets, SequencesExt, Functions

CONSTANTS Rows,         \* the target rows, a function from row id to [fk, anc]
          Keys,         \* values of the owner's local key
          Kind,         \* "one" or "many"
          Ancestry,     \* "none": no ancestors; "inferred": from ancestorFields;
                        \* "explicit": relation.ancestor resolves the key
          Contexts,     \* contexts a load may run in (root, transaction)
          MaxLoads      \* bound on the loads that start

RelationAssumption ==
    /\ Kind \in {"one", "many"} /\ Ancestry \in {"none", "inferred", "explicit"}
    /\ Keys \subseteq Nat /\ MaxLoads \in Nat

VARIABLES owner,        \* [key, anc], the owner's data
          slot,         \* promise: [load, ctx], load 0 when there is none
          full,         \* fullPromise
          loads,        \* the loads started, in order
          asked         \* per load: the requests it was the answer of (history)

vars == <<owner, slot, full, loads, asked>>

Ids == DOMAIN Rows
Ancestors == {Rows[r].anc : r \in Ids}
Fields == [key : Keys \cup {0}, anc : Ancestors \cup {0}]
NoPromise == [load |-> 0, ctx |-> "none"]
Empty == <<>>

Init == /\ owner \in [key : Keys, anc : Ancestors \cup {0}]
        /\ slot = NoPromise /\ full = NoPromise
        /\ loads = <<>> /\ asked = <<>>

-----------------------------------------------------------------------------
(* Which targets belong to an owner.                                        *)

(* relationTargetJoinKeys: the foreign key alone, or with the ancestor when   *)
(* the owner's data names it.                                               *)
Join(o) == {r \in Ids : Rows[r].fk = o.key /\ (o.anc # 0 => Rows[r].anc = o.anc)}

(* An inferred ancestor needs the owner's ancestor fields; an explicit one is *)
(* a common root here, so that it leaves the rows of several ancestors.      *)
CannotScope(o) == Ancestry = "inferred" /\ o.anc = 0

Candidates(o) == IF Ancestry = "none" THEN {r \in Ids : Rows[r].fk = o.key} ELSE Join(o)

(* assertUnambiguousDatastoreRelationFallback                               *)
NeverAmbiguous(o) == FALSE
Ambiguous(o) == /\ Kind = "one" /\ Ancestry # "none" /\ o.anc = 0
                /\ Cardinality(Candidates(o)) > 1

(* resolveNow: many loads every match, one the first.                       *)
Resolvable(o) == o.key = 0 \/ ~(CannotScope(o) \/ Ambiguous(o))

Resolved(o) ==
    IF o.key = 0 THEN Empty
    ELSE LET found == SetToSortSeq(Candidates(o), <) IN
         IF Kind = "one" /\ found # Empty THEN <<found[1]>> ELSE found

-----------------------------------------------------------------------------
(* load and its two promise slots.                                          *)

Wanted(f) == IF f THEN full ELSE slot
Matches(p, ctx) == p.load # 0 /\ p.ctx = ctx

Reuse(ctx, f, h) ==
    /\ Matches(Wanted(f), ctx)
    /\ asked' = [asked EXCEPT ![Wanted(f).load] = @ \cup {[ctx |-> ctx, full |-> f]}]
    /\ UNCHANGED <<owner, slot, full, loads>>

(* A new load; a full load also becomes the plain promise.                  *)
Start(ctx, f, h) ==
    LET p == [load |-> Len(loads) + 1, ctx |-> ctx] IN
    /\ Len(loads) < MaxLoads /\ ~Matches(Wanted(f), ctx)
    /\ loads' = Append(loads, [ctx |-> ctx, full |-> f, hooks |-> h, st |-> "before",
                               key |-> owner, snap |-> Empty, result |-> Empty])
    /\ asked' = Append(asked, {[ctx |-> ctx, full |-> f]})
    /\ slot' = p
    /\ full' = IF f THEN p ELSE full
    /\ UNCHANGED owner

(* prime: include() hands over a result it loaded for all owners at once.    *)
Prime(ctx, f) ==
    LET p == [load |-> Len(loads) + 1, ctx |-> ctx] IN
    /\ Len(loads) < MaxLoads
    /\ loads' = Append(loads, [ctx |-> ctx, full |-> f, hooks |-> FALSE, st |-> "done",
                               key |-> owner, snap |-> Empty, result |-> Empty])
    /\ asked' = Append(asked, {})
    /\ slot' = p
    /\ full' = IF f THEN p ELSE full
    /\ UNCHANGED owner

Clear == /\ <<slot, full>> # <<NoPromise, NoPromise>>
         /\ slot' = NoPromise /\ full' = NoPromise
         /\ UNCHANGED <<owner, loads, asked>>

Dropped(p, n) == IF p.load = n THEN NoPromise ELSE p

Set(n, r) == loads' = [loads EXCEPT ![n] = r]

(* The rejection handler runs before any caller sees the failure.           *)
Fail(n) == /\ Set(n, [loads[n] EXCEPT !.st = "failed"])
           /\ slot' = Dropped(slot, n)
           /\ full' = IF loads[n].full THEN Dropped(full, n) ELSE full

(* loadNow: hooks and other code may change the owner while they run; then   *)
(* the owner's key is captured and the targets are resolved from it.        *)
OwnerChanges(o) == /\ owner' = o /\ owner # o
                   /\ \E n \in DOMAIN loads : loads[n].st \notin {"done", "failed"}
                   /\ UNCHANGED <<slot, full, loads, asked>>

BeforeHooksEnd(n) ==
    /\ loads[n].st = "before" /\ Resolvable(owner)
    /\ Set(n, [loads[n] EXCEPT !.st = "resolving", !.key = owner, !.snap = Resolved(owner)])
    /\ UNCHANGED <<owner, slot, full, asked>>

ResolveEnds(n) ==
    /\ loads[n].st = "resolving"
    /\ Set(n, [loads[n] EXCEPT !.st = IF @ = "resolving" /\ loads[n].hooks THEN "after" ELSE "done",
                               !.result = loads[n].snap])
    /\ UNCHANGED <<owner, slot, full, asked>>

Count(s, x) == Cardinality({i \in DOMAIN s : s[i] = x})

(* validateRelationLoadBoundary: the owner still has the key the result was  *)
(* loaded for, the hooks return the loaded models, each as often as loaded,  *)
(* and none has moved to another key or ancestor.                           *)
OwnerKept(was, now) == /\ was.key = now.key
                       /\ Ancestry # "none" /\ was.key # 0 => was.anc = now.anc

CountsNotMore(snap, res) == \A x \in Ids : Count(res, x) <= Count(snap, x)
CountsKept(snap, res) == \A x \in Ids : Count(res, x) = Count(snap, x)

Accepted(l, res, moved) == /\ OwnerKept(l.key, owner)
                           /\ CountsKept(l.snap, res)
                           /\ moved \cap ToSet(res) = {}

AfterHooksEnd(n, res, moved) ==
    /\ loads[n].st = "after" /\ Accepted(loads[n], res, moved)
    /\ Set(n, [loads[n] EXCEPT !.st = "done", !.result = res])
    /\ UNCHANGED <<owner, slot, full, asked>>

(* A hook or the store throws, or a check refuses.                          *)
LoadFails(n) ==
    /\ loads[n].st \in {"before", "resolving", "after"}
    /\ Fail(n) /\ UNCHANGED <<owner, asked>>

-----------------------------------------------------------------------------
Results == UNION {[1..k -> Ids] : k \in 0..2}

Next == \/ \E ctx \in Contexts, f, h \in BOOLEAN : Reuse(ctx, f, h) \/ Start(ctx, f, h)
        \/ \E ctx \in Contexts, f \in BOOLEAN : Prime(ctx, f)
        \/ Clear
        \/ \E o \in Fields : OwnerChanges(o)
        \/ \E n \in DOMAIN loads : \/ BeforeHooksEnd(n) \/ ResolveEnds(n) \/ LoadFails(n)
                                   \/ \E res \in Results, moved \in SUBSET Ids : AfterHooksEnd(n, res, moved)

Spec == Init /\ [][Next]_vars

-----------------------------------------------------------------------------
(* A load that ran its hooks ends with exactly the targets of the owner as   *)
(* the owner is at that moment: neither a hook that changed the owner's key  *)
(* nor one that changed the list gets its result through.                   *)
ResultBelongsToOwner ==
    \A n \in DOMAIN loads : loads[n].st = "after" /\ loads'[n].st = "done" =>
      /\ ToSet(loads'[n].result) = ToSet(Resolved(owner))
      /\ Len(loads'[n].result) = Len(Resolved(owner))

(* Nobody is handed the promise of another context, nor a partial load when  *)
(* a full one was asked for (load compares the context of the slot).        *)
PromiseFitsRequest ==
    \A n \in DOMAIN loads : \A q \in asked[n] :
        q.ctx = loads[n].ctx /\ (q.full => loads[n].full)

(* A relation to one model never picks one of several candidates that live   *)
(* under different ancestors: it names the ancestor or refuses.             *)
OneIsUnambiguous ==
    Kind = "one" /\ Ancestry # "none" =>
        \A n \in DOMAIN loads : loads[n].st = "done" /\ loads[n].result # Empty =>
            \A r \in Ids : /\ Rows[r].fk = loads[n].key.key
                          /\ loads[n].key.anc \in {0, Rows[r].anc}
                          => r = loads[n].result[1]

(* A failed load leaves no promise behind, so the next access loads again;   *)
(* and the late failure of an older load does not drop the newer promise.   *)
SlotsHoldLiveLoads ==
    /\ \A p \in {slot, full} : p.load # 0 => loads[p.load].st # "failed"
    /\ full.load # 0 => loads[full.load].full

NewerPromiseKept ==
    slot.load # 0 /\ slot'.load = 0 /\ full' = full /\ loads' # loads
      => loads'[slot.load].st = "failed"
=============================================================================
