----------------------------- MODULE EntityCache -----------------------------
(***************************************************************************)
(* The entity cache of ActiveContext: loads that read through the cache and*)
(* fill it (core/context.ts, loadManyNow and writeCacheEntries), writes    *)
(* that invalidate it (core/model.ts, save and delete; performInvalidate), *)
(* the epochs that fence fills inside a process, the versions that fence   *)
(* them between processes, and the registry of failed invalidations.       *)
(*                                                                         *)
(* An operation is cut at its awaits: op[t].pc names the call it waits for.*)
(* A row is its version number; a deleted row is a version too, as a       *)
(* cached miss is a cached value when negativeTtl is set.                  *)
(* acked, known, need and own are history: no action's guard reads them.   *)
(***************************************************************************)
EXTENDS Integers, FiniteSets, TLC

CONSTANTS
    Procs,          \* processes, each with its own registries for the cache
    Tasks,          \* concurrent operations
    Home,           \* the process of each task
    Keys,           \* cache keys
    None,           \* no key
    Distributed,    \* meta.cache.consistency = 'distributed'
    Sync,           \* does a set take effect when it is called (memory adapter)?
    EpochLimit,     \* SHARED_CACHE_INVALIDATION_EPOCH_LIMIT
    FailureLimit,   \* SHARED_CACHE_INVALIDATION_FAILURE_LIMIT
    MaxCalls,       \* bound: writes, explicit invalidations and expiries
    MaxFaults       \* bound: calls that throw, restarts

ASSUME EntityCacheAssumption ==
    /\ Home \in [Tasks -> Procs]
    /\ None \notin Keys
    /\ Distributed \in BOOLEAN /\ Sync \in BOOLEAN
    /\ Distributed => ~Sync
    /\ Sync => \A p, q \in Procs : p = q
    /\ EpochLimit \in Nat \ {0} /\ FailureLimit \in Nat \ {0}
    /\ MaxCalls \in Nat /\ MaxFaults \in Nat

VARIABLES
    store,          \* committed version of each row
    cache,          \* cached version of each key, or Miss
    tag,            \* version token of each key, 0 when it has none
    fresh,          \* the next token: randomBytes never repeats
    late,           \* sets given up by their caller that may still land
    held, epochs, defaultEpoch,         \* epoch registry of each process
    failures, poisoned, recovered,      \* failure registry of each process
    op,             \* the operation of each task
    acked,          \* history: newest version whose write was acknowledged
    known,          \* history: newest version whose write ended in a process
    calls, faults

cacheVars == <<cache, tag, fresh, late>>
epochVars == <<held, epochs, defaultEpoch>>
failureVars == <<failures, poisoned, recovered>>
historyVars == <<acked, known>>
vars == <<store, cacheVars, epochVars, failureVars, op, historyVars, calls, faults>>

Miss == -1
Value == Nat \cup {Miss}
Pcs == {"idle", "write", "written", "drop", "dropped", "get", "got", "recover", "read",
        "fill", "set", "setting", "stored", "refused", "hook", "undo", "undone", "poison", "poisoned", "return"}

Idle == [pc |-> "idle", key |-> None, epoch |-> 0, tok |-> 0,
         val |-> Miss, ver |-> 0, need |-> 0, own |-> 0]

Op == [pc: Pcs, key: Keys \cup {None}, epoch: Nat, tok: Nat,
       val: Value, ver: Nat, need: Nat, own: Nat]

TypeOK ==
    /\ store \in [Keys -> Nat]
    /\ cache \in [Keys -> Value]
    /\ tag \in [Keys -> Nat]
    /\ fresh \in Nat \ {0}
    /\ late \subseteq [key: Keys, val: Nat, tok: Nat]
    /\ held \in [Procs -> SUBSET Keys]
    /\ epochs \in [Procs -> [Keys -> Nat]]
    /\ defaultEpoch \in [Procs -> Nat]
    /\ failures \in [Procs -> SUBSET Keys]
    /\ poisoned \in [Procs -> BOOLEAN]
    /\ recovered \in [Procs -> SUBSET Keys]
    /\ op \in [Tasks -> Op]
    /\ \A t \in Tasks : op[t].pc # "idle" => op[t].key \in Keys
    /\ acked \in [Keys -> Nat]
    /\ known \in [Procs -> [Keys -> Nat]]
    /\ calls \in Nat /\ faults \in Nat

Init ==
    /\ store = [k \in Keys |-> 0]
    /\ cache = [k \in Keys |-> Miss]
    /\ tag = [k \in Keys |-> 0]
    /\ fresh = 1
    /\ late = {}
    /\ held = [p \in Procs |-> {}]
    /\ epochs = [p \in Procs |-> [k \in Keys |-> 0]]
    /\ defaultEpoch = [p \in Procs |-> 0]
    /\ failures = [p \in Procs |-> {}]
    /\ poisoned = [p \in Procs |-> FALSE]
    /\ recovered = [p \in Procs |-> {}]
    /\ op = [t \in Tasks |-> Idle]
    /\ acked = [k \in Keys |-> 0]
    /\ known = [p \in Procs |-> [k \in Keys |-> 0]]
    /\ calls = 0 /\ faults = 0

Call == calls < MaxCalls /\ calls' = calls + 1 /\ UNCHANGED faults
Fault == faults < MaxFaults /\ faults' = faults + 1 /\ UNCHANGED calls
Normal == UNCHANGED <<calls, faults>>

At(t, pc) == op[t].pc = pc
Goto(t, pc) == op' = [op EXCEPT ![t].pc = pc]
End(t) == op' = [op EXCEPT ![t] = Idle]
Larger(a, b) == IF a < b THEN b ELSE a

----------------------------------------------------------------------------
(* The epoch registry of a process.                                        *)

cacheEpoch(p, k) == IF k \in held[p] THEN epochs[p][k] ELSE defaultEpoch[p]

\* Mutant: an evicted key falls back to a default that was not raised.
EvictEpochQuietly(p, h, k) ==
    \E oldest \in h \ {k} :
        /\ held' = [held EXCEPT ![p] = h \ {oldest}]
        /\ UNCHANGED defaultEpoch

\* Beyond the limit the oldest key is dropped.  Which one that is depends on
\* the order of the bumps; it is never the key that was just bumped.
EvictEpoch(p, h, k) ==
    \E oldest \in h \ {k} :
        /\ held' = [held EXCEPT ![p] = h \ {oldest}]
        /\ defaultEpoch' = [defaultEpoch EXCEPT ![p] = Larger(@, epochs[p][oldest] + 1)]

bumpCacheEpoch(p, k) ==
    LET h == held[p] \cup {k} IN
    /\ epochs' = [epochs EXCEPT ![p][k] = cacheEpoch(p, k) + 1]
    /\ IF Cardinality(h) <= EpochLimit
       THEN held' = [held EXCEPT ![p] = h] /\ UNCHANGED defaultEpoch
       ELSE EvictEpoch(p, h, k)

\* Is the epoch that operation t captured still current?
cacheEpochUnchanged(t) == op[t].epoch = cacheEpoch(Home[t], op[t].key)

----------------------------------------------------------------------------
(* The failure registry of a process.  recovered holds the keys recorded   *)
(* for the current generation: a new generation clears it.                 *)

hasCacheInvalidationFailure(p, k) ==
    k \in failures[p] \/ (poisoned[p] /\ k \notin recovered[p])

\* Mutant: beyond the limit the failures are forgotten.
markAndForget(p, k) ==
    LET f == failures[p] \cup {k} IN
    /\ failures' = [failures EXCEPT ![p] = IF Cardinality(f) <= FailureLimit THEN f ELSE {}]
    /\ recovered' = [recovered EXCEPT ![p] = @ \ {k}]
    /\ UNCHANGED poisoned

\* Beyond the limit every key that has not recovered since counts as failed.
markCacheInvalidationFailure(p, k) ==
    LET f == failures[p] \cup {k} IN
    IF Cardinality(f) <= FailureLimit
    THEN /\ failures' = [failures EXCEPT ![p] = f]
         /\ recovered' = [recovered EXCEPT ![p] = @ \ {k}]
         /\ UNCHANGED poisoned
    ELSE /\ failures' = [failures EXCEPT ![p] = {}]
         /\ recovered' = [recovered EXCEPT ![p] = {}]
         /\ poisoned' = [poisoned EXCEPT ![p] = TRUE]

clearCacheInvalidationFailure(p, k) ==
    LET r == recovered[p] \cup {k} IN
    /\ failures' = [failures EXCEPT ![p] = @ \ {k}]
    /\ IF ~poisoned[p]
       THEN UNCHANGED recovered
       ELSE IF Cardinality(r) <= FailureLimit
       THEN recovered' = [recovered EXCEPT ![p] = r]
       ELSE \E oldest \in r \ {k} : recovered' = [recovered EXCEPT ![p] = r \ {oldest}]
    /\ UNCHANGED poisoned

----------------------------------------------------------------------------
(* What the cache adapter does with a request (adapters/cache).            *)

\* Mutant: invalidation deletes the value and keeps its version.
DeleteOnly(k) ==
    /\ cache' = [cache EXCEPT ![k] = Miss]
    /\ UNCHANGED <<tag, fresh>>

\* deleteMany of a local cache, invalidateMany of a versioned one.
Remove(k) ==
    /\ cache' = [cache EXCEPT ![k] = Miss]
    /\ IF Distributed
       THEN tag' = [tag EXCEPT ![k] = fresh] /\ fresh' = fresh + 1
       ELSE UNCHANGED <<tag, fresh>>

\* Mutant: a set is taken whatever version its key has.
AcceptsAnyVersion(k, v) == Distributed => tag[k] # 0

\* Does the cache take a set that expects version v of key k?
Accepts(k, v) == Distributed => (tag[k] # 0 /\ tag[k] = v)

\* setMany, or setManyVersioned: a key without a version gets one and refuses.
Put(k, val, v) ==
    /\ cache' = IF Accepts(k, v) THEN [cache EXCEPT ![k] = val] ELSE cache
    /\ IF Distributed /\ tag[k] = 0
       THEN tag' = [tag EXCEPT ![k] = fresh] /\ fresh' = fresh + 1
       ELSE UNCHANGED <<tag, fresh>>

\* The version getManyVersioned reports; a key without one gets one.
versionOf(k) == IF tag[k] = 0 THEN fresh ELSE tag[k]
TouchVersion(k) ==
    IF tag[k] = 0
    THEN tag' = [tag EXCEPT ![k] = fresh] /\ fresh' = fresh + 1
    ELSE UNCHANGED <<tag, fresh>>

\* A value and its version expire together, a version without a value alone.
Expire(k) ==
    /\ cache[k] # Miss \/ tag[k] # 0
    /\ cache' = [cache EXCEPT ![k] = Miss]
    /\ tag' = [tag EXCEPT ![k] = 0]
    /\ Call
    /\ UNCHANGED <<store, fresh, late, epochVars, failureVars, op, historyVars>>

\* A set whose caller was told that it failed reaches the cache after all.
LateSet(m) ==
    /\ Put(m.key, m.val, m.tok)
    /\ late' = late \ {m}
    /\ Normal
    /\ UNCHANGED <<store, epochVars, failureVars, op, historyVars>>

----------------------------------------------------------------------------
(* Writes and invalidations.                                               *)

\* save, update, delete up to the store call.
StartWrite(t, k) ==
    /\ At(t, "idle")
    /\ op' = [op EXCEPT ![t] = [Idle EXCEPT !.pc = "write", !.key = k]]
    /\ Call
    /\ UNCHANGED <<store, cacheVars, epochVars, failureVars, historyVars>>

StoreWrite(t) ==
    /\ At(t, "write")
    /\ store' = [store EXCEPT ![op[t].key] = @ + 1]
    /\ op' = [op EXCEPT ![t].pc = "written", ![t].ver = store[op[t].key] + 1]
    /\ Normal
    /\ UNCHANGED <<cacheVars, epochVars, failureVars, historyVars>>

\* writeWithConflictInvalidation: the optimistic lock expects an older version.
StoreConflict(t) ==
    /\ At(t, "write")
    /\ store[op[t].key] > 0
    /\ Goto(t, "written")
    /\ Normal
    /\ UNCHANGED <<store, cacheVars, epochVars, failureVars, historyVars>>

\* The store call throws anything else, before or after it took effect: the
\* error is passed on without an invalidation.
StoreThrows(t) ==
    /\ At(t, "write") \/ At(t, "written")
    /\ End(t)
    /\ Fault
    /\ UNCHANGED <<store, cacheVars, epochVars, failureVars, historyVars>>

\* invalidateModel called by the application.
StartInvalidate(t, k) ==
    /\ At(t, "idle")
    /\ op' = [op EXCEPT ![t] = [Idle EXCEPT !.pc = "drop", !.key = k]]
    /\ bumpCacheEpoch(Home[t], k)
    /\ Call
    /\ UNCHANGED <<store, cacheVars, failureVars, historyVars>>

\* performInvalidate up to the call of the adapter.
Invalidate(t) ==
    /\ At(t, "written")
    /\ bumpCacheEpoch(Home[t], op[t].key)
    /\ Goto(t, "drop")
    /\ Normal
    /\ UNCHANGED <<store, cacheVars, failureVars, historyVars>>

\* The adapter processes the delete of an invalidation, of a stale fill or of
\* a set with an unknown outcome.
Delete(t) ==
    /\ op[t].pc \in {"drop", "undo", "poison"}
    /\ Remove(op[t].key)
    /\ Goto(t, CASE At(t, "drop") -> "dropped" [] At(t, "undo") -> "undone" [] OTHER -> "poisoned")
    /\ Normal
    /\ UNCHANGED <<store, late, epochVars, failureVars, historyVars>>

\* The write of version op[t].ver has ended for the callers of its process.
Ended(t) == known' = [known EXCEPT ![Home[t]][op[t].key] = Larger(@, op[t].ver)]

DeleteReturns(t) ==
    /\ At(t, "dropped")
    /\ bumpCacheEpoch(Home[t], op[t].key)
    /\ clearCacheInvalidationFailure(Home[t], op[t].key)
    /\ acked' = [acked EXCEPT ![op[t].key] = Larger(@, op[t].ver)]
    /\ Ended(t)
    /\ End(t)
    /\ Normal
    /\ UNCHANGED <<store, cacheVars>>

\* The hook or the delete throws; the delete may have taken effect.
DeleteThrows(t) ==
    /\ At(t, "drop") \/ At(t, "dropped")
    /\ markCacheInvalidationFailure(Home[t], op[t].key)
    /\ Ended(t)
    /\ End(t)
    /\ Fault
    /\ UNCHANGED <<store, cacheVars, epochVars, acked>>

----------------------------------------------------------------------------
(* Loads.                                                                  *)

\* loadManyNow captures the epoch and looks at the failure registry.
StartLoad(t, k) ==
    LET next == IF ~hasCacheInvalidationFailure(Home[t], k) THEN "get"
                ELSE IF Distributed THEN "recover" ELSE "read" IN
    /\ At(t, "idle")
    /\ op' = [op EXCEPT ![t] = [Idle EXCEPT !.pc = next, !.key = k,
                                            !.epoch = cacheEpoch(Home[t], k),
                                            !.need = acked[k], !.own = known[Home[t]][k]]]
    /\ Normal
    /\ UNCHANGED <<store, cacheVars, epochVars, failureVars, historyVars>>

CacheGet(t) ==
    LET k == op[t].key IN
    /\ At(t, "get")
    /\ IF Distributed THEN TouchVersion(k) ELSE UNCHANGED <<tag, fresh>>
    /\ op' = [op EXCEPT ![t].pc = "got", ![t].val = cache[k],
                        ![t].tok = IF Distributed THEN versionOf(k) ELSE 0]
    /\ Normal
    /\ UNCHANGED <<store, cache, late, epochVars, failureVars, historyVars>>

\* Mutant: a hit is used whatever happened since the load began.
UseHitAlways(t) ==
    /\ At(t, "got")
    /\ IF op[t].val # Miss THEN Goto(t, "return") ELSE Goto(t, "read")
    /\ Normal
    /\ UNCHANGED <<store, cacheVars, epochVars, failureVars, historyVars>>

\* A hit counts unless the key was invalidated or failed in the meantime.
UseHit(t) ==
    /\ At(t, "got")
    /\ IF /\ op[t].val # Miss
          /\ ~hasCacheInvalidationFailure(Home[t], op[t].key)
          /\ cacheEpochUnchanged(t)
       THEN Goto(t, "return")
       ELSE Goto(t, "read")
    /\ Normal
    /\ UNCHANGED <<store, cacheVars, epochVars, failureVars, historyVars>>

\* A failed key of a versioned cache: only its version is read.
RecoverVersion(t) ==
    /\ At(t, "recover")
    /\ TouchVersion(op[t].key)
    /\ op' = [op EXCEPT ![t].pc = "read", ![t].tok = versionOf(op[t].key)]
    /\ Normal
    /\ UNCHANGED <<store, cache, late, epochVars, failureVars, historyVars>>

\* ... or not even that: the load goes on without it, so the error is not
\* counted as a fault.
RecoverThrows(t) ==
    /\ At(t, "recover")
    /\ Goto(t, "read")
    /\ Normal
    /\ UNCHANGED <<store, cacheVars, epochVars, failureVars, historyVars>>

StoreRead(t) ==
    /\ At(t, "read")
    /\ op' = [op EXCEPT ![t].pc = "fill", ![t].val = store[op[t].key]]
    /\ Normal
    /\ UNCHANGED <<store, cacheVars, epochVars, failureVars, historyVars>>

\* A hook, the cache or the store throws: the load rejects.
LoadThrows(t) ==
    /\ op[t].pc \in {"get", "got", "read", "fill", "set"}
    /\ End(t)
    /\ Fault
    /\ UNCHANGED <<store, cacheVars, epochVars, failureVars, historyVars>>

\* The rows that may be cached, before the hook beforeCacheSet.
Fill(t) ==
    /\ At(t, "fill")
    /\ IF cacheEpochUnchanged(t) /\ (Distributed => op[t].tok # 0)
       THEN Goto(t, "set")
       ELSE Goto(t, "return")
    /\ Normal
    /\ UNCHANGED <<store, cacheVars, epochVars, failureVars, historyVars>>

Outcome(t) == IF Accepts(op[t].key, op[t].tok) THEN "stored" ELSE "refused"

\* After the hook: the epoch is checked again and the adapter is called.
CacheSet(t) ==
    /\ At(t, "set")
    /\ IF ~cacheEpochUnchanged(t)
       THEN Goto(t, "return") /\ UNCHANGED <<cache, tag, fresh>>
       ELSE IF ~Sync
       THEN Goto(t, "setting") /\ UNCHANGED <<cache, tag, fresh>>
       ELSE Put(op[t].key, op[t].val, op[t].tok) /\ Goto(t, Outcome(t))
    /\ Normal
    /\ UNCHANGED <<store, late, epochVars, failureVars, historyVars>>

SetLands(t) ==
    /\ At(t, "setting")
    /\ Put(op[t].key, op[t].val, op[t].tok)
    /\ Goto(t, Outcome(t))
    /\ Normal
    /\ UNCHANGED <<store, late, epochVars, failureVars, historyVars>>

\* Mutant: a set that an invalidation overtook is left in the cache.
SetReturnsUnchecked(t) ==
    /\ op[t].pc \in {"stored", "refused"}
    /\ Goto(t, IF At(t, "stored") THEN "hook" ELSE "return")
    /\ IF At(t, "stored")
       THEN clearCacheInvalidationFailure(Home[t], op[t].key)
       ELSE UNCHANGED failureVars
    /\ Normal
    /\ UNCHANGED <<store, cacheVars, epochVars, historyVars>>

\* A refused set changes nothing; one that an invalidation overtook is taken
\* back; one that was not clears the failure mark and runs afterCacheSet.
SetReturns(t) ==
    /\ op[t].pc \in {"stored", "refused"}
    /\ Goto(t, IF At(t, "refused") THEN "return" ELSE IF cacheEpochUnchanged(t) THEN "hook" ELSE "undo")
    /\ IF At(t, "stored") /\ cacheEpochUnchanged(t)
       THEN clearCacheInvalidationFailure(Home[t], op[t].key)
       ELSE UNCHANGED failureVars
    /\ Normal
    /\ UNCHANGED <<store, cacheVars, epochVars, historyVars>>

AfterCacheSet(t) ==
    /\ At(t, "hook")
    /\ Goto(t, "return")
    /\ Normal
    /\ UNCHANGED <<store, cacheVars, epochVars, failureVars, historyVars>>

\* poisonCommittedCacheSet: the set threw before, after or without taking
\* effect, or may take effect later; or the hook afterCacheSet threw.
SetThrows(t) ==
    /\ \/ At(t, "set") /\ Sync /\ cacheEpochUnchanged(t) /\ UNCHANGED late
       \/ At(t, "setting") /\ late' = late \cup {[key |-> op[t].key, val |-> op[t].val, tok |-> op[t].tok]}
       \/ op[t].pc \in {"stored", "refused", "hook"} /\ UNCHANGED late
    /\ bumpCacheEpoch(Home[t], op[t].key)
    /\ Goto(t, "poison")
    /\ Fault
    /\ UNCHANGED <<store, cache, tag, fresh, failureVars, historyVars>>

UndoReturns(t) ==
    /\ At(t, "undone")
    /\ Goto(t, "return")
    /\ Normal
    /\ UNCHANGED <<store, cacheVars, epochVars, failureVars, historyVars>>

PoisonReturns(t) ==
    /\ At(t, "poisoned")
    /\ clearCacheInvalidationFailure(Home[t], op[t].key)
    /\ End(t)
    /\ Normal
    /\ UNCHANGED <<store, cacheVars, epochVars, historyVars>>

\* The delete that takes a fill back fails; it may have taken effect.
CleanupThrows(t) ==
    /\ op[t].pc \in {"undo", "undone", "poison", "poisoned"}
    /\ markCacheInvalidationFailure(Home[t], op[t].key)
    /\ End(t)
    /\ Fault
    /\ UNCHANGED <<store, cacheVars, epochVars, historyVars>>

\* The load resolves with op[t].val.
LoadReturns(t) ==
    /\ At(t, "return")
    /\ End(t)
    /\ Normal
    /\ UNCHANGED <<store, cacheVars, epochVars, failureVars, historyVars>>

\* A process dies and starts again: its registries are in memory only, and a
\* set on its way may still land.  (A memory cache dies with its process.)
Restart(p) ==
    LET mine == {t \in Tasks : Home[t] = p /\ ~At(t, "idle")} IN
    /\ ~Sync
    /\ mine # {}
    /\ late' = late \cup {[key |-> op[t].key, val |-> op[t].val, tok |-> op[t].tok] :
                              t \in {u \in mine : At(u, "setting")}}
    /\ op' = [t \in Tasks |-> IF t \in mine THEN Idle ELSE op[t]]
    /\ held' = [held EXCEPT ![p] = {}]
    /\ epochs' = [epochs EXCEPT ![p] = [k \in Keys |-> 0]]
    /\ defaultEpoch' = [defaultEpoch EXCEPT ![p] = 0]
    /\ failures' = [failures EXCEPT ![p] = {}]
    /\ poisoned' = [poisoned EXCEPT ![p] = FALSE]
    /\ recovered' = [recovered EXCEPT ![p] = {}]
    /\ known' = [known EXCEPT ![p] = [k \in Keys |-> 0]]
    /\ Fault
    /\ UNCHANGED <<store, cache, tag, fresh, acked>>

----------------------------------------------------------------------------

Operation(t) ==
    \/ \E k \in Keys : StartWrite(t, k) \/ StartInvalidate(t, k) \/ StartLoad(t, k)
    \/ StoreWrite(t) \/ StoreConflict(t) \/ StoreThrows(t)
    \/ Invalidate(t) \/ Delete(t) \/ DeleteReturns(t) \/ DeleteThrows(t)
    \/ CacheGet(t) \/ UseHit(t) \/ RecoverVersion(t) \/ RecoverThrows(t) \/ StoreRead(t)
    \/ LoadThrows(t) \/ Fill(t) \/ CacheSet(t) \/ SetLands(t) \/ SetReturns(t) \/ SetThrows(t)
    \/ AfterCacheSet(t) \/ UndoReturns(t) \/ PoisonReturns(t) \/ CleanupThrows(t) \/ LoadReturns(t)

Next ==
    \/ \E t \in Tasks : Operation(t)
    \/ \E k \in Keys : Expire(k)
    \/ \E m \in late : LateSet(m)
    \/ \E p \in Procs : Restart(p)

Spec == Init /\ [][Next]_vars

----------------------------------------------------------------------------
(* Properties.                                                             *)

\* The load of task t is going to resolve with op[t].val.
Resolved(t) == op[t].pc \in {"fill", "set", "setting", "stored", "refused", "hook", "undo", "undone", "return"}

\* A load that begins after a write was acknowledged (its invalidation
\* succeeded and save or delete resolved) never gives a row older than that
\* write, in any process, whatever fills, failures and restarts happen in
\* between.  Promised by versioned caches and by the in-memory adapter.
NoStaleRead == \A t \in Tasks : Resolved(t) => op[t].val >= op[t].need

\* A load through a process never gives a row older than the last write that
\* ended there before it, even if that write's invalidation failed and the
\* stale entry is still cached: the failed key is read from the store.
FailedKeysProtected == \A t \in Tasks : Resolved(t) => op[t].val >= op[t].own

\* When all operations have ended no outdated row is left in the cache: every
\* fill that an invalidation overtook was taken back (writeCacheEntries).
NoStaleResidue ==
    (late = {} /\ \A t \in Tasks : At(t, "idle")) =>
        \A k \in Keys : cache[k] \in {Miss, store[k]}

\* A hit that a step uses is not older than any acknowledged write to its row.
UsesFreshHits ==
    \A t \in Tasks : (At(t, "got") /\ op'[t].pc = "return") => op[t].val >= acked[op[t].key]

\* A hit that is used is not older than any write acknowledged before the load
\* resumed, even one that began after the cache was read: the epoch is compared
\* again when the cache has answered.  Promised inside one process.
NoOvertakenHit == [][UsesFreshHits]_vars

----------------------------------------------------------------------------
(* Why NoStaleRead holds: an inductive invariant.                          *)

\* Epochs only grow, tokens are new, and the memory adapter keeps no set on
\* its way.
InvRegistry ==
    /\ \A t \in Tasks : ~At(t, "idle") => op[t].epoch <= cacheEpoch(Home[t], op[t].key)
    /\ \A k \in Keys : tag[k] < fresh
    /\ \A t \in Tasks : op[t].tok < fresh
    /\ \A m \in late : m.tok < fresh
    /\ Sync => late = {} /\ \A t \in Tasks : ~At(t, "setting")

\* Would the cache take the row that load t has read?
MayPut(t) ==
    /\ op[t].pc \in {"fill", "set", "setting"}
    /\ IF Distributed THEN op[t].tok # 0 /\ op[t].tok = tag[op[t].key]
                      ELSE cacheEpochUnchanged(t)

\* No row of key k older than version n is going to be cached ...
FillsFrom(k, n) ==
    /\ \A t \in Tasks : op[t].key = k /\ MayPut(t) => op[t].val >= n
    /\ \A m \in late : m.key = k /\ m.tok # 0 /\ m.tok = tag[k] => m.val >= n

\* ... or is cached now.
HoldsFrom(k, n) == FillsFrom(k, n) /\ (cache[k] # Miss => cache[k] >= n)

InvWrites ==
    /\ \A k \in Keys : acked[k] <= store[k] /\ HoldsFrom(k, acked[k])
    /\ \A t \in Tasks : op[t].pc \in {"write", "written", "drop", "dropped"} => op[t].ver <= store[op[t].key]
    /\ \A t \in Tasks : At(t, "drop") /\ Sync => FillsFrom(op[t].key, op[t].ver)
    /\ \A t \in Tasks : At(t, "dropped") => HoldsFrom(op[t].key, op[t].ver)

InvLoads ==
    \A t \in Tasks :
        /\ ~At(t, "idle") => op[t].need <= acked[op[t].key]
        /\ At(t, "got") /\ op[t].val # Miss =>
               /\ op[t].val >= op[t].need
               /\ Sync /\ cacheEpochUnchanged(t) => op[t].val >= acked[op[t].key]
        /\ Resolved(t) => op[t].val \in Nat /\ op[t].val >= op[t].need

\* Whatever the cache holds, or may still be given, of a key is at least as new
\* as the acknowledged writes of the key and the writes whose delete it has
\* processed.
CacheInv == TypeOK /\ InvRegistry /\ InvWrites /\ InvLoads

(***************************************************************************)
(* Values of Home for model checking, all tasks in one process or each in   *)
(* its own, and the symmetry of the sets.                                   *)
(***************************************************************************)
Together == [t \in Tasks |-> CHOOSE p \in Procs : TRUE]
Apart == [t \in Tasks |-> t]
Symmetry == Permutations(Procs) \cup Permutations(Tasks) \cup Permutations(Keys)
=============================================================================
