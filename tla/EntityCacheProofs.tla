-------------------------- MODULE EntityCacheProofs --------------------------
(* Proofs about EntityCache, for any number of processes, tasks and keys, and about *)
(* BatchLoader, for any number of callers and ids.                                  *)
EXTENDS EntityCache, SequenceTheorems, FiniteSetTheorems, WellFoundedInduction, TLAPS

----------------------------------------------------------------------------
(* The registries.                                                         *)

EpochType ==
    /\ held' \in [Procs -> SUBSET Keys]
    /\ epochs' \in [Procs -> [Keys -> Nat]]
    /\ defaultEpoch' \in [Procs -> Nat]

EpochsGrow == \A q \in Procs, j \in Keys : cacheEpoch(q, j)' >= cacheEpoch(q, j)

\* A bump moves the epoch of its key and lowers none, evictions included.
LEMMA EpochGrows ==
    ASSUME TypeOK, NEW p \in Procs, NEW k \in Keys, bumpCacheEpoch(p, k)
    PROVE  EpochType /\ EpochsGrow /\ cacheEpoch(p, k)' > cacheEpoch(p, k)
<1> DEFINE h == held[p] \cup {k}
<1>0. epochs' = [epochs EXCEPT ![p][k] = cacheEpoch(p, k) + 1]
  BY DEF bumpCacheEpoch
<1>3. /\ cacheEpoch(p, k) \in Nat
      /\ held \in [Procs -> SUBSET Keys]
      /\ epochs \in [Procs -> [Keys -> Nat]]
      /\ defaultEpoch \in [Procs -> Nat]
  BY DEF cacheEpoch, TypeOK
<1>1. CASE Cardinality(h) <= EpochLimit
  <2>1. held' = [held EXCEPT ![p] = held[p] \cup {k}] /\ defaultEpoch' = defaultEpoch
    BY <1>1 DEF bumpCacheEpoch
  <2>2. EpochType
    BY <2>1, <1>0, <1>3 DEF EpochType
  <2>3. cacheEpoch(p, k)' > cacheEpoch(p, k)
    BY <2>1, <1>0, <1>3 DEF cacheEpoch
  <2>4. EpochsGrow
    BY <2>1, <1>0, <1>3 DEF cacheEpoch, EpochsGrow
  <2> QED BY <2>2, <2>3, <2>4
<1>2. CASE ~(Cardinality(h) <= EpochLimit)
  <2>1. PICK oldest \in h \ {k} :
            /\ held' = [held EXCEPT ![p] = h \ {oldest}]
            /\ defaultEpoch' = [defaultEpoch EXCEPT ![p] = Larger(@, epochs[p][oldest] + 1)]
    BY <1>2 DEF bumpCacheEpoch, EvictEpoch
  <2>3. oldest \in Keys /\ oldest \in held[p] /\ oldest # k
    BY <1>3
  <2>4. EpochType
    BY <1>0, <1>3, <2>1, <2>3 DEF EpochType, Larger
  <2>5. cacheEpoch(p, k)' > cacheEpoch(p, k)
    BY <1>0, <1>3, <2>1, <2>3 DEF cacheEpoch
  <2>6. EpochsGrow
    BY <1>0, <1>3, <2>1, <2>3 DEF cacheEpoch, EpochsGrow, Larger
  <2> QED BY <2>4, <2>5, <2>6
<1> QED BY <1>1, <1>2

FailureType ==
    /\ failures' \in [Procs -> SUBSET Keys]
    /\ poisoned' \in [Procs -> BOOLEAN]
    /\ recovered' \in [Procs -> SUBSET Keys]

\* Recording a failed invalidation keeps the types of the failure registry.
LEMMA MarkType ==
    ASSUME TypeOK, NEW p \in Procs, NEW k \in Keys, markCacheInvalidationFailure(p, k)
    PROVE  FailureType
<1>1. CASE Cardinality(failures[p] \cup {k}) <= FailureLimit
  <2>1. failures' = [failures EXCEPT ![p] = failures[p] \cup {k}]
        /\ recovered' = [recovered EXCEPT ![p] = @ \ {k}] /\ poisoned' = poisoned
    BY <1>1 DEF markCacheInvalidationFailure
  <2> QED BY <2>1 DEF FailureType, TypeOK
<1>2. CASE ~(Cardinality(failures[p] \cup {k}) <= FailureLimit)
  <2>1. failures' = [failures EXCEPT ![p] = {}]
        /\ recovered' = [recovered EXCEPT ![p] = {}]
        /\ poisoned' = [poisoned EXCEPT ![p] = TRUE]
    BY <1>2 DEF markCacheInvalidationFailure
  <2> QED BY <2>1 DEF FailureType, TypeOK
<1> QED BY <1>1, <1>2

\* So does clearing one.
LEMMA ClearType ==
    ASSUME TypeOK, NEW p \in Procs, NEW k \in Keys, clearCacheInvalidationFailure(p, k)
    PROVE  FailureType
<1> DEFINE r == recovered[p] \cup {k}
<1>1. failures' = [failures EXCEPT ![p] = @ \ {k}] /\ poisoned' = poisoned
  BY DEF clearCacheInvalidationFailure
<1>2. \/ recovered' = recovered
      \/ recovered' = [recovered EXCEPT ![p] = r]
      \/ \E oldest \in r \ {k} : recovered' = [recovered EXCEPT ![p] = r \ {oldest}]
  <2>1. CASE ~poisoned[p]
    BY <2>1 DEF clearCacheInvalidationFailure
  <2>2. CASE poisoned[p] /\ Cardinality(r) <= FailureLimit
    BY <2>2 DEF clearCacheInvalidationFailure
  <2>3. CASE poisoned[p] /\ ~(Cardinality(r) <= FailureLimit)
    BY <2>3 DEF clearCacheInvalidationFailure
  <2> QED BY <2>1, <2>2, <2>3
<1>3. recovered' \in [Procs -> SUBSET Keys]
  <2>1. recovered \in [Procs -> SUBSET Keys] /\ recovered[p] \in SUBSET Keys
    BY DEF TypeOK
  <2>2. ASSUME NEW s \in SUBSET Keys, recovered' = [recovered EXCEPT ![p] = s]
        PROVE  recovered' \in [Procs -> SUBSET Keys]
    BY <2>1, <2>2
  <2>3. r \in SUBSET Keys /\ \A oldest : r \ {oldest} \in SUBSET Keys
    BY <2>1
  <2> QED BY <1>2, <2>1, <2>2, <2>3
<1> QED BY <1>1, <1>3 DEF FailureType, TypeOK

----------------------------------------------------------------------------
(* Steps of one operation.                                                 *)

\* Only task t's operation changes.
OnlyOp(t) == op' \in [Tasks -> Op] /\ \A u \in Tasks : u # t => op'[u] = op[u]

\* Task t keeps everything but its control state.
KeepsOp(t) ==
    /\ op'[t].key = op[t].key /\ op'[t].epoch = op[t].epoch /\ op'[t].tok = op[t].tok
    /\ op'[t].val = op[t].val /\ op'[t].ver = op[t].ver
    /\ op'[t].need = op[t].need /\ op'[t].own = op[t].own

\* An operation that moves on keeps its data.
LEMMA GotoOp ==
    ASSUME TypeOK, NEW t \in Tasks, NEW q \in Pcs, Goto(t, q)
    PROVE  OnlyOp(t) /\ KeepsOp(t) /\ op'[t].pc = q
<1>1. op \in [Tasks -> Op] /\ op[t] \in Op
  BY DEF TypeOK
<1>2. [op[t] EXCEPT !.pc = q] \in Op
  BY <1>1, Zenon DEF Op
<1>3. op' = [op EXCEPT ![t] = [op[t] EXCEPT !.pc = q]]
  BY DEF Goto
<1>4. OnlyOp(t) /\ op'[t] = [op[t] EXCEPT !.pc = q]
  BY <1>1, <1>2, <1>3 DEF OnlyOp
<1> QED BY <1>1, <1>4 DEF KeepsOp, Op

\* An idle task has an operation record too.
LEMMA IdleOp == Idle \in Op
<1>1. -1 \in Value /\ 0 \in Nat /\ "idle" \in Pcs /\ None \in Keys \cup {None}
  BY DEF Value, Miss, Pcs
<1> QED BY <1>1 DEF Op, Idle, Miss

\* An operation that ends leaves the others alone.
LEMMA EndOp ==
    ASSUME TypeOK, NEW t \in Tasks, End(t)
    PROVE  OnlyOp(t) /\ op'[t] = Idle
BY IdleOp DEF End, OnlyOp, TypeOK

----------------------------------------------------------------------------
(* What a step may do to the rows that are cached or about to be.          *)

\* Versions of keys stay, vanish or are new.
TagsMove ==
    /\ fresh' \in Nat /\ fresh' >= fresh
    /\ tag' \in [Keys -> Nat]
    /\ \A k \in Keys : tag'[k] < fresh' /\ (tag'[k] = tag[k] \/ tag'[k] = 0 \/ tag'[k] >= fresh)

\* A load that may put a row could do so before, or has just read the row.
FillsKept ==
    \A u \in Tasks : MayPut(u)' =>
        \/ MayPut(u) /\ op'[u].key = op[u].key /\ op'[u].val = op[u].val
        \/ op'[u].key \in Keys /\ op'[u].val >= store[op'[u].key]

\* A set that may still land is an old one, or one whose caller gave up.
LateKept ==
    \A m \in late' : (m.tok # 0 /\ m.tok = tag'[m.key]) =>
        \/ m \in late /\ m.tok = tag[m.key]
        \/ \E u \in Tasks : MayPut(u) /\ op[u].key = m.key /\ op[u].val = m.val

\* A cached row was cached before, or was about to be.
CacheKept ==
    \A k \in Keys : cache'[k] # Miss =>
        \/ cache'[k] = cache[k]
        \/ \E u \in Tasks : MayPut(u) /\ op[u].key = k /\ op[u].val = cache'[k]
        \/ \E m \in late : m.key = k /\ m.tok # 0 /\ m.tok = tag[k] /\ m.val = cache'[k]

\* A bound below the stored version survives such a step.
LEMMA BoundsKept ==
    ASSUME NEW k \in Keys, NEW n \in Nat, TypeOK, TypeOK', n <= store[k], FillsKept, LateKept
    PROVE  /\ FillsFrom(k, n) => FillsFrom(k, n)'
           /\ CacheKept /\ HoldsFrom(k, n) => HoldsFrom(k, n)'
<1>0. store \in [Keys -> Nat] /\ cache \in [Keys -> Value] /\ cache' \in [Keys -> Value]
      /\ op \in [Tasks -> Op] /\ op' \in [Tasks -> Op]
  BY DEF TypeOK
<1>1. ASSUME FillsFrom(k, n) PROVE FillsFrom(k, n)'
  <2>1. ASSUME NEW u \in Tasks, op'[u].key = k, MayPut(u)' PROVE op'[u].val >= n
    <3>1. op[u].val \in Int /\ op'[u].val \in Int
      BY <1>0 DEF Op, Value, Miss
    <3>2. CASE MayPut(u) /\ op'[u].key = op[u].key /\ op'[u].val = op[u].val
      BY <2>1, <3>2, <1>1 DEF FillsFrom
    <3>3. CASE op'[u].val >= store[op'[u].key]
      BY <2>1, <3>3, <3>1, <1>0
    <3> QED BY <2>1, <3>2, <3>3 DEF FillsKept
  <2>2. ASSUME NEW m \in late', m.key = k, m.tok # 0, m.tok = tag'[k] PROVE m.val >= n
    <3>1. CASE m \in late /\ m.tok = tag[m.key]
      BY <2>2, <3>1, <1>1 DEF FillsFrom
    <3>2. CASE \E u \in Tasks : MayPut(u) /\ op[u].key = m.key /\ op[u].val = m.val
      BY <2>2, <3>2, <1>1 DEF FillsFrom
    <3> QED BY <2>2, <3>1, <3>2 DEF LateKept
  <2> QED BY <2>1, <2>2 DEF FillsFrom
<1>2. ASSUME CacheKept, HoldsFrom(k, n) PROVE HoldsFrom(k, n)'
  <2>1. ASSUME cache'[k] # Miss PROVE cache'[k] >= n
    <3>1. CASE cache'[k] = cache[k]
      BY <2>1, <3>1, <1>2 DEF HoldsFrom
    <3>2. CASE \E u \in Tasks : MayPut(u) /\ op[u].key = k /\ op[u].val = cache'[k]
      BY <3>2, <1>2 DEF HoldsFrom, FillsFrom
    <3>3. CASE \E m \in late : m.key = k /\ m.tok # 0 /\ m.tok = tag[k] /\ m.val = cache'[k]
      BY <3>3, <1>2 DEF HoldsFrom, FillsFrom
    <3> QED BY <1>2, <2>1, <3>1, <3>2, <3>3 DEF CacheKept
  <2> QED BY <1>1, <1>2, <2>1 DEF HoldsFrom
<1> QED BY <1>1, <1>2

\* An operation that keeps its row and its permit had the permit before.
LEMMA PermitKept ==
    ASSUME TypeOK, InvRegistry, TagsMove, NEW u \in Tasks,
           Home[u] \in Procs, op[u].key \in Keys,
           cacheEpoch(Home[u], op[u].key)' >= cacheEpoch(Home[u], op[u].key),
           op[u].pc \in {"fill", "set", "setting"},
           op'[u].key = op[u].key, op'[u].epoch = op[u].epoch, op'[u].tok = op[u].tok,
           MayPut(u)'
    PROVE  MayPut(u)
<1>1. CASE Distributed
  <2>1. op[u].tok # 0 /\ op[u].tok = tag'[op[u].key]
    BY <1>1 DEF MayPut
  <2>2. op[u].tok < fresh /\ op[u].tok \in Nat /\ fresh \in Nat
    BY DEF InvRegistry, TypeOK, Op
  <2>3. op[u].tok = tag[op[u].key]
    BY <2>1, <2>2 DEF TagsMove, TypeOK
  <2> QED BY <1>1, <2>1, <2>3 DEF MayPut
<1>2. CASE ~Distributed
  <2>1. op[u].epoch = cacheEpoch(Home[u], op[u].key)'
    BY <1>2 DEF MayPut, cacheEpochUnchanged
  <2>2. op[u].epoch <= cacheEpoch(Home[u], op[u].key)
    BY DEF InvRegistry, At
  <2>3. op[u].epoch \in Nat /\ cacheEpoch(Home[u], op[u].key) \in Nat
    BY DEF TypeOK, Op, cacheEpoch
  <2>4. op[u].epoch = cacheEpoch(Home[u], op[u].key)
    BY <2>1, <2>2, <2>3
  <2> QED BY <1>2, <2>4 DEF MayPut, cacheEpochUnchanged
<1> QED BY <1>1, <1>2

\* The operation record after each action that changes more than its control
\* state.  A write has no version before the store has answered.
LEMMA StartWriteOp ==
    ASSUME TypeOK, NEW t \in Tasks, NEW k \in Keys, StartWrite(t, k)
    PROVE  /\ OnlyOp(t) /\ op'[t].pc = "write" /\ op'[t].key = k /\ op'[t].ver = 0
           /\ op'[t].epoch = 0 /\ op'[t].tok = 0 /\ op'[t].need = 0
<1> DEFINE o == [Idle EXCEPT !.pc = "write", !.key = k]
<1>1. "write" \in Pcs /\ k \in Keys \cup {None}
  BY DEF Pcs
<1>2. o \in Op
  BY <1>1, IdleOp, Zenon DEF Op
<1>3. o.pc = "write" /\ o.key = k /\ o.epoch = 0 /\ o.tok = 0 /\ o.need = 0 /\ o.ver = 0
  BY DEF Idle
<1>4. op' = [op EXCEPT ![t] = o]
  BY DEF StartWrite
<1> HIDE DEF o
<1> QED BY <1>2, <1>3, <1>4 DEF OnlyOp, TypeOK

\* An explicit invalidation writes nothing.
LEMMA StartInvalidateOp ==
    ASSUME TypeOK, NEW t \in Tasks, NEW k \in Keys, StartInvalidate(t, k)
    PROVE  /\ OnlyOp(t) /\ op'[t].pc = "drop" /\ op'[t].key = k /\ op'[t].ver = 0
           /\ op'[t].epoch = 0 /\ op'[t].tok = 0 /\ op'[t].need = 0
<1> DEFINE o == [Idle EXCEPT !.pc = "drop", !.key = k]
<1>1. "drop" \in Pcs /\ k \in Keys \cup {None}
  BY DEF Pcs
<1>2. o \in Op
  BY <1>1, IdleOp, Zenon DEF Op
<1>3. o.pc = "drop" /\ o.key = k /\ o.epoch = 0 /\ o.tok = 0 /\ o.need = 0 /\ o.ver = 0
  BY DEF Idle
<1>4. op' = [op EXCEPT ![t] = o]
  BY DEF StartInvalidate
<1> HIDE DEF o
<1> QED BY <1>2, <1>3, <1>4 DEF OnlyOp, TypeOK

\* A load captures the epoch and what was acknowledged before it.
LEMMA StartLoadOp ==
    ASSUME TypeOK, NEW t \in Tasks, NEW k \in Keys, StartLoad(t, k)
    PROVE  /\ OnlyOp(t) /\ op'[t].pc \in {"get", "recover", "read"} /\ op'[t].key = k
           /\ op'[t].epoch = cacheEpoch(Home[t], k) /\ op'[t].tok = 0 /\ op'[t].need = acked[k]
<1> DEFINE next == IF ~hasCacheInvalidationFailure(Home[t], k) THEN "get"
                   ELSE IF Distributed THEN "recover" ELSE "read"
           o == [Idle EXCEPT !.pc = next, !.key = k, !.epoch = cacheEpoch(Home[t], k),
                             !.need = acked[k], !.own = known[Home[t]][k]]
<1>0. next \in {"get", "recover", "read"}
  OBVIOUS
<1>4. op' = [op EXCEPT ![t] = o]
  BY Zenon DEF StartLoad
<1> HIDE DEF next
<1>1. next \in Pcs /\ k \in Keys \cup {None}
      /\ cacheEpoch(Home[t], k) \in Nat /\ acked[k] \in Nat /\ known[Home[t]][k] \in Nat
  BY <1>0, EntityCacheAssumption DEF Pcs, TypeOK, cacheEpoch
<1>2. o \in Op
  BY <1>1, IdleOp, Zenon DEF Op
<1>3. o.pc = next /\ o.key = k /\ o.epoch = cacheEpoch(Home[t], k) /\ o.tok = 0 /\ o.need = acked[k]
  BY DEF Idle
<1> HIDE DEF o
<1> QED BY <1>0, <1>2, <1>3, <1>4 DEF OnlyOp, TypeOK

\* A write learns its version from the store.
LEMMA StoreWriteOp ==
    ASSUME TypeOK, NEW t \in Tasks, StoreWrite(t)
    PROVE  /\ OnlyOp(t) /\ op[t].pc = "write" /\ op[t].key \in Keys /\ op'[t].pc = "written"
           /\ op'[t].ver = store[op[t].key] + 1
           /\ op'[t].key = op[t].key /\ op'[t].epoch = op[t].epoch /\ op'[t].tok = op[t].tok
           /\ op'[t].val = op[t].val /\ op'[t].need = op[t].need
<1> DEFINE o == [op[t] EXCEPT !.pc = "written", !.ver = store[op[t].key] + 1]
<1>1. op[t] \in Op /\ op[t].pc = "write" /\ op[t].key \in Keys
  BY DEF StoreWrite, At, TypeOK
<1>2. "written" \in Pcs /\ store[op[t].key] + 1 \in Nat
  BY <1>1, EntityCacheAssumption DEF TypeOK, Pcs, Value, versionOf
<1>3. o \in Op
  BY <1>1, <1>2, Zenon DEF Op
<1>4. o.pc = "written" /\ o.ver = store[op[t].key] + 1 /\ o.key = op[t].key /\ o.epoch = op[t].epoch
      /\ o.tok = op[t].tok /\ o.val = op[t].val /\ o.need = op[t].need
  BY <1>1 DEF Op
<1>5. op' = [op EXCEPT ![t] = o]
  BY DEF StoreWrite
<1> HIDE DEF o
<1> QED BY <1>1, <1>3, <1>4, <1>5 DEF OnlyOp, TypeOK

\* A load takes row and version from the cache.
LEMMA CacheGetOp ==
    ASSUME TypeOK, NEW t \in Tasks, CacheGet(t)
    PROVE  /\ OnlyOp(t) /\ op[t].pc = "get" /\ op[t].key \in Keys /\ op'[t].pc = "got"
           /\ op'[t].val = cache[op[t].key]
           /\ op'[t].tok = (IF Distributed THEN versionOf(op[t].key) ELSE 0)
           /\ op'[t].key = op[t].key /\ op'[t].epoch = op[t].epoch /\ op'[t].ver = op[t].ver
           /\ op'[t].need = op[t].need
<1> DEFINE o == [op[t] EXCEPT !.pc = "got", !.val = cache[op[t].key], !.tok = (IF Distributed THEN versionOf(op[t].key) ELSE 0)]
<1>1. op[t] \in Op /\ op[t].pc = "get" /\ op[t].key \in Keys
  BY DEF CacheGet, At, TypeOK
<1>2. "got" \in Pcs /\ cache[op[t].key] \in Value /\ (IF Distributed THEN versionOf(op[t].key) ELSE 0) \in Nat
  BY <1>1, EntityCacheAssumption DEF TypeOK, Pcs, Value, versionOf
<1>3. o \in Op
  BY <1>1, <1>2, Zenon DEF Op
<1>4. o.pc = "got" /\ o.val = cache[op[t].key]
      /\ o.tok = (IF Distributed THEN versionOf(op[t].key) ELSE 0) /\ o.key = op[t].key
      /\ o.epoch = op[t].epoch /\ o.ver = op[t].ver /\ o.need = op[t].need
  BY <1>1 DEF Op
<1>5. op' = [op EXCEPT ![t] = o]
  BY DEF CacheGet
<1> HIDE DEF o
<1> QED BY <1>1, <1>3, <1>4, <1>5 DEF OnlyOp, TypeOK

\* A load of a failed key takes the version alone.
LEMMA RecoverVersionOp ==
    ASSUME TypeOK, NEW t \in Tasks, RecoverVersion(t)
    PROVE  /\ OnlyOp(t) /\ op[t].pc = "recover" /\ op[t].key \in Keys /\ op'[t].pc = "read"
           /\ op'[t].tok = versionOf(op[t].key)
           /\ op'[t].key = op[t].key /\ op'[t].epoch = op[t].epoch /\ op'[t].val = op[t].val
           /\ op'[t].ver = op[t].ver /\ op'[t].need = op[t].need
<1> DEFINE o == [op[t] EXCEPT !.pc = "read", !.tok = versionOf(op[t].key)]
<1>1. op[t] \in Op /\ op[t].pc = "recover" /\ op[t].key \in Keys
  BY DEF RecoverVersion, At, TypeOK
<1>2. "read" \in Pcs /\ versionOf(op[t].key) \in Nat
  BY <1>1, EntityCacheAssumption DEF TypeOK, Pcs, Value, versionOf
<1>3. o \in Op
  BY <1>1, <1>2, Zenon DEF Op
<1>4. o.pc = "read" /\ o.tok = versionOf(op[t].key) /\ o.key = op[t].key /\ o.epoch = op[t].epoch
      /\ o.val = op[t].val /\ o.ver = op[t].ver /\ o.need = op[t].need
  BY <1>1 DEF Op
<1>5. op' = [op EXCEPT ![t] = o]
  BY DEF RecoverVersion
<1> HIDE DEF o
<1> QED BY <1>1, <1>3, <1>4, <1>5 DEF OnlyOp, TypeOK

\* A load takes the row from the store.
LEMMA StoreReadOp ==
    ASSUME TypeOK, NEW t \in Tasks, StoreRead(t)
    PROVE  /\ OnlyOp(t) /\ op[t].pc = "read" /\ op[t].key \in Keys /\ op'[t].pc = "fill"
           /\ op'[t].val = store[op[t].key]
           /\ op'[t].key = op[t].key /\ op'[t].epoch = op[t].epoch /\ op'[t].tok = op[t].tok
           /\ op'[t].ver = op[t].ver /\ op'[t].need = op[t].need
<1> DEFINE o == [op[t] EXCEPT !.pc = "fill", !.val = store[op[t].key]]
<1>1. op[t] \in Op /\ op[t].pc = "read" /\ op[t].key \in Keys
  BY DEF StoreRead, At, TypeOK
<1>2. "fill" \in Pcs /\ store[op[t].key] \in Value
  BY <1>1, EntityCacheAssumption DEF TypeOK, Pcs, Value, versionOf
<1>3. o \in Op
  BY <1>1, <1>2, Zenon DEF Op
<1>4. o.pc = "fill" /\ o.val = store[op[t].key] /\ o.key = op[t].key /\ o.epoch = op[t].epoch
      /\ o.tok = op[t].tok /\ o.ver = op[t].ver /\ o.need = op[t].need
  BY <1>1 DEF Op
<1>5. op' = [op EXCEPT ![t] = o]
  BY DEF StoreRead
<1> HIDE DEF o
<1> QED BY <1>1, <1>3, <1>4, <1>5 DEF OnlyOp, TypeOK

----------------------------------------------------------------------------
(* A step keeps the invariant if the operations it changes are sound and   *)
(* everything else moves forward only.                                     *)

StoreGrows == \A k \in Keys : store'[k] >= store[k]

\* The epochs that guard an operation do not go back under it.
EpochsHold ==
    \A u \in Tasks : (op'[u] = op[u] /\ ~At(u, "idle")) =>
        cacheEpoch(Home[u], op[u].key)' >= cacheEpoch(Home[u], op[u].key)

LateSound == (\A m \in late' : m.tok < fresh') /\ (Sync => late' = {})

\* A write is acknowledged only when nothing older is left, and moves the epoch.
AckedMoves ==
    \A k \in Keys : acked'[k] = acked[k] \/
        /\ acked'[k] >= acked[k] /\ acked'[k] <= store[k] /\ HoldsFrom(k, acked'[k])
        /\ Sync => \A u \in Tasks : cacheEpoch(Home[u], k)' > cacheEpoch(Home[u], k)

\* The operation that task u has after the step.
NewOp(u) ==
    LET o == op'[u] IN
    /\ o.pc # "idle" => o.epoch <= cacheEpoch(Home[u], op[u].key)' /\ o.need <= acked'[o.key]
    /\ o.tok < fresh'
    /\ Sync => o.pc # "setting"
    /\ o.pc \in {"write", "written", "drop", "dropped"} => o.ver <= store'[o.key]
    /\ o.pc = "drop" /\ Sync => FillsFrom(op[u].key, op[u].ver)'
    /\ o.pc = "dropped" => HoldsFrom(op[u].key, op[u].ver)'
    /\ MayPut(u)' => \/ MayPut(u) /\ o.key = op[u].key /\ o.val = op[u].val
                     \/ o.val >= store[o.key]
    /\ o.pc = "got" /\ o.val # Miss =>
           /\ o.val >= o.need
           /\ Sync /\ cacheEpochUnchanged(u)' => o.val >= acked'[o.key]
    /\ Resolved(u)' => o.val \in Nat /\ o.val >= o.need

\* A step keeps the invariant if store, versions, epochs and acknowledgements
\* only move forward, no new row gets a permit and changed operations are sound.
LEMMA CalmStep ==
    ASSUME CacheInv, TypeOK', EpochsHold, TagsMove, StoreGrows, LateKept, CacheKept,
           LateSound, AckedMoves, \A u \in Tasks : op'[u] = op[u] \/ NewOp(u)
    PROVE  CacheInv'
<1> USE EntityCacheAssumption
<1>0. TypeOK /\ InvRegistry /\ InvWrites /\ InvLoads
  BY DEF CacheInv
<1>1. ASSUME NEW u \in Tasks
      PROVE  /\ Home[u] \in Procs /\ op[u] \in Op /\ op'[u] \in Op
             /\ op[u].pc # "idle" => op[u].key \in Keys
             /\ op'[u].pc # "idle" => op'[u].key \in Keys
             /\ op[u].epoch \in Nat /\ op[u].ver \in Nat /\ op[u].tok \in Nat /\ op[u].need \in Nat
             /\ op'[u].epoch \in Nat /\ op'[u].ver \in Nat /\ op'[u].tok \in Nat /\ op'[u].need \in Nat
             /\ op[u].val \in Int /\ op'[u].val \in Int
  BY <1>0 DEF TypeOK, Op, Value, Miss
<1>2. ASSUME NEW p \in Procs, NEW k \in Keys
      PROVE  cacheEpoch(p, k) \in Nat /\ cacheEpoch(p, k)' \in Nat
  BY <1>0 DEF TypeOK, cacheEpoch
<1>3. ASSUME NEW k \in Keys
      PROVE  store[k] \in Nat /\ store'[k] \in Nat /\ acked[k] \in Nat /\ acked'[k] \in Nat
             /\ acked[k] <= acked'[k]
  BY <1>0 DEF TypeOK, AckedMoves
<1>4. FillsKept
  <2> SUFFICES ASSUME NEW u \in Tasks, MayPut(u)'
               PROVE  \/ MayPut(u) /\ op'[u].key = op[u].key /\ op'[u].val = op[u].val
                      \/ op'[u].key \in Keys /\ op'[u].val >= store[op'[u].key]
    BY DEF FillsKept
  <2>1. op'[u].pc # "idle" /\ op'[u].pc \in {"fill", "set", "setting"}
    BY DEF MayPut
  <2>2. CASE NewOp(u)
    BY <1>1, <2>1, <2>2 DEF NewOp
  <2>3. CASE op'[u] = op[u]
    <3>1. ~At(u, "idle") /\ op[u].key \in Keys
      BY <1>1, <2>1, <2>3 DEF At
    <3>2. MayPut(u)
      BY <1>0, <1>1, <2>1, <2>3, <3>1, PermitKept DEF EpochsHold
    <3> QED BY <2>3, <3>2
  <2> QED BY <2>2, <2>3
<1>5. InvRegistry'
  <2>1. ASSUME NEW u \in Tasks, ~At(u, "idle")' PROVE op'[u].epoch <= cacheEpoch(Home[u], op[u].key)'
    <3>1. CASE NewOp(u)
      BY <2>1, <3>1 DEF NewOp, At
    <3>2. CASE op'[u] = op[u]
      <4>1. ~At(u, "idle") /\ op[u].key \in Keys
        BY <1>1, <2>1, <3>2 DEF At
      <4>2. op[u].epoch <= cacheEpoch(Home[u], op[u].key)
        BY <1>0, <4>1 DEF InvRegistry
      <4>3. cacheEpoch(Home[u], op[u].key)' >= cacheEpoch(Home[u], op[u].key)
        BY <3>2, <4>1 DEF EpochsHold
      <4>5. cacheEpoch(Home[u], op[u].key) \in Nat /\ cacheEpoch(Home[u], op[u].key)' \in Nat
        BY <1>0, <1>1, <3>2, <4>1 DEF TypeOK, cacheEpoch
      <4> QED BY <1>1, <3>2, <4>2, <4>3, <4>5
    <3> QED BY <3>1, <3>2
  <2>2. ASSUME NEW u \in Tasks PROVE op'[u].tok < fresh'
    <3>1. CASE NewOp(u)
      BY <3>1 DEF NewOp
    <3>2. CASE op'[u] = op[u]
      BY <1>0, <1>1, <3>2 DEF InvRegistry, TagsMove, TypeOK
    <3> QED BY <3>1, <3>2
  <2>3. ASSUME Sync, NEW u \in Tasks PROVE op'[u].pc # "setting"
    BY <1>0, <2>3 DEF InvRegistry, At, NewOp
  <2> QED BY <2>1, <2>2, <2>3 DEF InvRegistry, TagsMove, LateSound, At
<1>6. InvWrites'
  <2>0. \A k \in Keys, n \in Nat : n <= store[k] =>
            /\ FillsFrom(k, n) => FillsFrom(k, n)'
            /\ HoldsFrom(k, n) => HoldsFrom(k, n)'
    BY <1>0, <1>4, BoundsKept
  <2>1. ASSUME NEW k \in Keys PROVE acked'[k] <= store'[k] /\ HoldsFrom(k, acked[k])'
    <3>1. acked'[k] <= store[k] /\ HoldsFrom(k, acked'[k])
      BY <1>0, <2>1 DEF AckedMoves, InvWrites
    <3>2. PICK n \in Nat : n = acked'[k] /\ n <= store[k] /\ HoldsFrom(k, n)
      BY <1>3, <3>1
    <3>3. HoldsFrom(k, n)'
      BY <2>0, <3>2
    <3>4. HoldsFrom(k, acked[k])'
      BY <3>2, <3>3 DEF HoldsFrom, FillsFrom
    <3> QED BY <1>3, <3>1, <3>4 DEF StoreGrows
  <2>2. ASSUME NEW u \in Tasks, op'[u].pc \in {"write", "written", "drop", "dropped"}
        PROVE  op'[u].ver <= store'[op'[u].key]
    <3>1. CASE NewOp(u)
      BY <2>2, <3>1 DEF NewOp
    <3>2. CASE op'[u] = op[u]
      <4>1. op[u].ver <= store[op[u].key] /\ op[u].key \in Keys
        BY <1>0, <1>1, <2>2, <3>2 DEF InvWrites
      <4> QED BY <1>1, <1>3, <3>2, <4>1 DEF StoreGrows
    <3> QED BY <3>1, <3>2
  <2>3. ASSUME NEW u \in Tasks, op'[u].pc = "drop", Sync PROVE FillsFrom(op[u].key, op[u].ver)'
    <3>1. CASE NewOp(u)
      BY <2>3, <3>1 DEF NewOp
    <3>2. CASE op'[u] = op[u]
      <4>1. /\ op[u].ver <= store[op[u].key] /\ op[u].key \in Keys /\ op[u].ver \in Nat
            /\ FillsFrom(op[u].key, op[u].ver)
        BY <1>0, <1>1, <2>3, <3>2 DEF InvWrites, At
      <4>2. PICK k \in Keys, n \in Nat : k = op'[u].key /\ n = op'[u].ver /\ n <= store[k] /\ FillsFrom(k, n)
        BY <3>2, <4>1
      <4>3. FillsFrom(k, n)'
        BY <2>0, <4>2
      <4> QED BY <4>2, <4>3 DEF FillsFrom
    <3> QED BY <3>1, <3>2
  <2>4. ASSUME NEW u \in Tasks, op'[u].pc = "dropped" PROVE HoldsFrom(op[u].key, op[u].ver)'
    <3>1. CASE NewOp(u)
      BY <2>4, <3>1 DEF NewOp
    <3>2. CASE op'[u] = op[u]
      <4>1. /\ op[u].ver <= store[op[u].key] /\ op[u].key \in Keys /\ op[u].ver \in Nat
            /\ HoldsFrom(op[u].key, op[u].ver)
        BY <1>0, <1>1, <2>4, <3>2 DEF InvWrites, At
      <4>2. PICK k \in Keys, n \in Nat : k = op'[u].key /\ n = op'[u].ver /\ n <= store[k] /\ HoldsFrom(k, n)
        BY <3>2, <4>1
      <4>3. HoldsFrom(k, n)'
        BY <2>0, <4>2
      <4> QED BY <4>2, <4>3 DEF HoldsFrom, FillsFrom
    <3> QED BY <3>1, <3>2
  <2> QED BY <2>1, <2>2, <2>3, <2>4 DEF InvWrites, At
<1>7. InvLoads'
  <2> SUFFICES ASSUME NEW u \in Tasks
               PROVE  /\ op'[u].pc # "idle" => op'[u].need <= acked'[op'[u].key]
                      /\ op'[u].pc = "got" /\ op'[u].val # Miss =>
                             /\ op'[u].val >= op'[u].need
                             /\ Sync /\ cacheEpochUnchanged(u)' => op'[u].val >= acked'[op'[u].key]
                      /\ Resolved(u)' => op'[u].val \in Nat /\ op'[u].val >= op'[u].need
    BY DEF InvLoads, At
  <2>1. CASE NewOp(u)
    BY <2>1 DEF NewOp
  <2>2. CASE op'[u] = op[u]
    <3>1. op'[u].pc # "idle" => op'[u].need <= acked'[op'[u].key]
      BY <1>0, <1>1, <1>3, <2>2 DEF InvLoads, At
    <3>2. Resolved(u)' => op'[u].val \in Nat /\ op'[u].val >= op'[u].need
      BY <1>0, <2>2 DEF InvLoads, Resolved
    <3>3. op'[u].pc = "got" /\ op'[u].val # Miss => op'[u].val >= op'[u].need
      BY <1>0, <2>2 DEF InvLoads, At
    <3>4. ASSUME op'[u].pc = "got", op'[u].val # Miss, Sync, cacheEpochUnchanged(u)'
          PROVE  op'[u].val >= acked'[op'[u].key]
      <4>1. At(u, "got") /\ ~At(u, "idle") /\ op[u].key \in Keys
        BY <1>1, <2>2, <3>4 DEF At
      <4>2. op[u].epoch = cacheEpoch(Home[u], op[u].key)'
        BY <2>2, <3>4 DEF cacheEpochUnchanged
      <4>3. op[u].epoch <= cacheEpoch(Home[u], op[u].key)
        BY <1>0, <4>1 DEF InvRegistry
      <4>4. cacheEpoch(Home[u], op[u].key)' >= cacheEpoch(Home[u], op[u].key)
        BY <2>2, <4>1 DEF EpochsHold
      <4>5. cacheEpoch(Home[u], op[u].key) \in Nat
        BY <1>1, <1>2, <4>1
      <4>6. cacheEpochUnchanged(u) /\ ~(cacheEpoch(Home[u], op[u].key)' > cacheEpoch(Home[u], op[u].key))
        BY <1>1, <4>2, <4>3, <4>4, <4>5 DEF cacheEpochUnchanged
      <4>7. acked'[op[u].key] = acked[op[u].key]
        <5>1. PICK k \in Keys : k = op[u].key /\ k = op'[u].key
          BY <2>2, <4>1
        <5>2. cacheEpoch(Home[u], k)' = cacheEpoch(Home[u], op[u].key)'
              /\ cacheEpoch(Home[u], k) = cacheEpoch(Home[u], op[u].key)
          BY <5>1 DEF cacheEpoch
        <5> QED BY <3>4, <4>6, <5>1, <5>2 DEF AckedMoves
      <4>8. op[u].val >= acked[op[u].key]
        BY <1>0, <2>2, <3>4, <4>1, <4>6 DEF InvLoads
      <4> QED BY <2>2, <4>7, <4>8
    <3> QED BY <3>1, <3>2, <3>3, <3>4
  <2> QED BY <2>1, <2>2
<1> QED BY <1>5, <1>6, <1>7 DEF CacheInv

\* Growing epochs never go back under an operation.
LEMMA GrowHold ==
    ASSUME TypeOK, EpochsGrow
    PROVE  EpochsHold
<1> SUFFICES ASSUME NEW u \in Tasks, op'[u] = op[u], ~At(u, "idle")
             PROVE  cacheEpoch(Home[u], op[u].key)' >= cacheEpoch(Home[u], op[u].key)
  BY DEF EpochsHold
<1>1. PICK k \in Keys : k = op[u].key /\ k = op'[u].key
  BY DEF TypeOK, At
<1>2. cacheEpoch(Home[u], k)' >= cacheEpoch(Home[u], k)
  BY EntityCacheAssumption DEF EpochsGrow
<1> QED BY <1>1, <1>2 DEF cacheEpoch

\* The step of one operation that leaves cache, versions and acknowledgements
\* alone.
LEMMA OpStep ==
    ASSUME CacheInv, TypeOK', NEW t \in Tasks, OnlyOp(t), EpochsGrow, StoreGrows,
           UNCHANGED <<cache, tag, fresh, late, acked>>, NewOp(t)
    PROVE  CacheInv'
<1>0. TypeOK /\ InvRegistry
  BY DEF CacheInv
<1>1. TagsMove /\ CacheKept /\ AckedMoves
  BY <1>0 DEF TagsMove, CacheKept, AckedMoves, InvRegistry, TypeOK
<1>2. LateKept /\ LateSound
  BY <1>0 DEF LateKept, LateSound, InvRegistry
<1>3. EpochsHold
  BY <1>0, GrowHold
<1> QED BY <1>1, <1>2, <1>3, CalmStep DEF OnlyOp

EpochsStay == held' = held /\ epochs' = epochs /\ defaultEpoch' = defaultEpoch

\* Untouched epochs are the same epochs.
LEMMA StayGrow ==
    ASSUME TypeOK, EpochsStay
    PROVE  EpochType /\ EpochsGrow /\ \A p, k : cacheEpoch(p, k)' = cacheEpoch(p, k)
<1>1. ASSUME NEW p, NEW k PROVE cacheEpoch(p, k)' = cacheEpoch(p, k)
  BY DEF EpochsStay, cacheEpoch
<1>2. ASSUME NEW p \in Procs, NEW k \in Keys PROVE cacheEpoch(p, k) \in Nat
  BY DEF TypeOK, cacheEpoch
<1>3. EpochsGrow
  BY <1>1, <1>2 DEF EpochsGrow
<1> QED BY <1>1, <1>3 DEF EpochsStay, EpochType, TypeOK

\* The parts of TypeOK' that the steps of an operation share.
LEMMA TypeStep ==
    ASSUME TypeOK, NEW t \in Tasks, OnlyOp(t), op'[t].pc # "idle" => op'[t].key \in Keys,
           EpochType, FailureType \/ UNCHANGED failureVars,
           store' \in [Keys -> Nat], cache' \in [Keys -> Value], tag' \in [Keys -> Nat],
           fresh' \in Nat \ {0}, late' \subseteq [key: Keys, val: Nat, tok: Nat],
           acked' \in [Keys -> Nat], known' \in [Procs -> [Keys -> Nat]],
           calls' \in Nat, faults' \in Nat
    PROVE  TypeOK'
<1>1. FailureType
  BY DEF FailureType, failureVars, TypeOK
<1>2. \A u \in Tasks : op'[u].pc # "idle" => op'[u].key \in Keys
  BY DEF OnlyOp, TypeOK
<1> QED BY <1>1, <1>2 DEF TypeOK, FailureType, EpochType, OnlyOp

\* The bounds of the model stay numbers.
LEMMA CountersType ==
    ASSUME TypeOK, Normal \/ Call \/ Fault
    PROVE  calls' \in Nat /\ faults' \in Nat
BY DEF Normal, Call, Fault, TypeOK

\* An operation that only moves on.
LEMMA GotoNew ==
    ASSUME CacheInv, NEW t \in Tasks, NEW q \in Pcs, Goto(t, q), EpochsStay,
           UNCHANGED <<store, tag, fresh, acked>>, ~At(t, "idle"),
           q \notin {"drop", "dropped", "got", "idle", "write"},
           q = "written" => At(t, "write"),
           q \in {"fill", "set", "setting"} => op[t].pc \in {"fill", "set", "setting"},
           q = "setting" => ~Sync,
           q \in {"fill", "set", "setting", "stored", "refused", "hook", "undo", "undone", "return"} =>
               Resolved(t) \/ (op[t].val \in Nat /\ op[t].val >= op[t].need)
    PROVE  NewOp(t)
<1>0. TypeOK /\ InvRegistry /\ InvWrites /\ InvLoads
  BY DEF CacheInv
<1>1. OnlyOp(t) /\ KeepsOp(t) /\ op'[t].pc = q
  BY <1>0, GotoOp
<1>2. op[t].epoch <= cacheEpoch(Home[t], op[t].key)' /\ op[t].need <= acked'[op'[t].key]
  <2>1. op[t].epoch <= cacheEpoch(Home[t], op[t].key)
    BY <1>0 DEF InvRegistry
  <2> QED BY <1>0, <1>1, <2>1 DEF EpochsStay, cacheEpoch, KeepsOp, InvLoads
<1>3. op'[t].tok < fresh'
  BY <1>0, <1>1 DEF InvRegistry, KeepsOp
<1>4. q = "written" => op'[t].ver <= store'[op'[t].key]
  BY <1>0, <1>1 DEF InvWrites, KeepsOp, At
<1>5. ASSUME MayPut(t)' PROVE MayPut(t) /\ op'[t].key = op[t].key /\ op'[t].val = op[t].val
  <2>1. op[t].pc \in {"fill", "set", "setting"}
    BY <1>1, <1>5 DEF MayPut
  <2>2. cacheEpochUnchanged(t)' => cacheEpochUnchanged(t)
    BY <1>1 DEF cacheEpochUnchanged, cacheEpoch, EpochsStay, KeepsOp
  <2>3. CASE Distributed
    BY <1>1, <1>5, <2>1, <2>3 DEF MayPut, KeepsOp
  <2>4. CASE ~Distributed
    BY <1>1, <1>5, <2>1, <2>2, <2>4 DEF MayPut, KeepsOp
  <2> QED BY <2>3, <2>4
<1>6. Resolved(t)' => op'[t].val \in Nat /\ op'[t].val >= op'[t].need
  <2>1. Resolved(t) => op[t].val \in Nat /\ op[t].val >= op[t].need
    BY <1>0 DEF InvLoads
  <2> QED BY <1>1, <2>1 DEF Resolved, KeepsOp
<1>7. q # "idle" => op'[t].epoch <= cacheEpoch(Home[t], op[t].key)' /\ op'[t].need <= acked'[op'[t].key]
  BY <1>1, <1>2 DEF KeepsOp
<1> QED BY <1>1, <1>3, <1>4, <1>5, <1>6, <1>7 DEF NewOp

\* The operation record of an idle task is sound.
LEMMA EndNew ==
    ASSUME TypeOK, NEW t \in Tasks, op'[t] = Idle, fresh' \in Nat, fresh' > 0
    PROVE  NewOp(t) /\ op'[t].pc = "idle"
<1>1. op'[t].pc = "idle" /\ op'[t].tok = 0
  BY DEF Idle
<1> QED BY <1>1 DEF NewOp, MayPut, Resolved

Filling == {"fill", "set", "setting"}

\* After the step nobody may fill key k.
NoPermit(k) == \A u \in Tasks : op'[u].key = k => ~MayPut(u)'

\* Without versions, in one process, a bump withdraws the permits of its key.
LEMMA BumpEnds ==
    ASSUME TypeOK, TypeOK', InvRegistry, ~Distributed, \A p, q \in Procs : p = q,
           NEW t \in Tasks, NEW k \in Keys, bumpCacheEpoch(Home[t], k), OnlyOp(t), op'[t].pc \notin Filling
    PROVE  NoPermit(k)
<1> USE EntityCacheAssumption
<1> SUFFICES ASSUME NEW u \in Tasks, op'[u].key = k PROVE ~MayPut(u)'
  BY DEF NoPermit
<1>1. CASE u = t
  BY <1>1 DEF MayPut, Filling
<1>2. CASE u # t
  <2>1. op'[u] = op[u] /\ Home[u] = Home[t] /\ Home[u] \in Procs
    BY <1>2 DEF OnlyOp
  <2>2. ASSUME op[u].pc \in Filling PROVE op[u].epoch # cacheEpoch(Home[u], op[u].key)'
    <3>1. op[u].epoch <= cacheEpoch(Home[u], op[u].key) /\ op[u].epoch \in Nat
      BY <2>2 DEF InvRegistry, At, TypeOK, Op, Filling
    <3>2. cacheEpoch(Home[u], k)' > cacheEpoch(Home[u], k)
      BY <2>1, EpochGrows
    <3>3. cacheEpoch(Home[u], k)' = cacheEpoch(Home[u], op[u].key)'
          /\ cacheEpoch(Home[u], k) = cacheEpoch(Home[u], op[u].key)
      BY <2>1 DEF cacheEpoch
    <3>4. cacheEpoch(Home[u], k) \in Nat /\ cacheEpoch(Home[u], k)' \in Nat
      BY <2>1 DEF TypeOK, cacheEpoch
    <3> QED BY <3>1, <3>2, <3>3, <3>4
  <2> QED BY <2>1, <2>2 DEF MayPut, cacheEpochUnchanged, Filling
<1> QED BY <1>1, <1>2

\* After a bump no operation of the process may put the row it holds.
LEMMA BumpFences ==
    ASSUME CacheInv, TypeOK', Sync, NEW t \in Tasks, NEW k \in Keys, bumpCacheEpoch(Home[t], k),
           OnlyOp(t), op'[t].pc \notin Filling, late' = late
    PROVE  \A n : FillsFrom(k, n)'
<1>1. TypeOK /\ InvRegistry /\ ~Distributed /\ late' = {}
  BY EntityCacheAssumption DEF CacheInv, InvRegistry
<1>2. NoPermit(k)
  BY <1>1, BumpEnds, EntityCacheAssumption
<1> QED BY <1>1, <1>2 DEF NoPermit, FillsFrom

----------------------------------------------------------------------------
(* The actions.                                                            *)

\* A write that fails in the store leaves no trace but the row.
LEMMA StoreThrowsStep ==
    ASSUME CacheInv, NEW t \in Tasks, StoreThrows(t)
    PROVE  CacheInv'
<1>0. TypeOK /\ InvRegistry /\ InvWrites /\ InvLoads /\ Home[t] \in Procs
  BY EntityCacheAssumption DEF CacheInv
<1>1. OnlyOp(t) /\ op'[t] = Idle
  BY <1>0, EndOp DEF StoreThrows
<1>2. EpochType /\ EpochsGrow
  BY <1>0, StayGrow DEF StoreThrows, EpochsStay, epochVars
<1>3. UNCHANGED <<store, cache, tag, fresh, late, acked>>
  BY DEF StoreThrows, cacheVars, historyVars
<1>4. FailureType \/ UNCHANGED failureVars
  BY DEF StoreThrows
<1>6. NewOp(t) /\ op'[t].pc = "idle"
  BY <1>0, <1>1, <1>3, EndNew DEF TypeOK
<1>8. TypeOK'
  <2>1. calls' \in Nat /\ faults' \in Nat
    BY <1>0, CountersType DEF StoreThrows
  <2>3. known' \in [Procs -> [Keys -> Nat]]
    BY <1>0 DEF StoreThrows, historyVars, TypeOK
  <2> QED BY <1>0, <1>1, <1>2, <1>3, <1>4, <1>6, <2>1, <2>3, TypeStep DEF TypeOK
<1>9. StoreGrows
  BY <1>0, <1>3 DEF StoreGrows, TypeOK
<1> QED BY <1>1, <1>2, <1>3, <1>6, <1>8, <1>9, OpStep

\* A rejected load leaves no trace.
LEMMA LoadThrowsStep ==
    ASSUME CacheInv, NEW t \in Tasks, LoadThrows(t)
    PROVE  CacheInv'
<1>0. TypeOK /\ InvRegistry /\ InvWrites /\ InvLoads /\ Home[t] \in Procs
  BY EntityCacheAssumption DEF CacheInv
<1>1. OnlyOp(t) /\ op'[t] = Idle
  BY <1>0, EndOp DEF LoadThrows
<1>2. EpochType /\ EpochsGrow
  BY <1>0, StayGrow DEF LoadThrows, EpochsStay, epochVars
<1>3. UNCHANGED <<store, cache, tag, fresh, late, acked>>
  BY DEF LoadThrows, cacheVars, historyVars
<1>4. FailureType \/ UNCHANGED failureVars
  BY DEF LoadThrows
<1>6. NewOp(t) /\ op'[t].pc = "idle"
  BY <1>0, <1>1, <1>3, EndNew DEF TypeOK
<1>8. TypeOK'
  <2>1. calls' \in Nat /\ faults' \in Nat
    BY <1>0, CountersType DEF LoadThrows
  <2>3. known' \in [Procs -> [Keys -> Nat]]
    BY <1>0 DEF LoadThrows, historyVars, TypeOK
  <2> QED BY <1>0, <1>1, <1>2, <1>3, <1>4, <1>6, <2>1, <2>3, TypeStep DEF TypeOK
<1>9. StoreGrows
  BY <1>0, <1>3 DEF StoreGrows, TypeOK
<1> QED BY <1>1, <1>2, <1>3, <1>6, <1>8, <1>9, OpStep

\* A failed invalidation acknowledges nothing.
LEMMA DeleteThrowsStep ==
    ASSUME CacheInv, NEW t \in Tasks, DeleteThrows(t)
    PROVE  CacheInv'
<1>0. TypeOK /\ InvRegistry /\ InvWrites /\ InvLoads /\ Home[t] \in Procs
  BY EntityCacheAssumption DEF CacheInv
<1>1. OnlyOp(t) /\ op'[t] = Idle
  BY <1>0, EndOp DEF DeleteThrows
<1>2. EpochType /\ EpochsGrow
  BY <1>0, StayGrow DEF DeleteThrows, EpochsStay, epochVars
<1>3. UNCHANGED <<store, cache, tag, fresh, late, acked>>
  BY DEF DeleteThrows, cacheVars, historyVars
<1>5. op[t].key \in Keys
  BY <1>0 DEF DeleteThrows, At, TypeOK
<1>4. FailureType \/ UNCHANGED failureVars
  BY <1>0, <1>5, MarkType, ClearType DEF DeleteThrows
<1>6. NewOp(t) /\ op'[t].pc = "idle"
  BY <1>0, <1>1, <1>3, EndNew DEF TypeOK
<1>8. TypeOK'
  <2>1. calls' \in Nat /\ faults' \in Nat
    BY <1>0, CountersType DEF DeleteThrows
  <2>3. known' \in [Procs -> [Keys -> Nat]]
    BY <1>0, <1>5 DEF DeleteThrows, Ended, Larger, TypeOK, Op
  <2> QED BY <1>0, <1>1, <1>2, <1>3, <1>4, <1>6, <2>1, <2>3, TypeStep DEF TypeOK
<1>9. StoreGrows
  BY <1>0, <1>3 DEF StoreGrows, TypeOK
<1> QED BY <1>1, <1>2, <1>3, <1>6, <1>8, <1>9, OpStep

\* A set with an unknown outcome was taken back.
LEMMA PoisonReturnsStep ==
    ASSUME CacheInv, NEW t \in Tasks, PoisonReturns(t)
    PROVE  CacheInv'
<1>0. TypeOK /\ InvRegistry /\ InvWrites /\ InvLoads /\ Home[t] \in Procs
  BY EntityCacheAssumption DEF CacheInv
<1>1. OnlyOp(t) /\ op'[t] = Idle
  BY <1>0, EndOp DEF PoisonReturns
<1>2. EpochType /\ EpochsGrow
  BY <1>0, StayGrow DEF PoisonReturns, EpochsStay, epochVars
<1>3. UNCHANGED <<store, cache, tag, fresh, late, acked>>
  BY DEF PoisonReturns, cacheVars, historyVars
<1>5. op[t].key \in Keys
  BY <1>0 DEF PoisonReturns, At, TypeOK
<1>4. FailureType \/ UNCHANGED failureVars
  BY <1>0, <1>5, MarkType, ClearType DEF PoisonReturns
<1>6. NewOp(t) /\ op'[t].pc = "idle"
  BY <1>0, <1>1, <1>3, EndNew DEF TypeOK
<1>8. TypeOK'
  <2>1. calls' \in Nat /\ faults' \in Nat
    BY <1>0, CountersType DEF PoisonReturns
  <2>3. known' \in [Procs -> [Keys -> Nat]]
    BY <1>0 DEF PoisonReturns, historyVars, TypeOK
  <2> QED BY <1>0, <1>1, <1>2, <1>3, <1>4, <1>6, <2>1, <2>3, TypeStep DEF TypeOK
<1>9. StoreGrows
  BY <1>0, <1>3 DEF StoreGrows, TypeOK
<1> QED BY <1>1, <1>2, <1>3, <1>6, <1>8, <1>9, OpStep

\* Taking a set back failed.
LEMMA CleanupThrowsStep ==
    ASSUME CacheInv, NEW t \in Tasks, CleanupThrows(t)
    PROVE  CacheInv'
<1>0. TypeOK /\ InvRegistry /\ InvWrites /\ InvLoads /\ Home[t] \in Procs
  BY EntityCacheAssumption DEF CacheInv
<1>1. OnlyOp(t) /\ op'[t] = Idle
  BY <1>0, EndOp DEF CleanupThrows
<1>2. EpochType /\ EpochsGrow
  BY <1>0, StayGrow DEF CleanupThrows, EpochsStay, epochVars
<1>3. UNCHANGED <<store, cache, tag, fresh, late, acked>>
  BY DEF CleanupThrows, cacheVars, historyVars
<1>5. op[t].key \in Keys
  BY <1>0 DEF CleanupThrows, At, TypeOK
<1>4. FailureType \/ UNCHANGED failureVars
  BY <1>0, <1>5, MarkType, ClearType DEF CleanupThrows
<1>6. NewOp(t) /\ op'[t].pc = "idle"
  BY <1>0, <1>1, <1>3, EndNew DEF TypeOK
<1>8. TypeOK'
  <2>1. calls' \in Nat /\ faults' \in Nat
    BY <1>0, CountersType DEF CleanupThrows
  <2>3. known' \in [Procs -> [Keys -> Nat]]
    BY <1>0 DEF CleanupThrows, historyVars, TypeOK
  <2> QED BY <1>0, <1>1, <1>2, <1>3, <1>4, <1>6, <2>1, <2>3, TypeStep DEF TypeOK
<1>9. StoreGrows
  BY <1>0, <1>3 DEF StoreGrows, TypeOK
<1> QED BY <1>1, <1>2, <1>3, <1>6, <1>8, <1>9, OpStep

\* A load resolves.
LEMMA LoadReturnsStep ==
    ASSUME CacheInv, NEW t \in Tasks, LoadReturns(t)
    PROVE  CacheInv'
<1>0. TypeOK /\ InvRegistry /\ InvWrites /\ InvLoads /\ Home[t] \in Procs
  BY EntityCacheAssumption DEF CacheInv
<1>1. OnlyOp(t) /\ op'[t] = Idle
  BY <1>0, EndOp DEF LoadReturns
<1>2. EpochType /\ EpochsGrow
  BY <1>0, StayGrow DEF LoadReturns, EpochsStay, epochVars
<1>3. UNCHANGED <<store, cache, tag, fresh, late, acked>>
  BY DEF LoadReturns, cacheVars, historyVars
<1>4. FailureType \/ UNCHANGED failureVars
  BY DEF LoadReturns
<1>6. NewOp(t) /\ op'[t].pc = "idle"
  BY <1>0, <1>1, <1>3, EndNew DEF TypeOK
<1>8. TypeOK'
  <2>1. calls' \in Nat /\ faults' \in Nat
    BY <1>0, CountersType DEF LoadReturns
  <2>3. known' \in [Procs -> [Keys -> Nat]]
    BY <1>0 DEF LoadReturns, historyVars, TypeOK
  <2> QED BY <1>0, <1>1, <1>2, <1>3, <1>4, <1>6, <2>1, <2>3, TypeStep DEF TypeOK
<1>9. StoreGrows
  BY <1>0, <1>3 DEF StoreGrows, TypeOK
<1> QED BY <1>1, <1>2, <1>3, <1>6, <1>8, <1>9, OpStep

\* A conflict goes on to the invalidation without a version.
LEMMA StoreConflictStep ==
    ASSUME CacheInv, NEW t \in Tasks, StoreConflict(t)
    PROVE  CacheInv'
<1>0. TypeOK /\ InvRegistry /\ InvWrites /\ InvLoads /\ Home[t] \in Procs
  BY EntityCacheAssumption DEF CacheInv
<1>1. PICK q \in {"written"} : Goto(t, q)
  BY DEF StoreConflict
<1>5. At(t, "write") /\ op[t].pc # "idle" /\ op[t].key \in Keys
  BY <1>0 DEF StoreConflict, At, TypeOK
<1>3. UNCHANGED <<store, cache, tag, fresh, late, acked>> /\ EpochsStay
  BY DEF StoreConflict, cacheVars, historyVars, EpochsStay, epochVars
<1>2. EpochType /\ EpochsGrow
  BY <1>0, <1>3, StayGrow
<1>6. NewOp(t)
  BY <1>1, <1>3, <1>5, GotoNew DEF Pcs, At, Resolved
<1>7. OnlyOp(t) /\ op'[t].key = op[t].key
  BY <1>0, <1>1, GotoOp DEF Pcs, KeepsOp
<1>4. FailureType \/ UNCHANGED failureVars
  BY DEF StoreConflict
<1>8. TypeOK'
  <2>1. calls' \in Nat /\ faults' \in Nat
    BY <1>0, CountersType DEF StoreConflict
  <2>3. known' = known
    BY DEF StoreConflict, historyVars
  <2> QED BY <1>0, <1>2, <1>3, <1>4, <1>5, <1>7, <2>1, <2>3, TypeStep DEF TypeOK
<1>9. StoreGrows
  BY <1>0, <1>3 DEF StoreGrows, TypeOK
<1> QED BY <1>2, <1>3, <1>6, <1>7, <1>8, <1>9, OpStep

\* A load goes on without a version, and so without a permit to fill.
LEMMA RecoverThrowsStep ==
    ASSUME CacheInv, NEW t \in Tasks, RecoverThrows(t)
    PROVE  CacheInv'
<1>0. TypeOK /\ InvRegistry /\ InvWrites /\ InvLoads /\ Home[t] \in Procs
  BY EntityCacheAssumption DEF CacheInv
<1>1. PICK q \in {"read"} : Goto(t, q)
  BY DEF RecoverThrows
<1>5. At(t, "recover") /\ op[t].pc # "idle" /\ op[t].key \in Keys
  BY <1>0 DEF RecoverThrows, At, TypeOK
<1>3. UNCHANGED <<store, cache, tag, fresh, late, acked>> /\ EpochsStay
  BY DEF RecoverThrows, cacheVars, historyVars, EpochsStay, epochVars
<1>2. EpochType /\ EpochsGrow
  BY <1>0, <1>3, StayGrow
<1>6. NewOp(t)
  BY <1>1, <1>3, <1>5, GotoNew DEF Pcs, At, Resolved
<1>7. OnlyOp(t) /\ op'[t].key = op[t].key
  BY <1>0, <1>1, GotoOp DEF Pcs, KeepsOp
<1>4. FailureType \/ UNCHANGED failureVars
  BY DEF RecoverThrows
<1>8. TypeOK'
  <2>1. calls' \in Nat /\ faults' \in Nat
    BY <1>0, CountersType DEF RecoverThrows
  <2>3. known' = known
    BY DEF RecoverThrows, historyVars
  <2> QED BY <1>0, <1>2, <1>3, <1>4, <1>5, <1>7, <2>1, <2>3, TypeStep DEF TypeOK
<1>9. StoreGrows
  BY <1>0, <1>3 DEF StoreGrows, TypeOK
<1> QED BY <1>2, <1>3, <1>6, <1>7, <1>8, <1>9, OpStep

\* An overtaken set was taken back.
LEMMA UndoReturnsStep ==
    ASSUME CacheInv, NEW t \in Tasks, UndoReturns(t)
    PROVE  CacheInv'
<1>0. TypeOK /\ InvRegistry /\ InvWrites /\ InvLoads /\ Home[t] \in Procs
  BY EntityCacheAssumption DEF CacheInv
<1>1. PICK q \in {"return"} : Goto(t, q)
  BY DEF UndoReturns
<1>5. At(t, "undone") /\ op[t].pc # "idle" /\ op[t].key \in Keys
  BY <1>0 DEF UndoReturns, At, TypeOK
<1>3. UNCHANGED <<store, cache, tag, fresh, late, acked>> /\ EpochsStay
  BY DEF UndoReturns, cacheVars, historyVars, EpochsStay, epochVars
<1>2. EpochType /\ EpochsGrow
  BY <1>0, <1>3, StayGrow
<1>6. NewOp(t)
  BY <1>1, <1>3, <1>5, GotoNew DEF Pcs, At, Resolved
<1>7. OnlyOp(t) /\ op'[t].key = op[t].key
  BY <1>0, <1>1, GotoOp DEF Pcs, KeepsOp
<1>4. FailureType \/ UNCHANGED failureVars
  BY DEF UndoReturns
<1>8. TypeOK'
  <2>1. calls' \in Nat /\ faults' \in Nat
    BY <1>0, CountersType DEF UndoReturns
  <2>3. known' = known
    BY DEF UndoReturns, historyVars
  <2> QED BY <1>0, <1>2, <1>3, <1>4, <1>5, <1>7, <2>1, <2>3, TypeStep DEF TypeOK
<1>9. StoreGrows
  BY <1>0, <1>3 DEF StoreGrows, TypeOK
<1> QED BY <1>2, <1>3, <1>6, <1>7, <1>8, <1>9, OpStep

\* The hook after a set gives nothing back.
LEMMA AfterCacheSetStep ==
    ASSUME CacheInv, NEW t \in Tasks, AfterCacheSet(t)
    PROVE  CacheInv'
<1>0. TypeOK /\ InvRegistry /\ InvWrites /\ InvLoads /\ Home[t] \in Procs
  BY EntityCacheAssumption DEF CacheInv
<1>1. PICK q \in {"return"} : Goto(t, q)
  BY DEF AfterCacheSet
<1>5. At(t, "hook") /\ op[t].pc # "idle" /\ op[t].key \in Keys
  BY <1>0 DEF AfterCacheSet, At, TypeOK
<1>3. UNCHANGED <<store, cache, tag, fresh, late, acked>> /\ EpochsStay
  BY DEF AfterCacheSet, cacheVars, historyVars, EpochsStay, epochVars
<1>2. EpochType /\ EpochsGrow
  BY <1>0, <1>3, StayGrow
<1>6. NewOp(t)
  BY <1>1, <1>3, <1>5, GotoNew DEF Pcs, At, Resolved
<1>7. OnlyOp(t) /\ op'[t].key = op[t].key
  BY <1>0, <1>1, GotoOp DEF Pcs, KeepsOp
<1>4. FailureType \/ UNCHANGED failureVars
  BY DEF AfterCacheSet
<1>8. TypeOK'
  <2>1. calls' \in Nat /\ faults' \in Nat
    BY <1>0, CountersType DEF AfterCacheSet
  <2>3. known' = known
    BY DEF AfterCacheSet, historyVars
  <2> QED BY <1>0, <1>2, <1>3, <1>4, <1>5, <1>7, <2>1, <2>3, TypeStep DEF TypeOK
<1>9. StoreGrows
  BY <1>0, <1>3 DEF StoreGrows, TypeOK
<1> QED BY <1>2, <1>3, <1>6, <1>7, <1>8, <1>9, OpStep

\* A hit is as new as the load needs.
LEMMA UseHitStep ==
    ASSUME CacheInv, NEW t \in Tasks, UseHit(t)
    PROVE  CacheInv'
<1>0. TypeOK /\ InvRegistry /\ InvWrites /\ InvLoads /\ Home[t] \in Procs
  BY EntityCacheAssumption DEF CacheInv
<1>1. PICK q \in {"read", "return"} : Goto(t, q)
  BY DEF UseHit
<1>5. At(t, "got") /\ op[t].pc # "idle" /\ op[t].key \in Keys
  BY <1>0 DEF UseHit, At, TypeOK
<1>10. q = "return" => op[t].val \in Nat /\ op[t].val >= op[t].need
  <2>1. q = "return" => op[t].val # Miss
    <3>1. OnlyOp(t) /\ KeepsOp(t) /\ op'[t].pc = q
      BY <1>0, <1>1, GotoOp DEF Pcs
    <3>2. ASSUME op[t].val = Miss PROVE Goto(t, "read")
      BY <3>2 DEF UseHit
    <3>3. ASSUME op[t].val = Miss PROVE op'[t].pc = "read"
      BY <1>0, <3>2, <3>3, GotoOp DEF Pcs
    <3> QED BY <3>1, <3>3
  <2> QED BY <1>0, <1>5, <2>1 DEF InvLoads, TypeOK, Op, Value
<1>3. UNCHANGED <<store, cache, tag, fresh, late, acked>> /\ EpochsStay
  BY DEF UseHit, cacheVars, historyVars, EpochsStay, epochVars
<1>2. EpochType /\ EpochsGrow
  BY <1>0, <1>3, StayGrow
<1>6. NewOp(t)
  BY <1>1, <1>3, <1>5, <1>10, GotoNew DEF Pcs, At, Resolved
<1>7. OnlyOp(t) /\ op'[t].key = op[t].key
  BY <1>0, <1>1, GotoOp DEF Pcs, KeepsOp
<1>4. FailureType \/ UNCHANGED failureVars
  BY DEF UseHit
<1>8. TypeOK'
  <2>1. calls' \in Nat /\ faults' \in Nat
    BY <1>0, CountersType DEF UseHit
  <2>3. known' = known
    BY DEF UseHit, historyVars
  <2> QED BY <1>0, <1>2, <1>3, <1>4, <1>5, <1>7, <2>1, <2>3, TypeStep DEF TypeOK
<1>9. StoreGrows
  BY <1>0, <1>3 DEF StoreGrows, TypeOK
<1> QED BY <1>2, <1>3, <1>6, <1>7, <1>8, <1>9, OpStep

\* A fill keeps the permit it had.
LEMMA FillStep ==
    ASSUME CacheInv, NEW t \in Tasks, Fill(t)
    PROVE  CacheInv'
<1>0. TypeOK /\ InvRegistry /\ InvWrites /\ InvLoads /\ Home[t] \in Procs
  BY EntityCacheAssumption DEF CacheInv
<1>1. PICK q \in {"return", "set"} : Goto(t, q)
  BY DEF Fill
<1>5. At(t, "fill") /\ op[t].pc # "idle" /\ op[t].key \in Keys
  BY <1>0 DEF Fill, At, TypeOK
<1>3. UNCHANGED <<store, cache, tag, fresh, late, acked>> /\ EpochsStay
  BY DEF Fill, cacheVars, historyVars, EpochsStay, epochVars
<1>2. EpochType /\ EpochsGrow
  BY <1>0, <1>3, StayGrow
<1>6. NewOp(t)
  BY <1>1, <1>3, <1>5, GotoNew DEF Pcs, At, Resolved
<1>7. OnlyOp(t) /\ op'[t].key = op[t].key
  BY <1>0, <1>1, GotoOp DEF Pcs, KeepsOp
<1>4. FailureType \/ UNCHANGED failureVars
  BY DEF Fill
<1>8. TypeOK'
  <2>1. calls' \in Nat /\ faults' \in Nat
    BY <1>0, CountersType DEF Fill
  <2>3. known' = known
    BY DEF Fill, historyVars
  <2> QED BY <1>0, <1>2, <1>3, <1>4, <1>5, <1>7, <2>1, <2>3, TypeStep DEF TypeOK
<1>9. StoreGrows
  BY <1>0, <1>3 DEF StoreGrows, TypeOK
<1> QED BY <1>2, <1>3, <1>6, <1>7, <1>8, <1>9, OpStep

\* A set that has landed gives up its permit.
LEMMA SetReturnsStep ==
    ASSUME CacheInv, NEW t \in Tasks, SetReturns(t)
    PROVE  CacheInv'
<1>0. TypeOK /\ InvRegistry /\ InvWrites /\ InvLoads /\ Home[t] \in Procs
  BY EntityCacheAssumption DEF CacheInv
<1>1. PICK q \in {"return", "hook", "undo"} : Goto(t, q)
  <2>1. CASE At(t, "refused")
    BY <2>1 DEF SetReturns, At
  <2>2. CASE ~At(t, "refused") /\ cacheEpochUnchanged(t)
    BY <2>2 DEF SetReturns, At
  <2>3. CASE ~At(t, "refused") /\ ~cacheEpochUnchanged(t)
    BY <2>3 DEF SetReturns, At
  <2> QED BY <2>1, <2>2, <2>3
<1>5. op[t].pc \in {"stored", "refused"} /\ op[t].pc # "idle" /\ op[t].key \in Keys
  BY <1>0 DEF SetReturns, At, TypeOK
<1>3. UNCHANGED <<store, cache, tag, fresh, late, acked>> /\ EpochsStay
  BY DEF SetReturns, cacheVars, historyVars, EpochsStay, epochVars
<1>2. EpochType /\ EpochsGrow
  BY <1>0, <1>3, StayGrow
<1>6. NewOp(t)
  BY <1>1, <1>3, <1>5, GotoNew DEF Pcs, At, Resolved
<1>7. OnlyOp(t) /\ op'[t].key = op[t].key
  BY <1>0, <1>1, GotoOp DEF Pcs, KeepsOp
<1>4. FailureType \/ UNCHANGED failureVars
  <2>1. clearCacheInvalidationFailure(Home[t], op[t].key) \/ UNCHANGED failureVars
    BY DEF SetReturns
  <2> QED BY <1>0, <1>5, <2>1, ClearType
<1>8. TypeOK'
  <2>1. calls' \in Nat /\ faults' \in Nat
    BY <1>0, CountersType DEF SetReturns
  <2>3. known' = known
    BY DEF SetReturns, historyVars
  <2> QED BY <1>0, <1>2, <1>3, <1>4, <1>5, <1>7, <2>1, <2>3, TypeStep DEF TypeOK
<1>9. StoreGrows
  BY <1>0, <1>3 DEF StoreGrows, TypeOK
<1> QED BY <1>2, <1>3, <1>6, <1>7, <1>8, <1>9, OpStep
\* A write begins.
LEMMA StartWriteStep ==
    ASSUME CacheInv, NEW t \in Tasks, NEW k \in Keys, StartWrite(t, k)
    PROVE  CacheInv'
<1>0. TypeOK /\ InvRegistry /\ InvWrites /\ InvLoads /\ Home[t] \in Procs
  BY EntityCacheAssumption DEF CacheInv
<1>1. OnlyOp(t) /\ op'[t].pc = "write" /\ op'[t].key = k /\ op'[t].ver = 0
      /\ op'[t].epoch = 0 /\ op'[t].tok = 0 /\ op'[t].need = 0
  BY <1>0, StartWriteOp
<1>3. UNCHANGED <<store, cache, tag, fresh, late, acked>> /\ EpochsStay
  BY DEF StartWrite, cacheVars, historyVars, EpochsStay, epochVars
<1>2. EpochType /\ EpochsGrow
  BY <1>0, <1>3, StayGrow
<1>4. FailureType \/ UNCHANGED failureVars
  BY DEF StartWrite
<1>8. TypeOK'
  <2>1. calls' \in Nat /\ faults' \in Nat
    BY <1>0, CountersType DEF StartWrite
  <2>3. known' = known
    BY DEF StartWrite, historyVars
  <2> QED BY <1>0, <1>1, <1>2, <1>3, <1>4, <2>1, <2>3, TypeStep DEF TypeOK
<1>6. NewOp(t)
  <2>1. cacheEpoch(Home[t], op[t].key)' \in Nat
    BY <1>0, <1>1, <1>8 DEF TypeOK, cacheEpoch
  <2> QED BY <1>0, <1>1, <1>3, <2>1 DEF NewOp, MayPut, Resolved, TypeOK
<1>9. StoreGrows
  BY <1>0, <1>3 DEF StoreGrows, TypeOK
<1> QED BY <1>1, <1>2, <1>3, <1>6, <1>8, <1>9, OpStep

\* A load begins with the current epoch.
LEMMA StartLoadStep ==
    ASSUME CacheInv, NEW t \in Tasks, NEW k \in Keys, StartLoad(t, k)
    PROVE  CacheInv'
<1>0. TypeOK /\ InvRegistry /\ InvWrites /\ InvLoads /\ Home[t] \in Procs
  BY EntityCacheAssumption DEF CacheInv
<1>1. OnlyOp(t) /\ op'[t].pc \in {"get", "recover", "read"} /\ op'[t].key = k
      /\ op'[t].epoch = cacheEpoch(Home[t], k) /\ op'[t].tok = 0 /\ op'[t].need = acked[k]
  BY <1>0, StartLoadOp
<1>3. UNCHANGED <<store, cache, tag, fresh, late, acked>> /\ EpochsStay
  BY DEF StartLoad, cacheVars, historyVars, EpochsStay, epochVars
<1>2. EpochType /\ EpochsGrow
  BY <1>0, <1>3, StayGrow
<1>4. FailureType \/ UNCHANGED failureVars
  BY DEF StartLoad
<1>8. TypeOK'
  <2>1. calls' \in Nat /\ faults' \in Nat
    BY <1>0, CountersType DEF StartLoad
  <2>3. known' = known
    BY DEF StartLoad, historyVars
  <2> QED BY <1>0, <1>1, <1>2, <1>3, <1>4, <2>1, <2>3, TypeStep DEF TypeOK
<1>6. NewOp(t)
  <2>1. cacheEpoch(Home[t], op[t].key)' = op'[t].epoch /\ op'[t].epoch \in Nat
    BY <1>0, <1>1, <1>3 DEF TypeOK, cacheEpoch, EpochsStay
  <2> QED BY <1>0, <1>1, <1>3, <2>1 DEF NewOp, MayPut, Resolved, TypeOK
<1>9. StoreGrows
  BY <1>0, <1>3 DEF StoreGrows, TypeOK
<1> QED BY <1>1, <1>2, <1>3, <1>6, <1>8, <1>9, OpStep

\* A row just read is as new as any bound.
LEMMA StoreReadStep ==
    ASSUME CacheInv, NEW t \in Tasks, StoreRead(t)
    PROVE  CacheInv'
<1>0. TypeOK /\ InvRegistry /\ InvWrites /\ InvLoads /\ Home[t] \in Procs
  BY EntityCacheAssumption DEF CacheInv
<1>1. OnlyOp(t) /\ op[t].pc = "read" /\ op[t].key \in Keys /\ op'[t].pc = "fill"
      /\ op'[t].val = store[op[t].key] /\ op'[t].key = op[t].key /\ op'[t].epoch = op[t].epoch
      /\ op'[t].tok = op[t].tok /\ op'[t].need = op[t].need
  BY <1>0, StoreReadOp
<1>3. UNCHANGED <<store, cache, tag, fresh, late, acked>> /\ EpochsStay
  BY DEF StoreRead, cacheVars, historyVars, EpochsStay, epochVars
<1>2. EpochType /\ EpochsGrow
  BY <1>0, <1>3, StayGrow
<1>4. FailureType \/ UNCHANGED failureVars
  BY DEF StoreRead
<1>8. TypeOK'
  <2>1. calls' \in Nat /\ faults' \in Nat
    BY <1>0, CountersType DEF StoreRead
  <2>3. known' = known
    BY DEF StoreRead, historyVars
  <2> QED BY <1>0, <1>1, <1>2, <1>3, <1>4, <2>1, <2>3, TypeStep DEF TypeOK
<1>6. NewOp(t)
  <2>1. op'[t].epoch <= cacheEpoch(Home[t], op[t].key)'
    <3>1. op[t].epoch <= cacheEpoch(Home[t], op[t].key)
      BY <1>0, <1>1 DEF InvRegistry, At
    <3> QED BY <1>1, <1>3, <3>1 DEF cacheEpoch, EpochsStay
  <2>2. store[op[t].key] \in Nat /\ acked[op[t].key] \in Nat /\ op[t].need \in Nat
        /\ acked[op[t].key] <= store[op[t].key] /\ op[t].need <= acked[op[t].key]
    BY <1>0, <1>1 DEF TypeOK, Op, InvWrites, InvLoads, At
  <2>3. op[t].tok < fresh
    BY <1>0 DEF InvRegistry
  <2> QED BY <1>1, <1>3, <2>1, <2>2, <2>3 DEF NewOp
<1>9. StoreGrows
  BY <1>0, <1>3 DEF StoreGrows, TypeOK
<1> QED BY <1>1, <1>2, <1>3, <1>6, <1>8, <1>9, OpStep

\* A write makes cached rows old but acknowledges nothing.
LEMMA StoreWriteStep ==
    ASSUME CacheInv, NEW t \in Tasks, StoreWrite(t)
    PROVE  CacheInv'
<1>0. TypeOK /\ InvRegistry /\ InvWrites /\ InvLoads /\ Home[t] \in Procs
  BY EntityCacheAssumption DEF CacheInv
<1>1. OnlyOp(t) /\ op[t].pc = "write" /\ op[t].key \in Keys /\ op'[t].pc = "written"
      /\ op'[t].ver = store[op[t].key] + 1 /\ op'[t].key = op[t].key /\ op'[t].epoch = op[t].epoch
      /\ op'[t].tok = op[t].tok /\ op'[t].need = op[t].need
  BY <1>0, StoreWriteOp
<1>3. UNCHANGED <<cache, tag, fresh, late, acked>> /\ EpochsStay
  BY DEF StoreWrite, cacheVars, historyVars, EpochsStay, epochVars
<1>2. EpochType /\ EpochsGrow
  BY <1>0, <1>3, StayGrow
<1>4. FailureType \/ UNCHANGED failureVars
  BY DEF StoreWrite
<1>5. store' \in [Keys -> Nat] /\ StoreGrows /\ store'[op[t].key] = store[op[t].key] + 1
  BY <1>0, <1>1 DEF StoreWrite, StoreGrows, TypeOK
<1>8. TypeOK'
  <2>1. calls' \in Nat /\ faults' \in Nat
    BY <1>0, CountersType DEF StoreWrite
  <2>3. known' = known
    BY DEF StoreWrite, historyVars
  <2> QED BY <1>0, <1>1, <1>2, <1>3, <1>4, <1>5, <2>1, <2>3, TypeStep DEF TypeOK
<1>6. NewOp(t)
  <2>1. op'[t].epoch <= cacheEpoch(Home[t], op[t].key)'
    <3>1. op[t].epoch <= cacheEpoch(Home[t], op[t].key)
      BY <1>0, <1>1 DEF InvRegistry, At
    <3> QED BY <1>1, <1>3, <3>1 DEF cacheEpoch, EpochsStay
  <2>2. op[t].need <= acked[op[t].key]
    BY <1>0, <1>1 DEF InvLoads, At
  <2>4. store[op[t].key] + 1 <= store'[op[t].key]
    <3>1. store[op[t].key] \in Nat
      BY <1>0, <1>1 DEF TypeOK
    <3> QED BY <1>5, <3>1
  <2>3. op[t].tok < fresh
    BY <1>0 DEF InvRegistry
  <2> QED BY <1>1, <1>3, <2>1, <2>2, <2>3, <2>4 DEF NewOp, MayPut, Resolved
<1> QED BY <1>1, <1>2, <1>3, <1>5, <1>6, <1>8, OpStep

\* An explicit invalidation fences the fills of its process.
LEMMA StartInvalidateStep ==
    ASSUME CacheInv, NEW t \in Tasks, NEW k \in Keys, StartInvalidate(t, k)
    PROVE  CacheInv'
<1>0. TypeOK /\ InvRegistry /\ InvWrites /\ InvLoads /\ Home[t] \in Procs
  BY EntityCacheAssumption DEF CacheInv
<1>1. OnlyOp(t) /\ op'[t].pc = "drop" /\ op'[t].key = k /\ op'[t].ver = 0
      /\ op'[t].epoch = 0 /\ op'[t].tok = 0 /\ op'[t].need = 0
  BY <1>0, StartInvalidateOp
<1>3. UNCHANGED <<store, cache, tag, fresh, late, acked>> /\ bumpCacheEpoch(Home[t], k)
  BY DEF StartInvalidate, cacheVars, historyVars
<1>2. EpochType /\ EpochsGrow
  BY <1>0, <1>3, EpochGrows
<1>4. FailureType \/ UNCHANGED failureVars
  BY DEF StartInvalidate
<1>8. TypeOK'
  <2>1. calls' \in Nat /\ faults' \in Nat
    BY <1>0, CountersType DEF StartInvalidate
  <2>3. known' = known
    BY DEF StartInvalidate, historyVars
  <2> QED BY <1>0, <1>1, <1>2, <1>3, <1>4, <2>1, <2>3, TypeStep DEF TypeOK
<1>6. NewOp(t)
  <2>1. cacheEpoch(Home[t], op[t].key)' \in Nat
    BY <1>0, <1>1, <1>8 DEF TypeOK, cacheEpoch
  <2>2. Sync => FillsFrom(op[t].key, op[t].ver)'
    <3>1. Sync => \A n : FillsFrom(k, n)'
      BY <1>0, <1>1, <1>3, <1>8, BumpFences DEF Filling
    <3>2. PICK n : n = op'[t].ver
      OBVIOUS
    <3>3. Sync => FillsFrom(k, n)'
      BY <3>1
    <3> QED BY <1>1, <3>2, <3>3 DEF FillsFrom
  <2> QED BY <1>0, <1>1, <1>3, <2>1, <2>2 DEF NewOp, MayPut, Resolved, TypeOK
<1>9. StoreGrows
  BY <1>0, <1>3 DEF StoreGrows, TypeOK
<1> QED BY <1>1, <1>2, <1>3, <1>6, <1>8, <1>9, OpStep

\* The invalidation of a write fences the fills of its process.
LEMMA InvalidateStep ==
    ASSUME CacheInv, NEW t \in Tasks, Invalidate(t)
    PROVE  CacheInv'
<1>0. TypeOK /\ InvRegistry /\ InvWrites /\ InvLoads /\ Home[t] \in Procs
  BY EntityCacheAssumption DEF CacheInv
<1>1. Goto(t, "drop") /\ At(t, "written") /\ op[t].key \in Keys /\ op[t].pc = "written"
  BY <1>0 DEF Invalidate, At, TypeOK
<1>7. OnlyOp(t) /\ KeepsOp(t) /\ op'[t].pc = "drop"
  BY <1>0, <1>1, GotoOp DEF Pcs
<1>3. UNCHANGED <<store, cache, tag, fresh, late, acked>> /\ bumpCacheEpoch(Home[t], op[t].key)
  BY DEF Invalidate, cacheVars, historyVars
<1>5. PICK k \in Keys : k = op[t].key /\ k = op'[t].key
  BY <1>1, <1>7 DEF KeepsOp
<1>2. EpochType /\ EpochsGrow /\ bumpCacheEpoch(Home[t], k)
  BY <1>0, <1>3, <1>5, EpochGrows
<1>4. FailureType \/ UNCHANGED failureVars
  BY DEF Invalidate
<1>8. TypeOK'
  <2>1. calls' \in Nat /\ faults' \in Nat
    BY <1>0, CountersType DEF Invalidate
  <2>3. known' = known
    BY DEF Invalidate, historyVars
  <2> QED BY <1>0, <1>2, <1>3, <1>4, <1>5, <1>7, <2>1, <2>3, TypeStep DEF TypeOK
<1>6. NewOp(t)
  <2>1. op'[t].epoch <= cacheEpoch(Home[t], op[t].key)'
    <3>1. op[t].epoch <= cacheEpoch(Home[t], k) /\ op[t].epoch \in Nat
      BY <1>0, <1>1, <1>5 DEF InvRegistry, At, TypeOK, Op
    <3>2. cacheEpoch(Home[t], k)' >= cacheEpoch(Home[t], k) /\ cacheEpoch(Home[t], k) \in Nat
          /\ cacheEpoch(Home[t], k)' \in Nat
      BY <1>0, <1>2, <1>8 DEF EpochsGrow, TypeOK, cacheEpoch
    <3>3. cacheEpoch(Home[t], k)' = cacheEpoch(Home[t], op[t].key)'
      BY <1>5 DEF cacheEpoch
    <3> QED BY <1>7, <3>1, <3>2, <3>3 DEF KeepsOp
  <2>2. Sync => FillsFrom(op[t].key, op[t].ver)'
    <3>1. Sync => \A n : FillsFrom(k, n)'
      BY <1>0, <1>2, <1>3, <1>7, <1>8, BumpFences DEF Filling
    <3>2. PICK n : n = op'[t].ver
      OBVIOUS
    <3>3. Sync => FillsFrom(k, n)'
      BY <3>1
    <3> QED BY <1>5, <3>2, <3>3 DEF FillsFrom
  <2>3. op[t].tok < fresh /\ op[t].need <= acked[op[t].key] /\ op[t].ver <= store[op[t].key]
    BY <1>0, <1>1 DEF InvRegistry, InvLoads, InvWrites, At
  <2> QED BY <1>3, <1>7, <2>1, <2>2, <2>3 DEF NewOp, MayPut, Resolved, KeepsOp
<1>9. StoreGrows
  BY <1>0, <1>3 DEF StoreGrows, TypeOK
<1> QED BY <1>2, <1>3, <1>6, <1>7, <1>8, <1>9, OpStep
----------------------------------------------------------------------------
(* What the requests of the cache adapter change.                          *)

\* A delete leaves no row, and of a versioned key no usable version.
LEMMA RemoveMoves ==
    ASSUME TypeOK, InvRegistry, NEW k \in Keys, Remove(k)
    PROVE  /\ TagsMove /\ CacheKept
           /\ cache' \in [Keys -> Value] /\ tag' \in [Keys -> Nat] /\ fresh' \in Nat \ {0}
           /\ cache'[k] = Miss
           /\ Distributed => tag'[k] = fresh
<1> USE EntityCacheAssumption
<1>0. cache \in [Keys -> Value] /\ tag \in [Keys -> Nat] /\ fresh \in Nat \ {0}
      /\ \A j \in Keys : tag[j] < fresh
  BY DEF TypeOK, InvRegistry
<1>1. cache' = [cache EXCEPT ![k] = Miss]
  BY DEF Remove
<1>2. cache' \in [Keys -> Value] /\ cache'[k] = Miss /\ CacheKept
  BY <1>0, <1>1 DEF Value, CacheKept
<1>3. CASE Distributed
  <2>1. tag' = [tag EXCEPT ![k] = fresh] /\ fresh' = fresh + 1
    BY <1>3 DEF Remove
  <2> QED BY <1>0, <1>2, <2>1 DEF TagsMove
<1>4. CASE ~Distributed
  <2>1. tag' = tag /\ fresh' = fresh
    BY <1>4 DEF Remove
  <2> QED BY <1>0, <1>2, <1>4, <2>1 DEF TagsMove
<1> QED BY <1>3, <1>4

\* A key is given a version only if it has none.
LEMMA TouchMoves ==
    ASSUME TypeOK, InvRegistry, NEW k \in Keys, TouchVersion(k)
    PROVE  TagsMove /\ tag' \in [Keys -> Nat] /\ fresh' \in Nat \ {0} /\ versionOf(k) < fresh'
<1>0. tag \in [Keys -> Nat] /\ fresh \in Nat \ {0} /\ \A j \in Keys : tag[j] < fresh
  BY DEF TypeOK, InvRegistry
<1>1. CASE tag[k] = 0
  <2>1. tag' = [tag EXCEPT ![k] = fresh] /\ fresh' = fresh + 1 /\ versionOf(k) = fresh
    BY <1>1 DEF TouchVersion, versionOf
  <2> QED BY <1>0, <2>1 DEF TagsMove
<1>2. CASE tag[k] # 0
  <2>1. tag' = tag /\ fresh' = fresh /\ versionOf(k) = tag[k]
    BY <1>2 DEF TouchVersion, versionOf
  <2> QED BY <1>0, <2>1 DEF TagsMove
<1> QED BY <1>1, <1>2

\* A set changes the row of its key, if it is accepted, and nothing else.
LEMMA PutMoves ==
    ASSUME TypeOK, InvRegistry, NEW k \in Keys, NEW val \in Nat, NEW v, Put(k, val, v)
    PROVE  /\ TagsMove
           /\ cache' \in [Keys -> Value] /\ tag' \in [Keys -> Nat] /\ fresh' \in Nat \ {0}
           /\ \A j \in Keys : cache'[j] = cache[j] \/ (j = k /\ Accepts(k, v) /\ cache'[j] = val)
<1>0. cache \in [Keys -> Value] /\ tag \in [Keys -> Nat] /\ fresh \in Nat \ {0}
      /\ \A j \in Keys : tag[j] < fresh
  BY DEF TypeOK, InvRegistry
<1>1. cache' \in [Keys -> Value]
      /\ \A j \in Keys : cache'[j] = cache[j] \/ (j = k /\ Accepts(k, v) /\ cache'[j] = val)
  <2>1. CASE Accepts(k, v)
    <3>1. cache' = [cache EXCEPT ![k] = val]
      BY <2>1 DEF Put
    <3> QED BY <1>0, <2>1, <3>1 DEF Value
  <2>2. CASE ~Accepts(k, v)
    <3>1. cache' = cache
      BY <2>2 DEF Put
    <3> QED BY <1>0, <3>1
  <2> QED BY <2>1, <2>2
<1>2. TagsMove /\ tag' \in [Keys -> Nat] /\ fresh' \in Nat \ {0}
  <2>1. CASE Distributed /\ tag[k] = 0
    <3>1. tag' = [tag EXCEPT ![k] = fresh] /\ fresh' = fresh + 1
      BY <2>1 DEF Put
    <3> QED BY <1>0, <3>1 DEF TagsMove
  <2>2. CASE ~(Distributed /\ tag[k] = 0)
    <3>1. tag' = tag /\ fresh' = fresh
      BY <2>2 DEF Put
    <3> QED BY <1>0, <3>1 DEF TagsMove
  <2> QED BY <2>1, <2>2
<1> QED BY <1>1, <1>2

\* No set on its way becomes acceptable by a change of versions.
LEMMA LateStays ==
    ASSUME TypeOK, InvRegistry, TagsMove, late' \subseteq late
    PROVE  LateKept /\ LateSound
<1>1. ASSUME NEW m \in late', m.tok # 0, m.tok = tag'[m.key] PROVE m.tok = tag[m.key]
  <2>1. m.key \in Keys /\ m.tok \in Nat /\ fresh \in Nat
    BY DEF TypeOK
  <2>2. m.tok < fresh
    BY DEF InvRegistry
  <2> QED BY <1>1, <2>1, <2>2 DEF TagsMove, TypeOK
<1>2. LateKept
  BY <1>1 DEF LateKept
<1>3. ASSUME NEW m \in late' PROVE m.tok < fresh'
  <2>1. m.tok \in Nat /\ m.tok < fresh /\ fresh \in Nat
    BY DEF TypeOK, InvRegistry
  <2> QED BY <2>1 DEF TagsMove
<1> QED BY <1>2, <1>3 DEF LateSound, InvRegistry

\* The step of one operation that only touches the cache.
LEMMA CacheStep ==
    ASSUME CacheInv, TypeOK', NEW t \in Tasks, OnlyOp(t), EpochsStay,
           UNCHANGED <<store, late, acked>>, TagsMove, CacheKept, NewOp(t)
    PROVE  CacheInv'
<1>0. TypeOK /\ InvRegistry
  BY DEF CacheInv
<1>1. LateKept /\ LateSound
  BY <1>0, LateStays
<1>2. EpochsHold
  BY <1>0, StayGrow, GrowHold
<1>3. AckedMoves /\ StoreGrows
  BY <1>0 DEF AckedMoves, StoreGrows, TypeOK
<1> QED BY <1>1, <1>2, <1>3, CalmStep DEF OnlyOp

\* What an operation keeps while it moves on.
LEMMA CarriedOn ==
    ASSUME CacheInv, NEW t \in Tasks, ~At(t, "idle"), EpochsStay, UNCHANGED <<store, acked>>,
           op'[t].key = op[t].key, op'[t].epoch = op[t].epoch, op'[t].need = op[t].need
    PROVE  op'[t].epoch <= cacheEpoch(Home[t], op[t].key)' /\ op'[t].need <= acked'[op'[t].key]
<1>1. op[t].epoch <= cacheEpoch(Home[t], op[t].key) /\ op[t].need <= acked[op[t].key]
  BY DEF CacheInv, InvRegistry, InvLoads
<1> QED BY <1>1 DEF EpochsStay, cacheEpoch

\* A processed delete leaves nothing older than the write behind: a new
\* version refuses all fills of a versioned cache, the epoch those of the memory
\* adapter.
LEMMA DeleteStep ==
    ASSUME CacheInv, NEW t \in Tasks, Delete(t), Distributed \/ Sync
    PROVE  CacheInv'
<1> USE EntityCacheAssumption
<1>0. TypeOK /\ InvRegistry /\ InvWrites /\ InvLoads /\ Home[t] \in Procs
  BY DEF CacheInv
<1>1. op[t].pc \in {"drop", "undo", "poison"} /\ op[t].pc # "idle" /\ op[t].key \in Keys /\ Remove(op[t].key)
  BY <1>0 DEF Delete, TypeOK
<1>2. PICK q \in {"dropped", "undone", "poisoned"} :
          Goto(t, q) /\ (q = "dropped" => op[t].pc = "drop") /\ (q = "undone" => op[t].pc = "undo")
  <2>1. CASE op[t].pc = "drop"
    BY <2>1 DEF Delete, At
  <2>2. CASE op[t].pc = "undo"
    BY <2>2 DEF Delete, At
  <2>3. CASE op[t].pc = "poison"
    BY <2>3 DEF Delete, At
  <2> QED BY <1>1, <2>1, <2>2, <2>3
<1>3. OnlyOp(t) /\ KeepsOp(t) /\ op'[t].pc = q
  BY <1>0, <1>2, GotoOp DEF Pcs
<1>4. EpochsStay /\ UNCHANGED <<store, late, acked, known>>
  BY DEF Delete, EpochsStay, epochVars, historyVars
<1>5. EpochType /\ EpochsGrow
  BY <1>0, <1>4, StayGrow
<1>6. /\ TagsMove /\ CacheKept
      /\ cache' \in [Keys -> Value] /\ tag' \in [Keys -> Nat] /\ fresh' \in Nat \ {0}
      /\ cache'[op[t].key] = Miss
      /\ Distributed => tag'[op[t].key] = fresh
  BY <1>0, <1>1, RemoveMoves
<1>7. TypeOK'
  <2>1. calls' \in Nat /\ faults' \in Nat
    BY <1>0, CountersType DEF Delete
  <2>2. FailureType \/ UNCHANGED failureVars
    BY DEF Delete
  <2> QED BY <1>0, <1>1, <1>3, <1>4, <1>5, <1>6, <2>1, <2>2, TypeStep DEF TypeOK, KeepsOp
<1>8. PICK k \in Keys, n \in Nat : k = op[t].key /\ k = op'[t].key /\ n = op[t].ver /\ n = op'[t].ver
  BY <1>0, <1>1, <1>3 DEF KeepsOp, TypeOK, Op
<1>9. ASSUME q = "dropped" PROVE FillsFrom(k, n)'
  <2>1. CASE Distributed
    <3>1. ASSUME NEW u \in Tasks, op'[u].key = k PROVE ~MayPut(u)'
      <4>1. op'[u].tok < fresh /\ op'[u].tok \in Nat
        BY <1>0, <1>3 DEF InvRegistry, TypeOK, OnlyOp, KeepsOp, Op
      <4>2. tag'[k] = fresh /\ fresh \in Nat
        BY <1>0, <1>6, <1>8, <2>1 DEF TypeOK
      <4> QED BY <2>1, <3>1, <4>1, <4>2 DEF MayPut
    <3>2. ASSUME NEW m \in late' PROVE m.tok # tag'[k]
      <4>1. m.tok < fresh /\ m.tok \in Nat /\ fresh \in Nat
        BY <1>0, <1>4 DEF InvRegistry, TypeOK
      <4> QED BY <1>6, <1>8, <2>1, <4>1
    <3> QED BY <3>1, <3>2 DEF FillsFrom
  <2>2. CASE Sync
    <3>1. FillsFrom(k, n)
      BY <1>0, <1>2, <1>8, <1>9, <2>2 DEF InvWrites, At
    <3>2. ASSUME NEW u \in Tasks, MayPut(u)' PROVE MayPut(u) /\ op'[u] = op[u]
      <4>1. op'[u] = op[u]
        BY <1>3, <1>9, <3>2 DEF MayPut, OnlyOp
      <4> QED BY <1>4, <2>2, <3>2, <4>1 DEF MayPut, cacheEpochUnchanged, cacheEpoch, EpochsStay
    <3>3. late' = {}
      BY <1>0, <1>4, <2>2 DEF InvRegistry
    <3> QED BY <3>1, <3>2, <3>3 DEF FillsFrom
  <2> QED BY <2>1, <2>2
<1>10. q = "dropped" => HoldsFrom(op[t].key, op[t].ver)'
  <2>1. q = "dropped" => HoldsFrom(k, n)'
    BY <1>6, <1>8, <1>9 DEF HoldsFrom
  <2> QED BY <1>8, <2>1 DEF HoldsFrom, FillsFrom
<1>11. NewOp(t)
  <2>1. op'[t].epoch <= cacheEpoch(Home[t], op[t].key)' /\ op'[t].need <= acked'[op'[t].key]
    BY <1>1, <1>3, <1>4, CarriedOn DEF KeepsOp, At
  <2>2. op'[t].tok < fresh'
    <3>1. op[t].tok < fresh /\ op[t].tok \in Nat /\ fresh \in Nat
      BY <1>0 DEF InvRegistry, TypeOK, Op
    <3> QED BY <1>3, <1>6, <3>1 DEF TagsMove, KeepsOp
  <2>3. q = "dropped" => op'[t].ver <= store'[op'[t].key]
    BY <1>0, <1>2, <1>3, <1>4 DEF InvWrites, KeepsOp
  <2>4. q = "undone" => op'[t].val \in Nat /\ op'[t].val >= op'[t].need
    BY <1>0, <1>2, <1>3 DEF InvLoads, KeepsOp, Resolved
  <2> QED BY <1>3, <1>10, <2>1, <2>2, <2>3, <2>4 DEF NewOp, MayPut, Resolved
<1> QED BY <1>3, <1>4, <1>6, <1>7, <1>11, CacheStep

\* A hit is at least as new as every acknowledged write.
LEMMA CacheGetStep ==
    ASSUME CacheInv, NEW t \in Tasks, CacheGet(t)
    PROVE  CacheInv'
<1> USE EntityCacheAssumption
<1>0. TypeOK /\ InvRegistry /\ InvWrites /\ InvLoads /\ Home[t] \in Procs
  BY DEF CacheInv
<1>1. OnlyOp(t) /\ op[t].pc = "get" /\ op[t].key \in Keys /\ op'[t].pc = "got"
      /\ op'[t].val = cache[op[t].key]
      /\ op'[t].tok = (IF Distributed THEN versionOf(op[t].key) ELSE 0)
      /\ op'[t].key = op[t].key /\ op'[t].epoch = op[t].epoch /\ op'[t].need = op[t].need
  BY <1>0, CacheGetOp
<1>2. EpochsStay /\ UNCHANGED <<store, cache, late, acked, known>>
  BY DEF CacheGet, EpochsStay, epochVars, historyVars
<1>3. EpochType /\ EpochsGrow
  BY <1>0, <1>2, StayGrow
<1>4. TagsMove /\ tag' \in [Keys -> Nat] /\ fresh' \in Nat \ {0} /\ op'[t].tok < fresh'
  <2>1. CASE Distributed
    <3>1. TouchVersion(op[t].key)
      BY <2>1 DEF CacheGet
    <3> QED BY <1>0, <1>1, <2>1, <3>1, TouchMoves
  <2>2. CASE ~Distributed
    <3>1. tag' = tag /\ fresh' = fresh /\ op'[t].tok = 0
      BY <1>1, <2>2 DEF CacheGet
    <3> QED BY <1>0, <3>1 DEF TagsMove, TypeOK, InvRegistry
  <2> QED BY <2>1, <2>2
<1>5. TypeOK'
  <2>1. calls' \in Nat /\ faults' \in Nat
    BY <1>0, CountersType DEF CacheGet
  <2>2. FailureType \/ UNCHANGED failureVars
    BY DEF CacheGet
  <2> QED BY <1>0, <1>1, <1>2, <1>3, <1>4, <2>1, <2>2, TypeStep DEF TypeOK
<1>6. NewOp(t)
  <2>1. op'[t].epoch <= cacheEpoch(Home[t], op[t].key)' /\ op'[t].need <= acked'[op'[t].key]
    BY <1>1, <1>2, CarriedOn DEF At
  <2>2. cache[op[t].key] # Miss => cache[op[t].key] >= acked[op[t].key]
    BY <1>0, <1>1 DEF InvWrites, HoldsFrom
  <2>3. cache[op[t].key] \in Int /\ acked[op[t].key] \in Nat /\ op'[t].need \in Nat
    BY <1>0, <1>1 DEF TypeOK, Value, Miss, Op
  <2>4. op'[t].val # Miss => op'[t].val >= op'[t].need /\ op'[t].val >= acked'[op'[t].key]
    BY <1>1, <1>2, <2>1, <2>2, <2>3
  <2> QED BY <1>1, <1>4, <2>1, <2>4 DEF NewOp, MayPut, Resolved
<1>7. CacheKept
  BY <1>2 DEF CacheKept
<1> QED BY <1>1, <1>2, <1>4, <1>5, <1>6, <1>7, CacheStep

\* A version without a row is no danger.
LEMMA RecoverVersionStep ==
    ASSUME CacheInv, NEW t \in Tasks, RecoverVersion(t)
    PROVE  CacheInv'
<1> USE EntityCacheAssumption
<1>0. TypeOK /\ InvRegistry /\ InvWrites /\ InvLoads /\ Home[t] \in Procs
  BY DEF CacheInv
<1>1. OnlyOp(t) /\ op[t].pc = "recover" /\ op[t].key \in Keys /\ op'[t].pc = "read"
      /\ op'[t].tok = versionOf(op[t].key)
      /\ op'[t].key = op[t].key /\ op'[t].epoch = op[t].epoch /\ op'[t].need = op[t].need
  BY <1>0, RecoverVersionOp
<1>2. EpochsStay /\ UNCHANGED <<store, cache, late, acked, known>>
  BY DEF RecoverVersion, EpochsStay, epochVars, historyVars
<1>3. EpochType /\ EpochsGrow
  BY <1>0, <1>2, StayGrow
<1>4. TagsMove /\ tag' \in [Keys -> Nat] /\ fresh' \in Nat \ {0} /\ op'[t].tok < fresh'
  BY <1>0, <1>1, TouchMoves DEF RecoverVersion
<1>5. TypeOK'
  <2>1. calls' \in Nat /\ faults' \in Nat
    BY <1>0, CountersType DEF RecoverVersion
  <2>2. FailureType \/ UNCHANGED failureVars
    BY DEF RecoverVersion
  <2> QED BY <1>0, <1>1, <1>2, <1>3, <1>4, <2>1, <2>2, TypeStep DEF TypeOK
<1>6. NewOp(t)
  <2>1. op'[t].epoch <= cacheEpoch(Home[t], op[t].key)' /\ op'[t].need <= acked'[op'[t].key]
    BY <1>1, <1>2, CarriedOn DEF At
  <2> QED BY <1>1, <1>4, <2>1 DEF NewOp, MayPut, Resolved
<1>7. CacheKept
  BY <1>2 DEF CacheKept
<1> QED BY <1>1, <1>2, <1>4, <1>5, <1>6, <1>7, CacheStep

\* An operation whose set is sent, lands or is dropped.
LEMMA SetNew ==
    ASSUME CacheInv, NEW t \in Tasks, NEW q \in {"return", "setting", "stored", "refused"}, Goto(t, q),
           op[t].pc \in {"set", "setting"}, q = "setting" => ~Sync,
           EpochsStay, TagsMove, UNCHANGED <<store, acked>>
    PROVE  NewOp(t)
<1> USE EntityCacheAssumption
<1>0. TypeOK /\ InvRegistry /\ InvWrites /\ InvLoads /\ Home[t] \in Procs /\ op[t].key \in Keys
  BY DEF CacheInv, TypeOK
<1>1. OnlyOp(t) /\ KeepsOp(t) /\ op'[t].pc = q
  BY <1>0, GotoOp DEF Pcs
<1>2. op'[t].epoch <= cacheEpoch(Home[t], op[t].key)' /\ op'[t].need <= acked'[op'[t].key]
  BY <1>1, CarriedOn DEF KeepsOp, At
<1>3. op'[t].tok < fresh'
  <2>1. op[t].tok < fresh /\ op[t].tok \in Nat /\ fresh \in Nat
    BY <1>0 DEF InvRegistry, TypeOK, Op
  <2> QED BY <1>1, <2>1 DEF TagsMove, KeepsOp
<1>4. op'[t].val \in Nat /\ op'[t].val >= op'[t].need
  BY <1>0, <1>1 DEF InvLoads, KeepsOp, Resolved
<1>5. ASSUME MayPut(t)' PROVE MayPut(t)
  <2>1. cacheEpoch(Home[t], op[t].key)' >= cacheEpoch(Home[t], op[t].key)
    <3>1. cacheEpoch(Home[t], op[t].key)' = cacheEpoch(Home[t], op[t].key)
      BY <1>1 DEF cacheEpoch, EpochsStay, KeepsOp
    <3>2. cacheEpoch(Home[t], op[t].key) \in Nat
      BY <1>0 DEF cacheEpoch, TypeOK
    <3> QED BY <3>1, <3>2
  <2> QED BY <1>0, <1>1, <1>5, <2>1, PermitKept DEF KeepsOp
<1> QED BY <1>1, <1>2, <1>3, <1>4, <1>5 DEF NewOp, KeepsOp

\* The row that a set puts is one the cache would take from a load.
LEMMA PutKept ==
    ASSUME CacheInv, NEW t \in Tasks, op[t].pc \in {"set", "setting"}, cacheEpochUnchanged(t) \/ Distributed,
           Put(op[t].key, op[t].val, op[t].tok)
    PROVE  /\ TagsMove /\ CacheKept
           /\ cache' \in [Keys -> Value] /\ tag' \in [Keys -> Nat] /\ fresh' \in Nat \ {0}
<1> USE EntityCacheAssumption
<1>0. TypeOK /\ InvRegistry /\ op[t].key \in Keys /\ op[t].val \in Nat
  BY DEF CacheInv, TypeOK, InvLoads, Resolved
<1>1. /\ TagsMove
      /\ cache' \in [Keys -> Value] /\ tag' \in [Keys -> Nat] /\ fresh' \in Nat \ {0}
      /\ \A j \in Keys : cache'[j] = cache[j] \/
             (j = op[t].key /\ Accepts(op[t].key, op[t].tok) /\ cache'[j] = op[t].val)
  BY <1>0, PutMoves
<1>2. Accepts(op[t].key, op[t].tok) => MayPut(t)
  <2>1. CASE Distributed
    BY <2>1 DEF Accepts, MayPut
  <2>2. CASE ~Distributed
    BY <2>2 DEF MayPut
  <2> QED BY <2>1, <2>2
<1>3. CacheKept
  BY <1>1, <1>2 DEF CacheKept
<1> QED BY <1>1, <1>3

\* The memory adapter stores a row under the epoch just compared.
LEMMA CacheSetStep ==
    ASSUME CacheInv, NEW t \in Tasks, CacheSet(t)
    PROVE  CacheInv'
<1> USE EntityCacheAssumption
<1>0. TypeOK /\ InvRegistry /\ InvWrites /\ InvLoads /\ Home[t] \in Procs
  BY DEF CacheInv
<1>1. op[t].pc = "set" /\ op[t].key \in Keys
  BY <1>0 DEF CacheSet, At, TypeOK
<1>2. PICK q \in {"return", "setting", "stored", "refused"} :
          /\ Goto(t, q) /\ (q = "setting" => ~Sync)
          /\ \/ UNCHANGED <<cache, tag, fresh>>
             \/ Put(op[t].key, op[t].val, op[t].tok) /\ cacheEpochUnchanged(t)
  <2>1. CASE ~cacheEpochUnchanged(t)
    <3>1. Goto(t, "return") /\ UNCHANGED <<cache, tag, fresh>>
      BY <2>1 DEF CacheSet
    <3> QED BY <3>1
  <2>2. CASE cacheEpochUnchanged(t) /\ ~Sync
    <3>1. Goto(t, "setting") /\ UNCHANGED <<cache, tag, fresh>>
      BY <2>2 DEF CacheSet
    <3> QED BY <2>2, <3>1
  <2>3. CASE cacheEpochUnchanged(t) /\ Sync
    <3>1. Goto(t, Outcome(t)) /\ Put(op[t].key, op[t].val, op[t].tok)
      BY <2>3 DEF CacheSet
    <3>2. Outcome(t) \in {"stored", "refused"}
      BY DEF Outcome
    <3> QED BY <2>3, <3>1, <3>2
  <2> QED BY <2>1, <2>2, <2>3
<1>3. OnlyOp(t) /\ KeepsOp(t) /\ op'[t].pc = q
  BY <1>0, <1>2, GotoOp DEF Pcs
<1>4. EpochsStay /\ UNCHANGED <<store, late, acked, known>>
  BY DEF CacheSet, EpochsStay, epochVars, historyVars
<1>5. EpochType /\ EpochsGrow
  BY <1>0, <1>4, StayGrow
<1>6. TagsMove /\ CacheKept /\ cache' \in [Keys -> Value] /\ tag' \in [Keys -> Nat] /\ fresh' \in Nat \ {0}
  <2>1. CASE UNCHANGED <<cache, tag, fresh>>
    BY <1>0, <2>1 DEF TagsMove, CacheKept, TypeOK, InvRegistry
  <2>2. CASE Put(op[t].key, op[t].val, op[t].tok) /\ cacheEpochUnchanged(t)
    BY <1>1, <2>2, PutKept
  <2> QED BY <1>2, <2>1, <2>2
<1>7. TypeOK'
  <2>1. calls' \in Nat /\ faults' \in Nat
    BY <1>0, CountersType DEF CacheSet
  <2>2. FailureType \/ UNCHANGED failureVars
    BY DEF CacheSet
  <2> QED BY <1>0, <1>1, <1>3, <1>4, <1>5, <1>6, <2>1, <2>2, TypeStep DEF TypeOK, KeepsOp
<1>8. NewOp(t)
  BY <1>1, <1>2, <1>4, <1>6, SetNew
<1> QED BY <1>3, <1>4, <1>6, <1>7, <1>8, CacheStep

\* A versioned cache stores a row under the version it was read with.
LEMMA SetLandsStep ==
    ASSUME CacheInv, NEW t \in Tasks, SetLands(t), Distributed \/ Sync
    PROVE  CacheInv'
<1> USE EntityCacheAssumption
<1>0. TypeOK /\ InvRegistry /\ InvWrites /\ InvLoads /\ Home[t] \in Procs
  BY DEF CacheInv
<1>1. op[t].pc = "setting" /\ op[t].key \in Keys /\ Distributed
  BY <1>0 DEF SetLands, At, TypeOK, InvRegistry
<1>2. PICK q \in {"stored", "refused"} : Goto(t, q)
  BY DEF SetLands, Outcome
<1>3. OnlyOp(t) /\ KeepsOp(t) /\ op'[t].pc = q
  BY <1>0, <1>2, GotoOp DEF Pcs
<1>4. EpochsStay /\ UNCHANGED <<store, late, acked, known>>
  BY DEF SetLands, EpochsStay, epochVars, historyVars
<1>5. EpochType /\ EpochsGrow
  BY <1>0, <1>4, StayGrow
<1>6. TagsMove /\ CacheKept /\ cache' \in [Keys -> Value] /\ tag' \in [Keys -> Nat] /\ fresh' \in Nat \ {0}
  BY <1>1, PutKept DEF SetLands
<1>7. TypeOK'
  <2>1. calls' \in Nat /\ faults' \in Nat
    BY <1>0, CountersType DEF SetLands
  <2>2. FailureType \/ UNCHANGED failureVars
    BY DEF SetLands
  <2> QED BY <1>0, <1>1, <1>3, <1>4, <1>5, <1>6, <2>1, <2>2, TypeStep DEF TypeOK, KeepsOp
<1>8. NewOp(t)
  BY <1>1, <1>2, <1>4, <1>6, SetNew
<1> QED BY <1>3, <1>4, <1>6, <1>7, <1>8, CacheStep

\* A set given up by its caller keeps the permit it had, and no more.
LEMMA SetThrowsStep ==
    ASSUME CacheInv, NEW t \in Tasks, SetThrows(t), Distributed \/ Sync
    PROVE  CacheInv'
<1> USE EntityCacheAssumption
<1> DEFINE m0 == [key |-> op[t].key, val |-> op[t].val, tok |-> op[t].tok]
<1>0. TypeOK /\ InvRegistry /\ InvWrites /\ InvLoads /\ Home[t] \in Procs
  BY DEF CacheInv
<1>1. op[t].pc \in {"set", "setting", "stored", "refused", "hook"} /\ Goto(t, "poison")
      /\ (late' = late \/ (op[t].pc = "setting" /\ late' = late \cup {m0}))
  BY DEF SetThrows, At
<1>2. op[t].pc # "idle" /\ op[t].key \in Keys /\ op[t].val \in Nat /\ op[t].tok \in Nat /\ op[t].tok < fresh
  BY <1>0, <1>1 DEF TypeOK, InvLoads, Resolved, InvRegistry, Op
<1>3. OnlyOp(t) /\ KeepsOp(t) /\ op'[t].pc = "poison"
  BY <1>0, <1>1, GotoOp DEF Pcs
<1>4. UNCHANGED <<store, cache, tag, fresh, acked, known>> /\ bumpCacheEpoch(Home[t], op[t].key)
  BY DEF SetThrows, historyVars
<1>5. EpochType /\ EpochsGrow
  BY <1>0, <1>2, <1>4, EpochGrows
<1>6. m0 \in [key: Keys, val: Nat, tok: Nat]
      /\ m0.key = op[t].key /\ m0.val = op[t].val /\ m0.tok = op[t].tok
  BY <1>2
<1> HIDE DEF m0
<1>7. TypeOK'
  <2>1. calls' \in Nat /\ faults' \in Nat
    BY <1>0, CountersType DEF SetThrows
  <2>2. FailureType \/ UNCHANGED failureVars
    BY DEF SetThrows
  <2>3. late' \subseteq [key: Keys, val: Nat, tok: Nat]
    BY <1>0, <1>1, <1>6 DEF TypeOK
  <2> QED BY <1>0, <1>2, <1>3, <1>4, <1>5, <2>1, <2>2, <2>3, TypeStep DEF TypeOK, KeepsOp
<1>8. NewOp(t)
  <2>1. PICK k \in Keys : k = op[t].key /\ k = op'[t].key
    BY <1>2, <1>3 DEF KeepsOp
  <2>2. op[t].epoch <= cacheEpoch(Home[t], k) /\ op[t].epoch \in Nat
    BY <1>0, <1>2, <2>1 DEF InvRegistry, At, TypeOK, Op
  <2>3. cacheEpoch(Home[t], k)' >= cacheEpoch(Home[t], k) /\ cacheEpoch(Home[t], k) \in Nat
        /\ cacheEpoch(Home[t], k)' \in Nat
    BY <1>0, <1>5, <1>7 DEF EpochsGrow, TypeOK, cacheEpoch
  <2>4. cacheEpoch(Home[t], k)' = cacheEpoch(Home[t], op[t].key)'
    BY <2>1 DEF cacheEpoch
  <2>5. op'[t].epoch <= cacheEpoch(Home[t], op[t].key)'
    BY <1>3, <2>2, <2>3, <2>4 DEF KeepsOp
  <2>6. op'[t].need <= acked'[op'[t].key]
    BY <1>0, <1>2, <1>3, <1>4 DEF InvLoads, At, KeepsOp
  <2> QED BY <1>2, <1>3, <1>4, <2>5, <2>6 DEF NewOp, MayPut, Resolved, KeepsOp
<1>9. LateSound
  BY <1>0, <1>1, <1>2, <1>4, <1>6 DEF LateSound, InvRegistry, At
<1>10. LateKept
  <2> SUFFICES ASSUME NEW m \in late', m.tok # 0, m.tok = tag'[m.key]
               PROVE  \/ m \in late /\ m.tok = tag[m.key]
                      \/ \E u \in Tasks : MayPut(u) /\ op[u].key = m.key /\ op[u].val = m.val
    BY DEF LateKept
  <2>1. CASE m \in late
    BY <1>4, <2>1
  <2>2. CASE m = m0 /\ op[t].pc = "setting"
    <3>1. Distributed
      BY <1>0, <2>2 DEF InvRegistry, At
    <3>2. MayPut(t)
      BY <1>4, <1>6, <2>2, <3>1 DEF MayPut
    <3> QED BY <1>6, <2>2, <3>2
  <2> QED BY <1>1, <2>1, <2>2
<1>11. TagsMove /\ CacheKept /\ AckedMoves /\ StoreGrows
  BY <1>0, <1>4 DEF TagsMove, CacheKept, AckedMoves, StoreGrows, InvRegistry, TypeOK
<1>12. EpochsHold
  BY <1>0, <1>5, GrowHold
<1> QED BY <1>3, <1>7, <1>8, <1>9, <1>10, <1>11, <1>12, CalmStep DEF OnlyOp

\* A write is acknowledged when nothing older is cached or on its way.
LEMMA DeleteReturnsStep ==
    ASSUME CacheInv, NEW t \in Tasks, DeleteReturns(t)
    PROVE  CacheInv'
<1> USE EntityCacheAssumption
<1>0. TypeOK /\ InvRegistry /\ InvWrites /\ InvLoads /\ Home[t] \in Procs
  BY DEF CacheInv
<1>1. op[t].pc = "dropped" /\ op[t].key \in Keys /\ op[t].ver \in Nat /\ End(t)
  BY <1>0 DEF DeleteReturns, At, TypeOK, Op
<1>2. OnlyOp(t) /\ op'[t] = Idle
  BY <1>0, <1>1, EndOp
<1>3. UNCHANGED <<store, cache, tag, fresh, late>> /\ bumpCacheEpoch(Home[t], op[t].key)
      /\ clearCacheInvalidationFailure(Home[t], op[t].key)
  BY DEF DeleteReturns, cacheVars
<1>4. EpochType /\ EpochsGrow /\ FailureType
  BY <1>0, <1>1, <1>3, EpochGrows, ClearType
<1>5. acked' = [acked EXCEPT ![op[t].key] = Larger(@, op[t].ver)] /\ acked \in [Keys -> Nat]
  BY <1>0 DEF DeleteReturns, TypeOK
<1>6. acked' \in [Keys -> Nat]
  BY <1>1, <1>5 DEF Larger
<1>7. NewOp(t) /\ op'[t].pc = "idle"
  BY <1>0, <1>2, <1>3, EndNew DEF TypeOK
<1>8. TypeOK'
  <2>1. calls' \in Nat /\ faults' \in Nat
    BY <1>0, CountersType DEF DeleteReturns
  <2>2. known' \in [Procs -> [Keys -> Nat]]
    BY <1>0, <1>1 DEF DeleteReturns, Ended, Larger, TypeOK
  <2> QED BY <1>0, <1>2, <1>3, <1>4, <1>6, <1>7, <2>1, <2>2, TypeStep DEF TypeOK
<1>9. AckedMoves
  <2> SUFFICES ASSUME NEW k \in Keys, acked'[k] # acked[k]
               PROVE  /\ acked'[k] >= acked[k] /\ acked'[k] <= store[k] /\ HoldsFrom(k, acked'[k])
                      /\ Sync => \A u \in Tasks : cacheEpoch(Home[u], k)' > cacheEpoch(Home[u], k)
    BY DEF AckedMoves
  <2>1. k = op[t].key /\ acked'[k] = op[t].ver /\ acked[k] < op[t].ver
    BY <1>1, <1>5 DEF Larger
  <2>2. op[t].ver <= store[k] /\ HoldsFrom(k, op[t].ver) /\ acked[k] \in Nat
    BY <1>0, <1>1, <1>5, <2>1 DEF InvWrites, At
  <2>3. cacheEpoch(Home[t], k)' > cacheEpoch(Home[t], k)
    BY <1>0, <1>3, <2>1, EpochGrows
  <2>4. Sync => \A u \in Tasks : Home[u] = Home[t]
    OBVIOUS
  <2> QED BY <1>1, <2>1, <2>2, <2>3, <2>4
<1>10. LateKept /\ LateSound /\ TagsMove /\ CacheKept /\ StoreGrows
  <2>1. TagsMove /\ CacheKept /\ StoreGrows
    BY <1>0, <1>3 DEF TagsMove, CacheKept, StoreGrows, InvRegistry, TypeOK
  <2> QED BY <1>0, <1>3, <2>1, LateStays
<1>11. EpochsHold
  BY <1>0, <1>4, GrowHold
<1> QED BY <1>2, <1>7, <1>8, <1>9, <1>10, <1>11, CalmStep DEF OnlyOp

\* Expiry takes rows and permits away.
LEMMA ExpireStep ==
    ASSUME CacheInv, NEW k \in Keys, Expire(k)
    PROVE  CacheInv'
<1>0. TypeOK /\ InvRegistry
  BY DEF CacheInv
<1>1. cache' = [cache EXCEPT ![k] = Miss] /\ tag' = [tag EXCEPT ![k] = 0]
      /\ UNCHANGED <<store, fresh, late, epochVars, failureVars, op, acked, known>>
  BY DEF Expire, historyVars
<1>2. EpochsStay
  BY <1>1 DEF EpochsStay, epochVars
<1>3. TagsMove /\ CacheKept /\ AckedMoves /\ StoreGrows
  BY <1>0, <1>1 DEF TagsMove, CacheKept, AckedMoves, StoreGrows, InvRegistry, TypeOK
<1>4. LateKept /\ LateSound
  BY <1>0, <1>1, <1>3, LateStays
<1>5. EpochsHold
  BY <1>0, <1>2, StayGrow, GrowHold
<1>6. TypeOK'
  <2>1. calls' \in Nat /\ faults' \in Nat
    BY <1>0, CountersType DEF Expire
  <2>2. cache' \in [Keys -> Value] /\ tag' \in [Keys -> Nat]
    BY <1>0, <1>1 DEF TypeOK, Value
  <2> QED BY <1>0, <1>1, <2>1, <2>2 DEF TypeOK, epochVars, failureVars
<1> QED BY <1>1, <1>3, <1>4, <1>5, <1>6, CalmStep

\* A late set lands only under the version it was read with.
LEMMA LateSetStep ==
    ASSUME CacheInv, NEW m \in late, LateSet(m), Distributed \/ Sync
    PROVE  CacheInv'
<1>0. TypeOK /\ InvRegistry /\ Distributed
  BY DEF CacheInv, InvRegistry
<1>1. Put(m.key, m.val, m.tok) /\ late' = late \ {m}
      /\ UNCHANGED <<store, epochVars, failureVars, op, acked, known>>
  BY DEF LateSet, historyVars
<1>2. m.key \in Keys /\ m.val \in Nat
  BY <1>0 DEF TypeOK
<1>3. /\ TagsMove
      /\ cache' \in [Keys -> Value] /\ tag' \in [Keys -> Nat] /\ fresh' \in Nat \ {0}
      /\ \A j \in Keys : cache'[j] = cache[j] \/ (j = m.key /\ Accepts(m.key, m.tok) /\ cache'[j] = m.val)
  BY <1>0, <1>1, <1>2, PutMoves
<1>4. CacheKept
  BY <1>0, <1>3 DEF CacheKept, Accepts
<1>5. AckedMoves /\ StoreGrows
  BY <1>0, <1>1 DEF AckedMoves, StoreGrows, TypeOK
<1>6. LateKept /\ LateSound
  BY <1>0, <1>1, <1>3, LateStays
<1>7. EpochsHold
  <2>1. EpochsStay
    BY <1>1 DEF EpochsStay, epochVars
  <2> QED BY <1>0, <2>1, StayGrow, GrowHold
<1>8. TypeOK'
  <2>1. calls' \in Nat /\ faults' \in Nat
    BY <1>0, CountersType DEF LateSet
  <2> QED BY <1>0, <1>1, <1>3, <2>1 DEF TypeOK, epochVars, failureVars
<1> QED BY <1>1, <1>3, <1>4, <1>5, <1>6, <1>7, <1>8, CalmStep

\* A restart forgets the registries together with the operations they guard.
LEMMA RestartStep ==
    ASSUME CacheInv, NEW p \in Procs, Restart(p), Distributed \/ Sync
    PROVE  CacheInv'
<1> USE EntityCacheAssumption
<1> DEFINE mine == {t \in Tasks : Home[t] = p /\ ~At(t, "idle")}
           given == {[key |-> op[t].key, val |-> op[t].val, tok |-> op[t].tok] :
                         t \in {u \in mine : At(u, "setting")}}
<1>0. TypeOK /\ InvRegistry /\ InvLoads /\ Distributed /\ ~Sync
  BY DEF CacheInv, Restart
<1>1. late' = late \cup given /\ op' = [t \in Tasks |-> IF t \in mine THEN Idle ELSE op[t]]
      /\ UNCHANGED <<store, cache, tag, fresh, acked>>
  BY DEF Restart
<1>2. ASSUME NEW m \in given
      PROVE  \E u \in Tasks : op[u].pc = "setting" /\ m.key = op[u].key /\ m.val = op[u].val /\ m.tok = op[u].tok
                 /\ m \in [key: Keys, val: Nat, tok: Nat] /\ m.tok < fresh
  <2>1. PICK u \in Tasks : op[u].pc = "setting" /\ m = [key |-> op[u].key, val |-> op[u].val, tok |-> op[u].tok]
    BY DEF At
  <2>2. op[u].key \in Keys /\ op[u].val \in Nat /\ op[u].tok \in Nat /\ op[u].tok < fresh
    BY <1>0, <2>1 DEF TypeOK, InvLoads, Resolved, InvRegistry, Op
  <2> QED BY <2>1, <2>2
<1>3. ASSUME NEW u \in Tasks PROVE (u \notin mine /\ op'[u] = op[u]) \/ (u \in mine /\ op'[u] = Idle)
  BY <1>1
<1>4. ASSUME NEW u \in Tasks, op'[u] = op[u], ~At(u, "idle") PROVE Home[u] # p
  BY <1>3, <1>4 DEF At, Idle
<1> HIDE DEF given, mine
<1>5. LateSound
  BY <1>0, <1>1, <1>2 DEF LateSound, InvRegistry
<1>6. LateKept
  <2> SUFFICES ASSUME NEW m \in late', m.tok # 0, m.tok = tag'[m.key]
               PROVE  \/ m \in late /\ m.tok = tag[m.key]
                      \/ \E u \in Tasks : MayPut(u) /\ op[u].key = m.key /\ op[u].val = m.val
    BY DEF LateKept
  <2>1. CASE m \in late
    BY <1>1, <2>1
  <2>2. CASE m \in given
    <3>1. PICK u \in Tasks : op[u].pc = "setting" /\ m.key = op[u].key /\ m.val = op[u].val /\ m.tok = op[u].tok
      BY <1>2, <2>2
    <3>2. MayPut(u)
      BY <1>0, <1>1, <3>1 DEF MayPut
    <3> QED BY <3>1, <3>2
  <2> QED BY <1>1, <2>1, <2>2
<1>7. TagsMove /\ CacheKept /\ AckedMoves /\ StoreGrows
  BY <1>0, <1>1 DEF TagsMove, CacheKept, AckedMoves, StoreGrows, InvRegistry, TypeOK
<1>8. TypeOK'
  <2>1. calls' \in Nat /\ faults' \in Nat
    BY <1>0, CountersType DEF Restart
  <2>2. late' \subseteq [key: Keys, val: Nat, tok: Nat]
    BY <1>0, <1>1, <1>2 DEF TypeOK
  <2>3. op' \in [Tasks -> Op] /\ \A u \in Tasks : op'[u].pc # "idle" => op'[u].key \in Keys
    <3>1. ASSUME NEW u \in Tasks PROVE op'[u] \in Op /\ (op'[u].pc # "idle" => op'[u].key \in Keys)
      <4>1. Idle.pc = "idle"
        BY DEF Idle
      <4> QED BY <1>0, <1>3, <4>1, IdleOp DEF TypeOK
    <3> QED BY <1>1, <3>1
  <2>4. /\ held' \in [Procs -> SUBSET Keys] /\ epochs' \in [Procs -> [Keys -> Nat]]
        /\ defaultEpoch' \in [Procs -> Nat] /\ failures' \in [Procs -> SUBSET Keys]
        /\ poisoned' \in [Procs -> BOOLEAN] /\ recovered' \in [Procs -> SUBSET Keys]
        /\ known' \in [Procs -> [Keys -> Nat]]
    BY <1>0 DEF Restart, TypeOK
  <2> QED BY <1>0, <1>1, <2>1, <2>2, <2>3, <2>4 DEF TypeOK
<1>9. EpochsHold
  <2> SUFFICES ASSUME NEW u \in Tasks, op'[u] = op[u], ~At(u, "idle")
               PROVE  cacheEpoch(Home[u], op[u].key)' >= cacheEpoch(Home[u], op[u].key)
    BY DEF EpochsHold
  <2>1. Home[u] # p /\ Home[u] \in Procs /\ op[u].key \in Keys
    BY <1>0, <1>4 DEF TypeOK, At
  <2>2. held'[Home[u]] = held[Home[u]] /\ epochs'[Home[u]] = epochs[Home[u]]
        /\ defaultEpoch'[Home[u]] = defaultEpoch[Home[u]]
    BY <1>0, <2>1 DEF Restart, TypeOK
  <2>3. cacheEpoch(Home[u], op[u].key)' = cacheEpoch(Home[u], op[u].key)
    BY <2>2 DEF cacheEpoch
  <2>4. cacheEpoch(Home[u], op[u].key) \in Nat
    BY <1>0, <2>1 DEF cacheEpoch, TypeOK
  <2> QED BY <2>3, <2>4
<1>10. ASSUME NEW u \in Tasks PROVE op'[u] = op[u] \/ NewOp(u)
  <2>1. CASE op'[u] = Idle
    BY <1>0, <1>1, <2>1, EndNew DEF TypeOK
  <2> QED BY <1>3, <2>1
<1> QED BY <1>5, <1>6, <1>7, <1>8, <1>9, <1>10, CalmStep

----------------------------------------------------------------------------
(* Theorems.                                                               *)

\* The empty cache satisfies the invariant.
LEMMA InitInv == Init => CacheInv
<1> SUFFICES ASSUME Init PROVE CacheInv
  OBVIOUS
<1> USE EntityCacheAssumption
<1>1. op = [t \in Tasks |-> Idle] /\ Idle.pc = "idle" /\ Idle.tok = 0 /\ late = {} /\ fresh = 1
  BY DEF Init, Idle
<1>2. TypeOK
  <2>1. op \in [Tasks -> Op]
    BY <1>1, IdleOp
  <2> QED BY <1>1, <2>1 DEF Init, TypeOK, Value
<1>3. InvRegistry
  BY <1>1 DEF Init, InvRegistry, At
<1>4. InvWrites
  <2>1. \A k \in Keys, n \in Nat : HoldsFrom(k, n)
    BY <1>1 DEF Init, HoldsFrom, FillsFrom, MayPut
  <2> QED BY <1>1, <2>1 DEF Init, InvWrites, At
<1>5. InvLoads
  BY <1>1 DEF InvLoads, At, Resolved
<1> QED BY <1>2, <1>3, <1>4, <1>5 DEF CacheInv

\* Every step keeps the invariant.
LEMMA NextInv ==
    ASSUME CacheInv, [Next]_vars, Distributed \/ Sync
    PROVE  CacheInv'
<1>1. ASSUME NEW t \in Tasks, Operation(t) PROVE CacheInv'
  <2>1. ASSUME NEW k \in Keys, StartWrite(t, k) \/ StartInvalidate(t, k) \/ StartLoad(t, k) PROVE CacheInv'
    BY <2>1, StartWriteStep, StartInvalidateStep, StartLoadStep
  <2>2. CASE StoreWrite(t) \/ StoreConflict(t) \/ StoreThrows(t)
    BY <2>2, StoreWriteStep, StoreConflictStep, StoreThrowsStep
  <2>3. CASE Invalidate(t) \/ Delete(t) \/ DeleteReturns(t) \/ DeleteThrows(t)
    BY <2>3, InvalidateStep, DeleteStep, DeleteReturnsStep, DeleteThrowsStep
  <2>4. CASE CacheGet(t) \/ UseHit(t) \/ RecoverVersion(t) \/ RecoverThrows(t) \/ StoreRead(t)
    BY <2>4, CacheGetStep, UseHitStep, RecoverVersionStep, RecoverThrowsStep, StoreReadStep
  <2>5. CASE LoadThrows(t) \/ Fill(t) \/ CacheSet(t) \/ SetLands(t) \/ SetReturns(t) \/ SetThrows(t)
    BY <2>5, LoadThrowsStep, FillStep, CacheSetStep, SetLandsStep, SetReturnsStep, SetThrowsStep
  <2>6. CASE AfterCacheSet(t) \/ UndoReturns(t) \/ PoisonReturns(t) \/ CleanupThrows(t) \/ LoadReturns(t)
    BY <2>6, AfterCacheSetStep, UndoReturnsStep, PoisonReturnsStep, CleanupThrowsStep, LoadReturnsStep
  <2> QED BY <1>1, <2>1, <2>2, <2>3, <2>4, <2>5, <2>6 DEF Operation
<1>2. ASSUME NEW k \in Keys, Expire(k) PROVE CacheInv'
  BY <1>2, ExpireStep
<1>3. ASSUME NEW m \in late, LateSet(m) PROVE CacheInv'
  BY <1>3, LateSetStep
<1>4. ASSUME NEW p \in Procs, Restart(p) PROVE CacheInv'
  BY <1>4, RestartStep
<1>5. CASE UNCHANGED vars
  BY <1>5 DEF vars, cacheVars, epochVars, failureVars, historyVars, CacheInv, TypeOK, InvRegistry,
              InvWrites, InvLoads, HoldsFrom, FillsFrom, MayPut, cacheEpochUnchanged, cacheEpoch, Resolved, At
<1> QED BY <1>1, <1>2, <1>3, <1>4, <1>5 DEF Next

\* With a versioned cache, or with the memory adapter in one process, nothing
\* that the cache holds of a key, or may still be given, is older than the
\* acknowledged writes of the key: for any number of processes, operations,
\* keys, failures, restarts and registry limits.
THEOREM CacheInvariance == (Distributed \/ Sync) => (Spec => []CacheInv)
<1> SUFFICES ASSUME Distributed \/ Sync PROVE Spec => []CacheInv
  OBVIOUS
<1>1. Init => CacheInv
  BY InitInv
<1>2. CacheInv /\ [Next]_vars => CacheInv'
  BY NextInv
<1> QED BY <1>1, <1>2, PTL DEF Spec

\* A load that begins after a write was acknowledged never resolves with an
\* older row (loadManyNow against save, delete and performInvalidate).
THEOREM NoStaleReads == (Distributed \/ Sync) => (Spec => []NoStaleRead)
<1> SUFFICES ASSUME Distributed \/ Sync PROVE Spec => []NoStaleRead
  OBVIOUS
<1>1. Spec => []CacheInv
  BY CacheInvariance
<1>2. CacheInv => NoStaleRead
  BY DEF CacheInv, InvLoads, NoStaleRead
<1> QED BY <1>1, <1>2, PTL

\* Inside one process a hit that is used is not older than any write that was
\* acknowledged before the load resumed (the epoch comparison of loadManyNow).
THEOREM NoOvertakenHits == Sync => (Spec => NoOvertakenHit)
<1> SUFFICES ASSUME Sync PROVE Spec => NoOvertakenHit
  OBVIOUS
<1>1. Spec => []CacheInv
  BY CacheInvariance
<1>2. CacheInv /\ [Next]_vars => [UsesFreshHits]_vars
  <2> SUFFICES ASSUME CacheInv, Next, NEW t \in Tasks, At(t, "got"), op'[t].pc = "return"
               PROVE  op[t].val >= acked[op[t].key]
    BY DEF UsesFreshHits
  <2>1. TypeOK
    BY DEF CacheInv
  <2>2. op \in [Tasks -> Op]
    BY <2>1 DEF TypeOK
  <2>3. UseHit(t)
    <3>1. ASSUME NEW u \in Tasks, u # t, Operation(u) PROVE op'[t] = op[t]
      <4>1. CASE \E k \in Keys : StartWrite(u, k) \/ StartInvalidate(u, k) \/ StartLoad(u, k)
        BY <2>2, <3>1, <4>1 DEF StartWrite, StartInvalidate, StartLoad
      <4>2. CASE StoreWrite(u) \/ StoreConflict(u) \/ StoreThrows(u)
        BY <2>2, <3>1, <4>2 DEF StoreWrite, StoreConflict, StoreThrows, Goto, End
      <4>3. CASE Invalidate(u) \/ Delete(u) \/ DeleteReturns(u) \/ DeleteThrows(u)
        BY <2>2, <3>1, <4>3 DEF Invalidate, Delete, DeleteReturns, DeleteThrows, Goto, End
      <4>4. CASE CacheGet(u) \/ UseHit(u) \/ RecoverVersion(u) \/ RecoverThrows(u) \/ StoreRead(u)
        BY <2>2, <3>1, <4>4 DEF CacheGet, UseHit, RecoverVersion, RecoverThrows, StoreRead, Goto, End
      <4>5. CASE LoadThrows(u) \/ Fill(u) \/ CacheSet(u) \/ SetLands(u) \/ SetReturns(u) \/ SetThrows(u)
        BY <2>2, <3>1, <4>5 DEF LoadThrows, Fill, CacheSet, SetLands, SetReturns, SetThrows, Goto, End
      <4>6. CASE AfterCacheSet(u) \/ UndoReturns(u) \/ PoisonReturns(u) \/ CleanupThrows(u) \/ LoadReturns(u)
        BY <2>2, <3>1, <4>6 DEF AfterCacheSet, UndoReturns, PoisonReturns, CleanupThrows, LoadReturns, Goto, End
      <4> QED BY <3>1, <4>1, <4>2, <4>3, <4>4, <4>5, <4>6 DEF Operation
    <3>2. ~LoadThrows(t)
      <4>1. LoadThrows(t) => op'[t] = Idle
        BY <2>1, EndOp DEF LoadThrows
      <4> QED BY <4>1 DEF Idle
    <3>3. Operation(t) => UseHit(t)
      BY <3>2 DEF Operation, At, StartWrite, StartInvalidate, StartLoad, StoreWrite, StoreConflict, StoreThrows,
                  Invalidate, Delete, DeleteReturns, DeleteThrows, CacheGet, RecoverVersion, RecoverThrows,
                  StoreRead, Fill, CacheSet, SetLands, SetReturns, SetThrows, AfterCacheSet, UndoReturns, PoisonReturns,
                  CleanupThrows, LoadReturns
    <3>4. op'[t] # op[t]
      BY DEF At
    <3>5. ASSUME NEW k \in Keys PROVE ~Expire(k)
      BY <3>4 DEF Expire
    <3>6. ASSUME NEW m \in late PROVE ~LateSet(m)
      BY <3>4 DEF LateSet
    <3>7. ASSUME NEW p \in Procs PROVE ~Restart(p)
      BY EntityCacheAssumption DEF Restart
    <3> QED BY <3>1, <3>3, <3>4, <3>5, <3>6, <3>7 DEF Next
  <2>4. Goto(t, "read") => op'[t].pc = "read"
    BY <2>1, GotoOp DEF Pcs
  <2>5. op[t].val # Miss /\ cacheEpochUnchanged(t)
    BY <2>3, <2>4 DEF UseHit
  <2> QED BY <2>5 DEF CacheInv, InvLoads
<1> QED BY <1>1, <1>2, PTL DEF Spec, NoOvertakenHit

----------------------------------------------------------------------------
(* Until the first call fails: what is outdated in the cache is about to be *)
(* removed.                                                                 *)

\* Task u is going to delete key k from the cache.
Removes(u, k) ==
    /\ op[u].key = k
    /\ \/ op[u].pc \in {"written", "drop", "undo"}
       \/ op[u].pc = "stored" /\ ~cacheEpochUnchanged(u)

\* Task u is going to withdraw the permits to fill key k.
Fences(u, k) ==
    /\ op[u].key = k
    /\ op[u].pc = "written" \/ (op[u].pc = "drop" /\ Distributed)

Covered == \A k \in Keys : cache[k] \in {Miss, store[k]} \/ \E u \in Tasks : Removes(u, k)

Permitted ==
    \A t \in Tasks : op[t].pc \in Filling =>
        /\ op[t].val \in Nat
        /\ MayPut(t) => op[t].val = store[op[t].key] \/ \E u \in Tasks : Fences(u, op[t].key)

CalmInv == TypeOK /\ InvRegistry /\ late = {} /\ Covered /\ Permitted

\* The operation that task u has after a step without a fault.
CalmOp(u) ==
    LET o == op'[u] IN
    /\ o.pc # "idle" => o.epoch <= cacheEpoch(Home[u], op[u].key)'
    /\ o.tok < fresh'
    /\ Sync => o.pc # "setting"
    /\ \A k \in Keys : Removes(u, k) => Removes(u, k)' \/ cache'[k] = Miss
    /\ \A k \in Keys : Fences(u, k) => Fences(u, k)' \/ NoPermit(k)
    /\ o.pc \in Filling => o.val \in Nat
    /\ o.pc \in Filling /\ MayPut(u)' => \/ MayPut(u) /\ o.key = op[u].key /\ o.val = op[u].val
                                         \/ o.val = store'[o.key]

\* A row is replaced by a write that is going to invalidate it.
StoreMoves ==
    \A k \in Keys : store'[k] = store[k] \/ \E u \in Tasks : op'[u].key = k /\ op'[u].pc = "written"

\* The cache is given current rows, or rows that are about to be deleted.
CacheMoves ==
    \A k \in Keys : cache'[k] = cache[k] \/ cache'[k] \in {Miss, store'[k]} \/ \E u \in Tasks : Removes(u, k)'

\* Who is going to delete a key stays so while its operation is not changed.
LEMMA RemovesStay ==
    ASSUME TypeOK, TypeOK', InvRegistry, EpochsGrow, NEW u \in Tasks, NEW k \in Keys,
           op'[u] = op[u], Removes(u, k)
    PROVE  Removes(u, k)'
<1> USE EntityCacheAssumption
<1>1. CASE op[u].pc \in {"written", "drop", "undo"}
  BY <1>1 DEF Removes
<1>2. CASE op[u].pc = "stored" /\ ~cacheEpochUnchanged(u)
  <2>1. Home[u] \in Procs /\ op[u].key = k /\ op[u] \in Op /\ op[u].epoch \in Nat
    BY DEF Removes, TypeOK, Op
  <2>2. op[u].epoch <= cacheEpoch(Home[u], op[u].key) /\ op[u].epoch # cacheEpoch(Home[u], op[u].key)
    BY <1>2 DEF InvRegistry, At, cacheEpochUnchanged
  <2>3. cacheEpoch(Home[u], k) \in Nat
    BY <2>1 DEF TypeOK, cacheEpoch
  <2>4. cacheEpoch(Home[u], k)' >= cacheEpoch(Home[u], k)
    BY <2>1 DEF EpochsGrow
  <2>5. cacheEpoch(Home[u], k)' = cacheEpoch(Home[u], op[u].key)'
    BY <2>1 DEF cacheEpoch
  <2>6. cacheEpoch(Home[u], k)' # op[u].epoch
    <3>1. cacheEpoch(Home[u], k)' \in Nat
      BY <2>1 DEF TypeOK, cacheEpoch
    <3>2. cacheEpoch(Home[u], op[u].key) = cacheEpoch(Home[u], k)
      BY <2>1 DEF cacheEpoch
    <3> QED BY <2>1, <2>2, <2>3, <2>4, <3>1, <3>2
  <2> QED BY <1>2, <2>1, <2>5, <2>6 DEF Removes, cacheEpochUnchanged
<1> QED BY <1>1, <1>2 DEF Removes

\* A step keeps the invariant if store, cache, versions and epochs move as
\* they may and changed operations are sound.
LEMMA QuietStep ==
    ASSUME CalmInv, TypeOK', late' = {}, EpochsGrow, TagsMove, StoreMoves, CacheMoves,
           \A u \in Tasks : op'[u] = op[u] \/ CalmOp(u)
    PROVE  CalmInv'
<1> USE EntityCacheAssumption
<1>0. TypeOK /\ InvRegistry /\ late = {} /\ Covered /\ Permitted
  BY DEF CalmInv
<1>1. ASSUME NEW u \in Tasks
      PROVE  /\ Home[u] \in Procs /\ op[u] \in Op /\ op'[u] \in Op
             /\ op[u].pc # "idle" => op[u].key \in Keys
             /\ op'[u].pc # "idle" => op'[u].key \in Keys
             /\ op[u].epoch \in Nat /\ op'[u].epoch \in Nat
             /\ op[u].tok \in Nat /\ op'[u].tok \in Nat
  BY <1>0 DEF TypeOK, Op
<1>2. InvRegistry'
  <2>1. ASSUME NEW u \in Tasks, ~At(u, "idle")' PROVE op'[u].epoch <= cacheEpoch(Home[u], op[u].key)'
    <3>1. CASE CalmOp(u)
      BY <2>1, <3>1 DEF CalmOp, At
    <3>2. CASE op'[u] = op[u]
      <4>1. ~At(u, "idle") /\ op[u].key \in Keys
        BY <1>1, <2>1, <3>2 DEF At
      <4>2. op[u].epoch <= cacheEpoch(Home[u], op[u].key)
        BY <1>0, <4>1 DEF InvRegistry
      <4>3. cacheEpoch(Home[u], op[u].key)' >= cacheEpoch(Home[u], op[u].key)
        BY <1>0, <3>2, <4>1, GrowHold DEF EpochsHold
      <4>4. cacheEpoch(Home[u], op[u].key) \in Nat /\ cacheEpoch(Home[u], op[u].key)' \in Nat
        BY <1>0, <1>1, <3>2, <4>1 DEF TypeOK, cacheEpoch
      <4> QED BY <1>1, <3>2, <4>2, <4>3, <4>4
    <3> QED BY <3>1, <3>2
  <2>2. ASSUME NEW u \in Tasks PROVE op'[u].tok < fresh'
    <3>1. CASE CalmOp(u)
      BY <3>1 DEF CalmOp
    <3>2. CASE op'[u] = op[u]
      BY <1>0, <1>1, <3>2 DEF InvRegistry, TagsMove, TypeOK
    <3> QED BY <3>1, <3>2
  <2>3. ASSUME Sync, NEW u \in Tasks PROVE op'[u].pc # "setting"
    BY <1>0, <2>3 DEF InvRegistry, At, CalmOp
  <2> QED BY <2>1, <2>2, <2>3 DEF InvRegistry, TagsMove, At
<1>3. Covered'
  <2> SUFFICES ASSUME NEW k \in Keys
               PROVE  cache'[k] \in {Miss, store'[k]} \/ \E u \in Tasks : Removes(u, k)'
    BY DEF Covered, Miss
  <2>1. ASSUME cache'[k] = cache[k], cache[k] = store[k], cache'[k] # store'[k]
        PROVE  \E u \in Tasks : Removes(u, k)'
    <3>1. PICK u \in Tasks : op'[u].key = k /\ op'[u].pc = "written"
      BY <2>1 DEF StoreMoves
    <3> QED BY <3>1 DEF Removes
  <2>2. ASSUME NEW u \in Tasks, Removes(u, k), cache'[k] # Miss PROVE Removes(u, k)'
    <3>1. CASE op'[u] = op[u]
      BY <1>0, <2>2, <3>1, RemovesStay
    <3>2. CASE CalmOp(u)
      BY <2>2, <3>2 DEF CalmOp
    <3> QED BY <3>1, <3>2
  <2> QED BY <1>0, <2>1, <2>2 DEF Covered, CacheMoves
<1>4. Permitted'
  <2> SUFFICES ASSUME NEW t \in Tasks, op'[t].pc \in Filling
               PROVE  /\ op'[t].val \in Nat
                      /\ MayPut(t)' => \/ op'[t].val = store'[op'[t].key]
                                       \/ \E u \in Tasks : Fences(u, op[t].key)'
    BY DEF Permitted
  <2>0. op'[t].key \in Keys
    BY <1>1 DEF Filling
  <2>1. op'[t].val \in Nat
    BY <1>0 DEF Permitted, CalmOp
  <2>2. ASSUME MayPut(t)', op'[t].val # store'[op'[t].key] PROVE \E u \in Tasks : Fences(u, op[t].key)'
    <3>1. MayPut(t) /\ op'[t].key = op[t].key /\ op'[t].val = op[t].val
      <4>1. CASE op'[t] = op[t]
        <5>1. op[t].pc \in {"fill", "set", "setting"}
          BY <4>1 DEF Filling
        <5>2. cacheEpoch(Home[t], op[t].key)' >= cacheEpoch(Home[t], op[t].key)
          BY <1>0, <4>1, <5>1, GrowHold DEF EpochsHold, At
        <5> QED BY <1>0, <1>1, <2>0, <2>2, <4>1, <5>1, <5>2, PermitKept
      <4>2. CASE CalmOp(t)
        BY <2>2, <4>2 DEF CalmOp
      <4> QED BY <4>1, <4>2
    <3>2. PICK k \in Keys : k = op[t].key /\ k = op'[t].key
      BY <2>0, <3>1
    <3>3. \/ op[t].val = store[k]
          \/ \E u \in Tasks : Fences(u, k)
      BY <1>0, <3>1, <3>2 DEF Permitted, MayPut, Filling
    <3>4. ASSUME op[t].val = store[k] PROVE \E u \in Tasks : Fences(u, k)'
      <4>1. PICK u \in Tasks : op'[u].key = k /\ op'[u].pc = "written"
        BY <2>2, <3>1, <3>2, <3>4 DEF StoreMoves
      <4> QED BY <4>1 DEF Fences
    <3>5. ASSUME NEW u \in Tasks, Fences(u, k) PROVE Fences(u, k)'
      <4>1. CASE op'[u] = op[u]
        BY <3>5, <4>1 DEF Fences
      <4>2. CASE CalmOp(u)
        BY <2>2, <3>2, <3>5, <4>2 DEF CalmOp, NoPermit
      <4> QED BY <4>1, <4>2
    <3>6. \E u \in Tasks : Fences(u, k)'
      BY <3>3, <3>4, <3>5
    <3> QED BY <3>2, <3>6 DEF Fences
  <2> QED BY <2>1, <2>2
<1> QED BY <1>2, <1>3, <1>4 DEF CalmInv

\* The registry of epochs after a step that only moves an operation on.
LEMMA CalmGoto ==
    ASSUME CalmInv, NEW t \in Tasks, NEW q \in Pcs \ {"idle"}, Goto(t, q), EpochsStay, Normal,
           UNCHANGED <<store, cacheVars, historyVars>>, FailureType \/ UNCHANGED failureVars,
           op[t].pc \notin {"idle", "written", "drop", "undo"},
           Sync => q # "setting",
           q \in Filling => op[t].pc \in Filling,
           op[t].pc = "stored" /\ ~cacheEpochUnchanged(t) => q = "undo"
    PROVE  CalmInv'
<1>0. TypeOK /\ InvRegistry /\ late = {} /\ Permitted
  BY DEF CalmInv
<1>1. OnlyOp(t) /\ KeepsOp(t) /\ op'[t].pc = q
  BY <1>0, GotoOp
<1>2. UNCHANGED <<store, cache, tag, fresh, late, acked, known>>
  BY DEF cacheVars, historyVars
<1>3. EpochType /\ EpochsGrow /\ cacheEpoch(Home[t], op[t].key)' = cacheEpoch(Home[t], op'[t].key)
  BY <1>0, StayGrow DEF EpochsStay, cacheEpoch
<1>4. op[t].key \in Keys /\ op'[t].key = op[t].key
  BY <1>0, <1>1 DEF TypeOK, KeepsOp
<1>5. TypeOK'
  <2>1. calls' \in Nat /\ faults' \in Nat
    BY <1>0, CountersType
  <2> QED BY <1>0, <1>1, <1>2, <1>3, <1>4, <2>1, TypeStep DEF TypeOK
<1>6. TagsMove /\ StoreMoves /\ CacheMoves
  BY <1>0, <1>2 DEF TagsMove, StoreMoves, CacheMoves, InvRegistry, TypeOK
<1>7. cacheEpochUnchanged(t)' = cacheEpochUnchanged(t)
  BY <1>1, <1>3 DEF cacheEpochUnchanged, KeepsOp
<1>8. CalmOp(t)
  <2>1. op'[t].epoch <= cacheEpoch(Home[t], op[t].key)' /\ op'[t].tok < fresh'
    BY <1>0, <1>1, <1>2, <1>3, <1>4 DEF InvRegistry, At, KeepsOp
  <2>2. ASSUME NEW k \in Keys, Removes(t, k) PROVE Removes(t, k)'
    BY <1>1, <2>2 DEF Removes, KeepsOp
  <2>3. ASSUME NEW k \in Keys PROVE ~Fences(t, k)
    BY DEF Fences
  <2>4. q \in Filling => op'[t].val \in Nat
    BY <1>0, <1>1 DEF Permitted, KeepsOp
  <2>5. ASSUME q \in Filling, MayPut(t)' PROVE MayPut(t) /\ op'[t].key = op[t].key /\ op'[t].val = op[t].val
    BY <1>1, <1>2, <1>7, <2>5 DEF MayPut, KeepsOp, Filling
  <2> QED BY <1>1, <2>1, <2>2, <2>3, <2>4, <2>5 DEF CalmOp
<1> QED BY <1>0, <1>1, <1>2, <1>3, <1>5, <1>6, <1>8, QuietStep DEF OnlyOp

\* The steps that only move an operation on.
LEMMA MovesOn ==
    ASSUME CalmInv, NEW t \in Tasks,
           \/ StoreConflict(t) \/ UseHit(t) \/ RecoverThrows(t) \/ Fill(t)
           \/ AfterCacheSet(t) \/ UndoReturns(t) \/ SetReturns(t)
    PROVE  CalmInv'
<1>0. TypeOK /\ Home[t] \in Procs
  BY EntityCacheAssumption DEF CalmInv
<1>1. CASE StoreConflict(t)
  BY <1>1, CalmGoto DEF StoreConflict, At, EpochsStay, epochVars, Pcs, Filling
<1>2. CASE UseHit(t)
  <2>1. PICK q \in {"return", "read"} : Goto(t, q)
    BY <1>2 DEF UseHit
  <2> QED BY <1>2, <2>1, CalmGoto DEF UseHit, At, EpochsStay, epochVars, Pcs, Filling
<1>3. CASE RecoverThrows(t)
  BY <1>3, CalmGoto DEF RecoverThrows, At, EpochsStay, epochVars, Pcs, Filling
<1>4. CASE Fill(t)
  <2>1. PICK q \in {"set", "return"} : Goto(t, q)
    BY <1>4 DEF Fill
  <2> QED BY <1>4, <2>1, CalmGoto DEF Fill, At, EpochsStay, epochVars, Pcs, Filling
<1>5. CASE AfterCacheSet(t)
  BY <1>5, CalmGoto DEF AfterCacheSet, At, EpochsStay, epochVars, Pcs, Filling
<1>6. CASE UndoReturns(t)
  BY <1>6, CalmGoto DEF UndoReturns, At, EpochsStay, epochVars, Pcs, Filling
<1>7. CASE SetReturns(t)
  <2>1. PICK q \in {"return", "hook", "undo"} :
            Goto(t, q) /\ (At(t, "stored") /\ ~cacheEpochUnchanged(t) => q = "undo")
    <3>1. CASE At(t, "refused")
      BY <1>7, <3>1 DEF SetReturns, At
    <3>2. CASE ~At(t, "refused") /\ cacheEpochUnchanged(t)
      BY <1>7, <3>2 DEF SetReturns, At
    <3>3. CASE ~At(t, "refused") /\ ~cacheEpochUnchanged(t)
      BY <1>7, <3>3 DEF SetReturns, At
    <3> QED BY <3>1, <3>2, <3>3
  <2>2. op[t].pc \in {"stored", "refused"} /\ op[t].key \in Keys
    BY <1>0, <1>7 DEF SetReturns, TypeOK
  <2>3. FailureType \/ UNCHANGED failureVars
    <3>1. clearCacheInvalidationFailure(Home[t], op[t].key) \/ UNCHANGED failureVars
      BY <1>7 DEF SetReturns
    <3> QED BY <1>0, <2>2, <3>1, ClearType
  <2>4. EpochsStay /\ Normal /\ UNCHANGED <<store, cacheVars, historyVars>>
    BY <1>7 DEF SetReturns, EpochsStay, epochVars
  <2> QED BY <2>1, <2>2, <2>3, <2>4, CalmGoto DEF At, Pcs, Filling
<1> QED BY <1>1, <1>2, <1>3, <1>4, <1>5, <1>6, <1>7

\* The end of a load that is not going to delete anything.
LEMMA LoadEnds ==
    ASSUME CalmInv, NEW t \in Tasks, LoadReturns(t) \/ PoisonReturns(t)
    PROVE  CalmInv'
<1>0. TypeOK /\ InvRegistry /\ late = {} /\ Home[t] \in Procs
  BY EntityCacheAssumption DEF CalmInv
<1>1. OnlyOp(t) /\ op'[t] = Idle
  BY <1>0, EndOp DEF LoadReturns, PoisonReturns
<1>2. UNCHANGED <<store, cache, tag, fresh, late, acked, known>> /\ EpochsStay
  BY DEF LoadReturns, PoisonReturns, cacheVars, historyVars, EpochsStay, epochVars
<1>3. EpochType /\ EpochsGrow
  BY <1>0, <1>2, StayGrow
<1>4. op[t].pc \in {"return", "poisoned"} /\ op[t].key \in Keys
  BY <1>0 DEF LoadReturns, PoisonReturns, At, TypeOK
<1>5. FailureType \/ UNCHANGED failureVars
  BY <1>0, <1>4, ClearType DEF LoadReturns, PoisonReturns
<1>6. Idle.pc = "idle" /\ Idle.tok = 0
  BY DEF Idle
<1>7. TypeOK'
  <2>1. calls' \in Nat /\ faults' \in Nat
    BY <1>0, CountersType DEF LoadReturns, PoisonReturns
  <2> QED BY <1>0, <1>1, <1>2, <1>3, <1>5, <1>6, <2>1, TypeStep DEF TypeOK
<1>8. TagsMove /\ StoreMoves /\ CacheMoves
  BY <1>0, <1>2 DEF TagsMove, StoreMoves, CacheMoves, InvRegistry, TypeOK
<1>9. CalmOp(t)
  BY <1>0, <1>1, <1>2, <1>4, <1>6 DEF CalmOp, Removes, Fences, Filling, TypeOK
<1> QED BY <1>0, <1>1, <1>2, <1>3, <1>7, <1>8, <1>9, QuietStep DEF OnlyOp

\* An operation begins: it holds no row and no permit yet.
LEMMA Begins ==
    ASSUME CalmInv, NEW t \in Tasks, NEW k \in Keys,
           StartWrite(t, k) \/ StartLoad(t, k) \/ StartInvalidate(t, k)
    PROVE  CalmInv'
<1>0. TypeOK /\ InvRegistry /\ late = {} /\ Home[t] \in Procs
  BY EntityCacheAssumption DEF CalmInv
<1>1. /\ OnlyOp(t) /\ op'[t].key = k /\ op'[t].tok = 0
      /\ op'[t].pc \in {"write", "drop", "get", "recover", "read"}
      /\ op'[t].epoch = 0 \/ (StartLoad(t, k) /\ op'[t].epoch = cacheEpoch(Home[t], k))
  BY <1>0, StartWriteOp, StartLoadOp, StartInvalidateOp
<1>2. UNCHANGED <<store, cache, tag, fresh, late, acked, known>> /\ UNCHANGED failureVars
      /\ (Normal \/ Call) /\ op[t].pc = "idle"
  BY DEF StartWrite, StartLoad, StartInvalidate, cacheVars, historyVars, At
<1>3. EpochsStay \/ bumpCacheEpoch(Home[t], k)
  BY DEF StartWrite, StartLoad, StartInvalidate, EpochsStay, epochVars
<1>4. EpochType /\ EpochsGrow
  BY <1>0, <1>3, StayGrow, EpochGrows
<1>5. TypeOK'
  <2>1. calls' \in Nat /\ faults' \in Nat
    BY <1>0, <1>2, CountersType
  <2> QED BY <1>0, <1>1, <1>2, <1>4, <2>1, TypeStep DEF TypeOK
<1>6. TagsMove /\ StoreMoves /\ CacheMoves
  BY <1>0, <1>2 DEF TagsMove, StoreMoves, CacheMoves, InvRegistry, TypeOK
<1>7. CalmOp(t)
  <2>1. op'[t].epoch <= cacheEpoch(Home[t], op[t].key)'
    <3>1. cacheEpoch(Home[t], op[t].key)' = cacheEpoch(Home[t], k)'
      BY <1>1 DEF cacheEpoch
    <3>2. cacheEpoch(Home[t], k)' \in Nat /\ cacheEpoch(Home[t], k)' >= cacheEpoch(Home[t], k)
      BY <1>0, <1>4, <1>5 DEF TypeOK, cacheEpoch, EpochsGrow
    <3>3. cacheEpoch(Home[t], k) \in Nat
      BY <1>0 DEF TypeOK, cacheEpoch
    <3> QED BY <1>1, <3>1, <3>2, <3>3
  <2>2. op'[t].tok < fresh'
    BY <1>0, <1>1, <1>2 DEF TypeOK
  <2> QED BY <1>1, <1>2, <2>1, <2>2 DEF CalmOp, Removes, Fences, Filling
<1> QED BY <1>0, <1>1, <1>2, <1>4, <1>5, <1>6, <1>7, QuietStep DEF OnlyOp

\* The store answers a write or a load.
LEMMA StoreAnswers ==
    ASSUME CalmInv, NEW t \in Tasks, StoreWrite(t) \/ StoreRead(t)
    PROVE  CalmInv'
<1>0. TypeOK /\ InvRegistry /\ late = {} /\ Home[t] \in Procs
  BY EntityCacheAssumption DEF CalmInv
<1>1. /\ OnlyOp(t) /\ op[t].key \in Keys /\ op'[t].key = op[t].key
      /\ op'[t].epoch = op[t].epoch /\ op'[t].tok = op[t].tok
      /\ op[t].pc \in {"write", "read"}
      /\ \/ op'[t].pc = "written" /\ store' = [store EXCEPT ![op[t].key] = @ + 1]
         \/ op'[t].pc = "fill" /\ op'[t].val = store[op[t].key] /\ store' = store
  <2>1. CASE StoreWrite(t)
    <3>1. store' = [store EXCEPT ![op[t].key] = @ + 1]
      BY <2>1 DEF StoreWrite
    <3> QED BY <1>0, <2>1, <3>1, StoreWriteOp
  <2>2. CASE StoreRead(t)
    <3>1. store' = store
      BY <2>2 DEF StoreRead
    <3> QED BY <1>0, <2>2, <3>1, StoreReadOp
  <2> QED BY <2>1, <2>2
<1>2. UNCHANGED <<cache, tag, fresh, late, acked, known>> /\ UNCHANGED failureVars
      /\ Normal /\ EpochsStay
  BY DEF StoreWrite, StoreRead, cacheVars, historyVars, EpochsStay, epochVars
<1>3. EpochType /\ EpochsGrow
  BY <1>0, <1>2, StayGrow
<1>4. store \in [Keys -> Nat] /\ store' \in [Keys -> Nat]
      /\ \A k \in Keys : k # op[t].key => store'[k] = store[k]
  BY <1>0, <1>1 DEF TypeOK
<1>5. TypeOK'
  <2>1. calls' \in Nat /\ faults' \in Nat
    BY <1>0, <1>2, CountersType
  <2> QED BY <1>0, <1>1, <1>2, <1>3, <1>4, <2>1, TypeStep DEF TypeOK
<1>6. TagsMove /\ StoreMoves /\ CacheMoves
  <2>1. StoreMoves
    BY <1>1, <1>4 DEF StoreMoves
  <2> QED BY <1>0, <1>2, <2>1 DEF TagsMove, CacheMoves, InvRegistry, TypeOK
<1>7. CalmOp(t)
  <2>1. op'[t].epoch <= cacheEpoch(Home[t], op[t].key)'
    <3>1. op[t].epoch <= cacheEpoch(Home[t], op[t].key)
      BY <1>0, <1>1 DEF InvRegistry, At
    <3>2. cacheEpoch(Home[t], op[t].key)' = cacheEpoch(Home[t], op[t].key)
      BY <1>1, <1>2 DEF cacheEpoch, EpochsStay
    <3> QED BY <1>1, <3>1, <3>2
  <2>2. op'[t].tok < fresh'
    BY <1>0, <1>1, <1>2 DEF InvRegistry
  <2>3. op'[t].pc \in Filling => op'[t].val \in Nat /\ op'[t].val = store'[op'[t].key]
    BY <1>1, <1>4 DEF Filling
  <2> QED BY <1>1, <1>2, <2>1, <2>2, <2>3 DEF CalmOp, Removes, Fences
<1> QED BY <1>0, <1>1, <1>2, <1>3, <1>5, <1>6, <1>7, QuietStep DEF OnlyOp

\* A load learns the version of its key, with the row or alone.
LEMMA VersionRead ==
    ASSUME CalmInv, NEW t \in Tasks, CacheGet(t) \/ RecoverVersion(t)
    PROVE  CalmInv'
<1>0. TypeOK /\ InvRegistry /\ late = {} /\ Home[t] \in Procs
  BY EntityCacheAssumption DEF CalmInv
<1>1. /\ OnlyOp(t) /\ op[t].key \in Keys /\ op'[t].key = op[t].key
      /\ op'[t].epoch = op[t].epoch /\ op'[t].tok \in {0, versionOf(op[t].key)}
      /\ op[t].pc \in {"get", "recover"} /\ op'[t].pc \in {"got", "read"}
      /\ op'[t].tok # 0 => TouchVersion(op[t].key)
      /\ TouchVersion(op[t].key) \/ UNCHANGED <<tag, fresh>>
  <2>1. CASE CacheGet(t)
    BY <1>0, <2>1, CacheGetOp DEF CacheGet
  <2>2. CASE RecoverVersion(t)
    <3>1. TouchVersion(op[t].key)
      BY <2>2 DEF RecoverVersion
    <3> QED BY <1>0, <2>2, <3>1, RecoverVersionOp
  <2> QED BY <2>1, <2>2
<1>2. UNCHANGED <<store, cache, late, acked, known>> /\ UNCHANGED failureVars
      /\ Normal /\ EpochsStay
  BY DEF CacheGet, RecoverVersion, historyVars, EpochsStay, epochVars
<1>3. EpochType /\ EpochsGrow
  BY <1>0, <1>2, StayGrow
<1>4. /\ TagsMove /\ tag' \in [Keys -> Nat] /\ fresh' \in Nat \ {0}
      /\ op'[t].tok < fresh'
  <2>1. CASE TouchVersion(op[t].key)
    BY <1>0, <1>1, <2>1, TouchMoves
  <2>2. CASE UNCHANGED <<tag, fresh>> /\ op'[t].tok = 0
    BY <1>0, <2>2 DEF TagsMove, TypeOK, InvRegistry
  <2> QED BY <1>1, <2>1, <2>2
<1>5. TypeOK'
  <2>1. calls' \in Nat /\ faults' \in Nat
    BY <1>0, <1>2, CountersType
  <2> QED BY <1>0, <1>1, <1>2, <1>3, <1>4, <2>1, TypeStep DEF TypeOK
<1>6. StoreMoves /\ CacheMoves
  BY <1>2 DEF StoreMoves, CacheMoves
<1>7. CalmOp(t)
  <2>1. op[t].epoch <= cacheEpoch(Home[t], op[t].key)
    BY <1>0, <1>1 DEF InvRegistry, At
  <2>2. cacheEpoch(Home[t], op[t].key)' = cacheEpoch(Home[t], op[t].key)
    BY <1>1, <1>2 DEF cacheEpoch, EpochsStay
  <2> QED BY <1>1, <1>4, <2>1, <2>2 DEF CalmOp, Removes, Fences, Filling
<1> QED BY <1>0, <1>1, <1>2, <1>3, <1>4, <1>5, <1>6, <1>7, QuietStep DEF OnlyOp

\* An invalidation goes to the cache, or has come back from it.
LEMMA Bumps ==
    ASSUME CalmInv, NEW t \in Tasks, Invalidate(t) \/ DeleteReturns(t),
           Distributed \/ \A p, q \in Procs : p = q
    PROVE  CalmInv'
<1>0. TypeOK /\ InvRegistry /\ late = {} /\ Home[t] \in Procs
  BY EntityCacheAssumption DEF CalmInv
<1>1. op[t].key \in Keys /\ op[t].pc \in {"written", "dropped"} /\ bumpCacheEpoch(Home[t], op[t].key)
  BY <1>0 DEF Invalidate, DeleteReturns, At, TypeOK
<1>2. /\ OnlyOp(t)
      /\ op[t].pc = "written" => op'[t].pc = "drop" /\ op'[t].key = op[t].key
                                 /\ op'[t].epoch = op[t].epoch /\ op'[t].tok = op[t].tok
      /\ op[t].pc = "dropped" => op'[t].pc = "idle" /\ op'[t].tok = 0
  <2>1. CASE Invalidate(t)
    <3>1. "drop" \in Pcs /\ Goto(t, "drop") /\ op[t].pc = "written"
      BY <2>1 DEF Invalidate, Pcs, At
    <3> QED BY <1>0, <3>1, GotoOp DEF KeepsOp
  <2>2. CASE DeleteReturns(t)
    <3>1. Idle.pc = "idle" /\ Idle.tok = 0 /\ op[t].pc = "dropped"
      BY <2>2 DEF Idle, DeleteReturns, At
    <3> QED BY <1>0, <2>2, <3>1, EndOp DEF DeleteReturns
  <2> QED BY <2>1, <2>2
<1>3. UNCHANGED <<store, cache, tag, fresh, late>> /\ Normal
  BY DEF Invalidate, DeleteReturns, cacheVars
<1>4. EpochType /\ EpochsGrow
  BY <1>0, <1>1, EpochGrows
<1>5. TypeOK'
  <2>1. calls' \in Nat /\ faults' \in Nat
    BY <1>0, <1>3, CountersType
  <2>2. FailureType \/ UNCHANGED failureVars
    BY <1>0, <1>1, ClearType DEF Invalidate, DeleteReturns
  <2>3. acked' \in [Keys -> Nat] /\ known' \in [Procs -> [Keys -> Nat]]
    <3>1. CASE Invalidate(t)
      BY <1>0, <3>1 DEF Invalidate, historyVars, TypeOK
    <3>2. CASE DeleteReturns(t)
      BY <1>0, <1>1, <3>2 DEF DeleteReturns, Ended, Larger, TypeOK, Op
    <3> QED BY <3>1, <3>2
  <2> QED BY <1>0, <1>1, <1>2, <1>3, <1>4, <2>1, <2>2, <2>3, TypeStep DEF TypeOK
<1>6. TagsMove /\ StoreMoves /\ CacheMoves
  BY <1>0, <1>3 DEF TagsMove, StoreMoves, CacheMoves, InvRegistry, TypeOK
<1>7. CalmOp(t)
  <2>1. op'[t].pc # "idle" => op'[t].epoch <= cacheEpoch(Home[t], op[t].key)'
    <3> SUFFICES ASSUME op[t].pc = "written" PROVE op'[t].epoch <= cacheEpoch(Home[t], op[t].key)'
      BY <1>1, <1>2
    <3>1. op[t].epoch <= cacheEpoch(Home[t], op[t].key) /\ op[t].epoch \in Nat
      BY <1>0 DEF InvRegistry, At, TypeOK, Op
    <3>2. cacheEpoch(Home[t], op[t].key)' >= cacheEpoch(Home[t], op[t].key)
      <4>1. PICK k \in Keys : k = op[t].key /\ k = op'[t].key
        BY <1>1, <1>2
      <4>2. cacheEpoch(Home[t], k)' >= cacheEpoch(Home[t], k)
        BY <1>0, <1>4 DEF EpochsGrow
      <4> QED BY <4>1, <4>2 DEF cacheEpoch
    <3>3. cacheEpoch(Home[t], op[t].key) \in Nat /\ cacheEpoch(Home[t], op[t].key)' \in Nat
      BY <1>0, <1>1, <1>2, <1>5 DEF TypeOK, cacheEpoch
    <3> QED BY <1>2, <3>1, <3>2, <3>3
  <2>2. op'[t].tok < fresh'
    BY <1>0, <1>1, <1>2, <1>3 DEF InvRegistry, TypeOK
  <2>3. ASSUME NEW k \in Keys, Removes(t, k) PROVE Removes(t, k)'
    BY <1>1, <1>2, <2>3 DEF Removes
  <2>4. ASSUME NEW k \in Keys, Fences(t, k) PROVE Fences(t, k)' \/ NoPermit(k)
    <3>1. k = op[t].key /\ op[t].pc = "written"
      BY <1>1, <2>4 DEF Fences
    <3>2. CASE Distributed
      BY <1>2, <3>1, <3>2 DEF Fences
    <3>3. CASE ~Distributed
      BY <1>0, <1>1, <1>2, <1>5, <3>1, <3>3, BumpEnds DEF Filling
    <3> QED BY <3>2, <3>3
  <2> QED BY <1>1, <1>2, <2>1, <2>2, <2>3, <2>4 DEF CalmOp, Filling
<1> QED BY <1>0, <1>2, <1>3, <1>4, <1>5, <1>6, <1>7, QuietStep DEF OnlyOp

\* The cache deletes a key, and with versions takes every permit for it.
LEMMA Deletes ==
    ASSUME CalmInv, NEW t \in Tasks, Delete(t)
    PROVE  CalmInv'
<1>0. TypeOK /\ InvRegistry /\ late = {} /\ Home[t] \in Procs
  BY EntityCacheAssumption DEF CalmInv
<1>1. PICK q \in {"dropped", "undone", "poisoned"} : Goto(t, q)
  BY DEF Delete, At
<1>2. op[t].key \in Keys /\ op[t].pc \in {"drop", "undo", "poison"}
  BY <1>0 DEF Delete, TypeOK
<1>3. OnlyOp(t) /\ KeepsOp(t) /\ op'[t].pc = q
  BY <1>0, <1>1, GotoOp DEF Pcs
<1>4. UNCHANGED <<store, late, acked, known>> /\ UNCHANGED failureVars /\ Normal /\ EpochsStay
      /\ Remove(op[t].key)
  BY DEF Delete, historyVars, EpochsStay, epochVars
<1>5. EpochType /\ EpochsGrow
  BY <1>0, <1>4, StayGrow
<1>6. /\ TagsMove
      /\ cache' \in [Keys -> Value] /\ tag' \in [Keys -> Nat] /\ fresh' \in Nat \ {0}
      /\ cache'[op[t].key] = Miss
      /\ Distributed => tag'[op[t].key] = fresh
  BY <1>0, <1>2, <1>4, RemoveMoves
<1>7. TypeOK'
  <2>1. calls' \in Nat /\ faults' \in Nat
    BY <1>0, <1>4, CountersType
  <2> QED BY <1>0, <1>2, <1>3, <1>4, <1>5, <1>6, <2>1, TypeStep DEF TypeOK, KeepsOp
<1>8. StoreMoves /\ CacheMoves
  <2>1. cache' = [cache EXCEPT ![op[t].key] = Miss]
    BY <1>4 DEF Remove
  <2> QED BY <1>0, <1>4, <2>1 DEF StoreMoves, CacheMoves, TypeOK
<1>9. CalmOp(t)
  <2>1. op'[t].epoch <= cacheEpoch(Home[t], op[t].key)'
    <3>1. op[t].epoch <= cacheEpoch(Home[t], op[t].key)
      BY <1>0, <1>2 DEF InvRegistry, At
    <3>2. cacheEpoch(Home[t], op[t].key)' = cacheEpoch(Home[t], op[t].key)
      BY <1>3, <1>4 DEF cacheEpoch, EpochsStay, KeepsOp
    <3> QED BY <1>3, <3>1, <3>2 DEF KeepsOp
  <2>2. op'[t].tok < fresh'
    BY <1>0, <1>3, <1>6 DEF InvRegistry, TagsMove, KeepsOp, TypeOK, Op
  <2>3. ASSUME NEW k \in Keys, Removes(t, k) PROVE cache'[k] = Miss
    BY <1>6, <2>3 DEF Removes
  <2>4. ASSUME NEW k \in Keys, Fences(t, k) PROVE NoPermit(k)
    <3>1. k = op[t].key /\ Distributed
      BY <1>2, <2>4 DEF Fences
    <3> SUFFICES ASSUME NEW u \in Tasks, op'[u].key = k, MayPut(u)' PROVE FALSE
      BY DEF NoPermit
    <3>2. u # t /\ op'[u] = op[u]
      BY <1>3 DEF MayPut, OnlyOp
    <3>3. op[u].tok = fresh
      BY <1>6, <3>1, <3>2 DEF MayPut
    <3> QED BY <1>0, <3>3 DEF InvRegistry, TypeOK
  <2> QED BY <1>3, <2>1, <2>2, <2>3, <2>4 DEF CalmOp, Filling
<1> QED BY <1>0, <1>3, <1>4, <1>5, <1>6, <1>7, <1>8, <1>9, QuietStep DEF OnlyOp

\* A fill reaches the cache: the row is current, or is going to be deleted.
LEMMA Lands ==
    ASSUME CalmInv, NEW t \in Tasks, op[t].pc \in {"set", "setting"},
           Put(op[t].key, op[t].val, op[t].tok), Goto(t, Outcome(t)), EpochsStay, Normal,
           UNCHANGED <<store, late, failureVars, historyVars>>
    PROVE  CalmInv'
<1>0. TypeOK /\ InvRegistry /\ late = {} /\ Permitted /\ Home[t] \in Procs
  BY EntityCacheAssumption DEF CalmInv
<1>1. op[t].key \in Keys /\ op[t].val \in Nat
  BY <1>0 DEF TypeOK, Permitted, Filling
<1>2. OnlyOp(t) /\ KeepsOp(t) /\ op'[t].pc = Outcome(t) /\ Outcome(t) \in {"stored", "refused"}
  BY <1>0, GotoOp DEF Outcome, Pcs
<1>3. UNCHANGED <<store, late, acked, known>>
  BY DEF historyVars
<1>4. EpochType /\ EpochsGrow
  BY <1>0, StayGrow
<1>5. /\ TagsMove
      /\ cache' \in [Keys -> Value] /\ tag' \in [Keys -> Nat] /\ fresh' \in Nat \ {0}
      /\ \A j \in Keys : \/ cache'[j] = cache[j]
                         \/ j = op[t].key /\ Accepts(j, op[t].tok) /\ cache'[j] = op[t].val
  BY <1>0, <1>1, PutMoves
<1>6. TypeOK'
  <2>1. calls' \in Nat /\ faults' \in Nat
    BY <1>0, CountersType
  <2> QED BY <1>0, <1>1, <1>2, <1>3, <1>4, <1>5, <2>1, TypeStep DEF TypeOK, KeepsOp
<1>7. cacheEpoch(Home[t], op[t].key)' = cacheEpoch(Home[t], op[t].key)
      /\ cacheEpochUnchanged(t)' = cacheEpochUnchanged(t)
  BY <1>2 DEF cacheEpoch, EpochsStay, KeepsOp, cacheEpochUnchanged
<1>8. StoreMoves /\ CacheMoves
  <2> SUFFICES ASSUME NEW k \in Keys, k = op[t].key, Accepts(k, op[t].tok),
                      cache'[k] = op[t].val, op[t].val # store[k]
               PROVE  \E u \in Tasks : Removes(u, k)'
    BY <1>3, <1>5 DEF StoreMoves, CacheMoves
  <2>1. CASE MayPut(t)
    <3>1. PICK u \in Tasks : Fences(u, k)
      BY <1>0, <2>1 DEF Permitted, Filling
    <3>2. u # t
      BY <3>1 DEF Fences
    <3> QED BY <1>2, <3>1, <3>2 DEF OnlyOp, Fences, Removes
  <2>2. CASE ~MayPut(t)
    <3>1. ~cacheEpochUnchanged(t)
      BY <2>2 DEF MayPut, Accepts
    <3>2. op'[t].pc = "stored" /\ op'[t].key = k
      BY <1>2 DEF Outcome, KeepsOp
    <3> QED BY <1>7, <3>1, <3>2 DEF Removes
  <2> QED BY <2>1, <2>2
<1>9. CalmOp(t)
  <2>1. op[t].epoch <= cacheEpoch(Home[t], op[t].key)
    BY <1>0 DEF InvRegistry, At
  <2>2. op'[t].tok < fresh'
    BY <1>0, <1>2, <1>5 DEF InvRegistry, TagsMove, KeepsOp, TypeOK, Op
  <2> QED BY <1>2, <1>7, <2>1, <2>2 DEF CalmOp, Filling, Removes, Fences, KeepsOp
<1> QED BY <1>0, <1>2, <1>3, <1>4, <1>5, <1>6, <1>8, <1>9, QuietStep DEF OnlyOp

\* A fill is given up, called or carried out.
LEMMA Sets ==
    ASSUME CalmInv, NEW t \in Tasks, CacheSet(t) \/ SetLands(t)
    PROVE  CalmInv'
<1>1. CASE SetLands(t)
  BY <1>1, Lands DEF SetLands, At, EpochsStay, epochVars
<1>2. CASE CacheSet(t)
  <2>1. EpochsStay /\ Normal /\ UNCHANGED <<store, late, failureVars, historyVars>> /\ op[t].pc = "set"
    BY <1>2 DEF CacheSet, At, EpochsStay, epochVars
  <2>2. CASE ~cacheEpochUnchanged(t)
    BY <1>2, <2>1, <2>2, CalmGoto DEF CacheSet, cacheVars, Pcs, Filling
  <2>3. CASE cacheEpochUnchanged(t) /\ ~Sync
    BY <1>2, <2>1, <2>3, CalmGoto DEF CacheSet, cacheVars, Pcs, Filling
  <2>4. CASE cacheEpochUnchanged(t) /\ Sync
    BY <1>2, <2>1, <2>4, Lands DEF CacheSet
  <2> QED BY <2>2, <2>3, <2>4
<1> QED BY <1>1, <1>2

\* A cached row, or its version, expires.
LEMMA Expires ==
    ASSUME CalmInv, NEW k \in Keys, Expire(k)
    PROVE  CalmInv'
<1>0. TypeOK /\ InvRegistry /\ late = {}
  BY DEF CalmInv
<1>1. UNCHANGED <<store, fresh, late, op>> /\ EpochsStay
      /\ cache' = [cache EXCEPT ![k] = Miss] /\ tag' = [tag EXCEPT ![k] = 0]
  BY DEF Expire, EpochsStay, epochVars
<1>2. EpochsGrow
  BY <1>0, <1>1, StayGrow
<1>3. TypeOK'
  <2>1. calls' \in Nat /\ faults' \in Nat
    BY <1>0, CountersType DEF Expire
  <2>2. cache' \in [Keys -> Value] /\ tag' \in [Keys -> Nat]
    BY <1>0, <1>1 DEF TypeOK, Value
  <2> QED BY <1>0, <1>1, <2>1, <2>2 DEF TypeOK, Expire, epochVars, failureVars, historyVars
<1>4. TagsMove /\ StoreMoves /\ CacheMoves
  BY <1>0, <1>1 DEF TagsMove, StoreMoves, CacheMoves, InvRegistry, TypeOK
<1> QED BY <1>0, <1>1, <1>2, <1>3, <1>4, QuietStep

----------------------------------------------------------------------------

\* What holds until the first fault.
CalmUntilFault == faults \in Nat /\ (faults = 0 => CalmInv)

\* The empty cache satisfies the invariant.
LEMMA InitCalm == Init => CalmUntilFault
<1> SUFFICES ASSUME Init PROVE CalmUntilFault
  OBVIOUS
<1>1. CacheInv
  BY InitInv
<1>2. faults = 0 /\ late = {} /\ \A t \in Tasks : op[t].pc = "idle"
  BY DEF Init, Idle
<1>3. \A k \in Keys : cache[k] = Miss
  BY DEF Init
<1> QED BY <1>1, <1>2, <1>3 DEF CalmUntilFault, CalmInv, CacheInv, Covered, Permitted, Filling

\* Every step keeps it.
LEMMA NextCalm ==
    ASSUME CalmUntilFault, [Next]_vars, Distributed \/ \A p, q \in Procs : p = q
    PROVE  CalmUntilFault'
<1>0. faults \in Nat
  BY DEF CalmUntilFault
<1>1. CASE Fault
  BY <1>0, <1>1 DEF Fault, CalmUntilFault
<1>2. ASSUME ~Fault, Next PROVE faults' = faults
  BY <1>2 DEF Next, Operation, StartWrite, StartInvalidate, StartLoad, StoreWrite, StoreConflict, StoreThrows,
              Invalidate, Delete, DeleteReturns, DeleteThrows, CacheGet, UseHit, RecoverVersion, RecoverThrows,
              StoreRead, LoadThrows, Fill, CacheSet, SetLands, SetReturns, SetThrows, AfterCacheSet, UndoReturns,
              PoisonReturns, CleanupThrows, LoadReturns, Expire, LateSet, Restart, Normal, Call
<1>3. ASSUME ~Fault, Next, faults = 0 PROVE CalmInv'
  <2>0. CalmInv /\ late = {}
    BY <1>3 DEF CalmUntilFault, CalmInv
  <2>1. ASSUME NEW t \in Tasks, Operation(t) PROVE CalmInv'
    <3>1. CASE \E k \in Keys : StartWrite(t, k) \/ StartInvalidate(t, k) \/ StartLoad(t, k)
      BY <2>0, <3>1, Begins
    <3>2. CASE StoreWrite(t) \/ StoreRead(t)
      BY <2>0, <3>2, StoreAnswers
    <3>3. CASE CacheGet(t) \/ RecoverVersion(t)
      BY <2>0, <3>3, VersionRead
    <3>4. CASE Invalidate(t) \/ DeleteReturns(t)
      BY <2>0, <3>4, Bumps
    <3>5. CASE Delete(t)
      BY <2>0, <3>5, Deletes
    <3>6. CASE CacheSet(t) \/ SetLands(t)
      BY <2>0, <3>6, Sets
    <3>7. CASE LoadReturns(t) \/ PoisonReturns(t)
      BY <2>0, <3>7, LoadEnds
    <3>8. CASE \/ StoreConflict(t) \/ UseHit(t) \/ RecoverThrows(t) \/ Fill(t)
               \/ AfterCacheSet(t) \/ UndoReturns(t) \/ SetReturns(t)
      BY <2>0, <3>8, MovesOn
    <3>9. ~(StoreThrows(t) \/ DeleteThrows(t) \/ LoadThrows(t) \/ SetThrows(t) \/ CleanupThrows(t))
      BY <1>3 DEF StoreThrows, DeleteThrows, LoadThrows, SetThrows, CleanupThrows
    <3> QED BY <2>1, <3>1, <3>2, <3>3, <3>4, <3>5, <3>6, <3>7, <3>8, <3>9 DEF Operation
  <2>2. ASSUME NEW k \in Keys, Expire(k) PROVE CalmInv'
    BY <2>0, <2>2, Expires
  <2>3. ASSUME NEW p \in Procs PROVE ~Restart(p)
    BY <1>3 DEF Restart
  <2> QED BY <1>3, <2>0, <2>1, <2>2, <2>3 DEF Next
<1>4. CASE UNCHANGED vars
  BY <1>4 DEF vars, cacheVars, epochVars, failureVars, historyVars, CalmUntilFault, CalmInv, TypeOK, InvRegistry,
              Covered, Permitted, Removes, Fences, MayPut, cacheEpochUnchanged, cacheEpoch, At
<1>5. ASSUME ~Fault, Next PROVE CalmUntilFault'
  BY <1>0, <1>2, <1>3, <1>5 DEF CalmUntilFault
<1> QED BY <1>1, <1>4, <1>5

\* Until the first call fails, no outdated row is left in the cache when all
\* operations have ended: with versions, or without them in one process.
THEOREM NothingOutdatedStays ==
    (Distributed \/ \A p, q \in Procs : p = q) => (Spec => [](faults = 0 => NoStaleResidue))
<1> SUFFICES ASSUME Distributed \/ \A p, q \in Procs : p = q
             PROVE  Spec => [](faults = 0 => NoStaleResidue)
  OBVIOUS
<1>1. Init => CalmUntilFault
  BY InitCalm
<1>2. CalmUntilFault /\ [Next]_vars => CalmUntilFault'
  BY NextCalm
<1>3. CalmUntilFault => (faults = 0 => NoStaleResidue)
  BY DEF CalmUntilFault, CalmInv, Covered, Removes, NoStaleResidue, At
<1> QED BY <1>1, <1>2, <1>3, PTL DEF Spec

-----------------------------------------------------------------------------
(* The batch loader (BatchLoader), for any callers, ids and sizes of a batch. *)

CONSTANTS
    LoadCallers,   \* each calls load once
    LoadIds,       \* the ids loaded
    LoadSize,      \* maxSize of the loader
    LoadDistinct,  \* distinctResults
    LoadWrites     \* writes of the store

VARIABLES
    asked,         \* items that wait for the next flush
    turnDue,       \* a flush is scheduled
    batches,       \* the flushes under way
    loads,         \* what each caller asked and got
    rowVersions    \* version of each row

Loader == INSTANCE BatchLoader WITH
    Callers <- LoadCallers, Ids <- LoadIds, MaxSize <- LoadSize, Distinct <- LoadDistinct,
    MaxWrites <- LoadWrites, pending <- asked, scheduled <- turnDue, flights <- batches,
    call <- loads, store <- rowVersions

\* Induction by the least counterexample.
LEMMA LeastIn ==
    ASSUME NEW S, S \subseteq Nat, S # {}
    PROVE  \E m \in S : \A k \in S : ~(k < m)
  <1>1. \E m \in S : \A k \in S : ~(<<k, m>> \in OpToRel(<, Nat))
    BY NatLessThanWellFounded, WFMin
  <1> QED BY <1>1 DEF OpToRel

\* What FlattenSeq computes on the way: f[n] is the first n sequences in one.
Flattens(f, ss, n) == f = [i \in 1..n |-> IF i = 1 THEN ss[i] ELSE f[i - 1] \o ss[i]]

LEMMA FlattenExists ==
    ASSUME NEW S, NEW ss \in Seq(Seq(S)), NEW n \in 1..Len(ss)
    PROVE  \E f : Flattens(f, ss, n)
  <1> SUFFICES ASSUME NEW m \in 1..Len(ss), ~\E f : Flattens(f, ss, m),
                      \A k \in 1..Len(ss) : k < m => \E f : Flattens(f, ss, k)
               PROVE  FALSE
    <2> DEFINE Bad == {m \in 1..Len(ss) : ~\E f : Flattens(f, ss, m)}
    <2>1. Bad \subseteq Nat
      OBVIOUS
    <2>2. Bad # {} => \E m \in Bad : \A k \in Bad : ~(k < m)
      BY <2>1, LeastIn
    <2> QED BY <2>2
  <1>1. m # 1
    <2> DEFINE h == [i \in 1..1 |-> ss[1]]
    <2>1. m = 1 => Flattens(h, ss, m)
      BY DEF Flattens
    <2> QED BY <2>1
  <1>2. m - 1 \in 1..Len(ss) /\ m - 1 < m
    BY <1>1
  <1>3. PICK g : Flattens(g, ss, m - 1)
    BY <1>2
  <1> DEFINE h == [i \in 1..m |-> IF i < m THEN g[i] ELSE g[m - 1] \o ss[m]]
  <1>4. \A i \in 1..(m - 1) : g[i] = IF i = 1 THEN ss[i] ELSE g[i - 1] \o ss[i]
    BY <1>3 DEF Flattens
  <1>5. \A i \in 1..m : h[i] = IF i = 1 THEN ss[i] ELSE h[i - 1] \o ss[i]
    BY <1>1, <1>2, <1>4
  <1>6. Flattens(h, ss, m)
    BY <1>5 DEF Flattens
  <1> QED BY <1>6

LEMMA FlattenIs ==
    ASSUME NEW S, NEW ss \in Seq(Seq(S)), Len(ss) > 0
    PROVE  \E f : Flattens(f, ss, Len(ss)) /\ Loader!FlattenSeq(ss) = f[Len(ss)]
  <1> DEFINE fl == CHOOSE f : Flattens(f, ss, Len(ss))
  <1>1. Flattens(fl, ss, Len(ss))
    <2>1. Len(ss) \in 1..Len(ss)
      OBVIOUS
    <2> QED BY <2>1, FlattenExists
  <1>2. Loader!FlattenSeq(ss) = fl[Len(ss)]
    BY DEF Loader!FlattenSeq, Flattens
  <1> QED BY <1>1, <1>2

\* The places in the first n sequences; pl lays each of them out at one place of s.
Places(ss, n) == {p \in (1..n) \X Nat : p[2] \in 1..Len(ss[p[1]])}

Laid(pl, s, ss, n) ==
    /\ pl \in [1..Len(s) -> Places(ss, n)]
    /\ \A i, j \in 1..Len(s) : pl[i] = pl[j] => i = j
    /\ \A p \in Places(ss, n) : \E i \in 1..Len(s) : pl[i] = p
    /\ \A i \in 1..Len(s) : s[i] = ss[pl[i][1]][pl[i][2]]

LEMMA LaidFirst ==
    ASSUME NEW S, NEW ss \in Seq(Seq(S)), Len(ss) > 0
    PROVE  \E pl : Laid(pl, ss[1], ss, 1)
  <1> DEFINE pl == [i \in 1..Len(ss[1]) |-> <<1, i>>]
  <1>1. ss[1] \in Seq(S)
    OBVIOUS
  <1>2. Len(ss[1]) \in Nat
    BY <1>1
  <1>3. pl \in [1..Len(ss[1]) -> Places(ss, 1)]
    BY <1>2 DEF Places
  <1>4. \A p \in Places(ss, 1) : p[2] \in 1..Len(ss[1]) /\ p = <<1, p[2]>>
    BY DEF Places
  <1>5. \A p \in Places(ss, 1) : pl[p[2]] = p
    BY <1>4
  <1>6. Laid(pl, ss[1], ss, 1)
    BY <1>3, <1>4, <1>5 DEF Laid
  <1> QED BY <1>6

LEMMA LaidNext ==
    ASSUME NEW S, NEW ss \in Seq(Seq(S)), NEW n \in 1..Len(ss), n > 1,
           NEW s \in Seq(S), NEW pl, Laid(pl, s, ss, n - 1)
    PROVE  \E h : Laid(h, s \o ss[n], ss, n)
  <1> DEFINE u == s \o ss[n]
             h == [i \in 1..Len(u) |-> IF i <= Len(s) THEN pl[i] ELSE <<n, i - Len(s)>>]
  <1>1. ss[n] \in Seq(S) /\ Len(ss[n]) \in Nat /\ Len(s) \in Nat /\ n \in Nat
    OBVIOUS
  <1>2. /\ u \in Seq(S) /\ Len(u) = Len(s) + Len(ss[n])
        /\ \A i \in 1..Len(u) : u[i] = IF i <= Len(s) THEN s[i] ELSE ss[n][i - Len(s)]
    BY <1>1
  <1>3. \A i \in 1..Len(s) : /\ pl[i] \in Places(ss, n - 1) /\ pl[i] \in Places(ss, n)
                             /\ pl[i][1] # n
    <2>1. \A p \in Places(ss, n - 1) : p \in Places(ss, n) /\ p[1] # n
      BY <1>1 DEF Places
    <2>2. \A i \in 1..Len(s) : pl[i] \in Places(ss, n - 1)
      BY DEF Laid
    <2> QED BY <2>1, <2>2
  <1>4. \A i \in 1..Len(ss[n]) : <<n, i>> \in Places(ss, n)
    BY <1>1 DEF Places
  <1> HIDE DEF u
  <1>5. \A i \in 1..Len(u) : /\ i <= Len(s) => i \in 1..Len(s) /\ h[i] = pl[i]
                             /\ ~(i <= Len(s)) => i - Len(s) \in 1..Len(ss[n]) /\ h[i] = <<n, i - Len(s)>>
    BY <1>1, <1>2
  <1>6. h \in [1..Len(u) -> Places(ss, n)]
    BY <1>3, <1>4, <1>5
  <1>7. \A i \in 1..Len(u) : u[i] = ss[h[i][1]][h[i][2]]
    BY <1>2, <1>5 DEF Laid
  <1>8. ASSUME NEW i \in 1..Len(u), NEW j \in 1..Len(u), h[i] = h[j]
        PROVE  i = j
    <2>1. i <= Len(s) <=> j <= Len(s)
      BY <1>3, <1>5, <1>8
    <2>2. CASE i <= Len(s)
      BY <1>5, <1>8, <2>1, <2>2 DEF Laid
    <2>3. CASE ~(i <= Len(s))
      BY <1>1, <1>2, <1>5, <1>8, <2>1, <2>3
    <2> QED BY <2>2, <2>3
  <1>9. ASSUME NEW p \in Places(ss, n)
        PROVE  \E i \in 1..Len(u) : h[i] = p
    <2> HIDE DEF h
    <2> DEFINE b == p[2]
    <2>1. CASE p[1] = n
      <3>1. b \in 1..Len(ss[n]) /\ p = <<n, b>>
        BY <2>1 DEF Places
      <3> HIDE DEF b
      <3> DEFINE i == Len(s) + b
      <3>2. i \in 1..Len(u) /\ ~(i <= Len(s)) /\ i - Len(s) = b
        BY <1>1, <1>2, <3>1
      <3> HIDE DEF i
      <3>3. h[i] = <<n, i - Len(s)>>
        BY <1>5, <3>2, Zenon
      <3>4. h[i] = p
        BY <3>1, <3>2, <3>3, Zenon
      <3> QED BY <3>2, <3>4
    <2>2. CASE p[1] # n
      <3>1. p \in Places(ss, n - 1)
        BY <1>1, <2>2 DEF Places
      <3>2. PICK i \in 1..Len(s) : pl[i] = p
        BY <3>1 DEF Laid
      <3>3. i \in 1..Len(u) /\ i <= Len(s)
        BY <1>1, <1>2
      <3> QED BY <1>5, <3>2, <3>3
    <2> QED BY <2>1, <2>2
  <1>10. Laid(h, u, ss, n)
    <2> HIDE DEF h
    <2> QED BY <1>6, <1>7, <1>8, <1>9 DEF Laid
  <1> QED BY <1>10 DEF u

LEMMA FlattenLaid ==
    ASSUME NEW S, NEW ss \in Seq(Seq(S)), Len(ss) > 0
    PROVE  Loader!FlattenSeq(ss) \in Seq(S) /\ \E pl : Laid(pl, Loader!FlattenSeq(ss), ss, Len(ss))
  <1>1. PICK f : Flattens(f, ss, Len(ss)) /\ Loader!FlattenSeq(ss) = f[Len(ss)]
    BY FlattenIs
  <1>2. \A i \in 1..Len(ss) : f[i] = IF i = 1 THEN ss[i] ELSE f[i - 1] \o ss[i]
    BY <1>1 DEF Flattens
  <1> DEFINE Good(n) == f[n] \in Seq(S) /\ \E pl : Laid(pl, f[n], ss, n)
             Bad == {m \in 1..Len(ss) : ~Good(m)}
  <1>3. Bad = {}
    <2> SUFFICES ASSUME NEW m \in Bad, \A k \in Bad : ~(k < m)
                 PROVE  FALSE
      <3>1. Bad \subseteq Nat
        OBVIOUS
      <3> HIDE DEF Bad
      <3> QED BY <3>1, LeastIn
    <2>1. CASE m = 1
      <3>1. f[1] = ss[1] /\ ss[1] \in Seq(S)
        BY <1>2, <2>1
      <3> QED BY <2>1, <3>1, LaidFirst
    <2>2. CASE m # 1
      <3>1. m - 1 \in 1..Len(ss) /\ m - 1 < m /\ m > 1 /\ m \in 1..Len(ss)
        BY <2>2
      <3>2. f[m - 1] \in Seq(S) /\ \E pl : Laid(pl, f[m - 1], ss, m - 1)
        BY <3>1
      <3>3. f[m] = f[m - 1] \o ss[m]
        BY <1>2, <2>2, <3>1
      <3>4. f[m] \in Seq(S)
        <4>1. ss[m] \in Seq(S)
          BY <3>1
        <4> QED BY <3>2, <3>3, <4>1
      <3>5. \E pl : Laid(pl, f[m], ss, m)
        BY <3>1, <3>2, <3>3, LaidNext
      <3> QED BY <3>4, <3>5
    <2> QED BY <2>1, <2>2
  <1>4. Len(ss) \in 1..Len(ss)
    OBVIOUS
  <1> QED BY <1>1, <1>3, <1>4

Items == [id : LoadIds, waiters : Seq(LoadCallers)]

\* An id is asked for once in the queue, a caller waits at one place in it.
QueueOk(p) ==
    /\ p \in Seq(Items)
    /\ \A m, n \in 1..Len(p) : p[m].id = p[n].id => m = n
    /\ \A n \in 1..Len(p) : Len(p[n].waiters) > 0
    /\ \A m, n \in 1..Len(p) : \A v \in 1..Len(p[m].waiters), w \in 1..Len(p[n].waiters) :
          p[m].waiters[v] = p[n].waiters[w] => m = n /\ v = w

\* What pendingBatches makes of it: every entry is of an item, has waiters, and no caller
\* is in two; results that need not be distinct keep one entry per id.
EntryOk(k) ==
    /\ Len(k.waiters) > 0
    /\ LoadDistinct => Len(k.waiters) = 1
BatchOk(b, p) ==
    /\ b \in Seq(Items)
    /\ \A j \in 1..Len(b) : EntryOk(b[j])
    /\ \A j \in 1..Len(b) : \E n \in 1..Len(p) :
          b[j].id = p[n].id /\ Loader!Waiters(b, j) \subseteq Loader!Waiters(p, n)
    /\ \A n \in 1..Len(p) : \A c \in Loader!Waiters(p, n) : \E j \in 1..Len(b) : c \in Loader!Waiters(b, j)
    /\ \A i, j \in 1..Len(b) : \A c \in Loader!Waiters(b, i) : c \in Loader!Waiters(b, j) => i = j
    /\ ~LoadDistinct => \A i, j \in 1..Len(b) : b[i].id = b[j].id => i = j

LEMMA WaitersAt ==
    ASSUME NEW p \in Seq(Items), NEW n \in 1..Len(p)
    PROVE  /\ p[n] \in Items /\ p[n].id \in LoadIds /\ p[n].waiters \in Seq(LoadCallers)
           /\ Len(p[n].waiters) \in Nat
           /\ Loader!Waiters(p, n) = {p[n].waiters[w] : w \in 1..Len(p[n].waiters)}
           /\ Loader!Waiters(p, n) \subseteq LoadCallers
  <1>1. p[n] \in Items
    OBVIOUS
  <1>2. p[n].id \in LoadIds /\ p[n].waiters \in Seq(LoadCallers)
    BY <1>1 DEF Items
  <1>3. DOMAIN p[n].waiters = 1..Len(p[n].waiters) /\ Len(p[n].waiters) \in Nat
    BY <1>2
  <1>4. Loader!Waiters(p, n) = {p[n].waiters[w] : w \in 1..Len(p[n].waiters)}
    BY <1>3 DEF Loader!Waiters
  <1>5. \A w \in 1..Len(p[n].waiters) : p[n].waiters[w] \in LoadCallers
    BY <1>2
  <1> QED BY <1>1, <1>2, <1>3, <1>4, <1>5

\* The entries of one item.
LEMMA EntriesAt ==
    ASSUME NEW x \in Items, LoadDistinct \in BOOLEAN
    PROVE  /\ Loader!Entries(x) \in Seq(Items)
           /\ LoadDistinct => /\ Len(Loader!Entries(x)) = Len(x.waiters)
                              /\ \A w \in 1..Len(x.waiters) :
                                    Loader!Entries(x)[w] = [id |-> x.id, waiters |-> <<x.waiters[w]>>]
           /\ ~LoadDistinct => Len(Loader!Entries(x)) = 1 /\ Loader!Entries(x)[1] = x
  <1>1. x.id \in LoadIds /\ x.waiters \in Seq(LoadCallers)
    BY DEF Items
  <1>2. DOMAIN x.waiters = 1..Len(x.waiters) /\ Len(x.waiters) \in Nat
    BY <1>1
  <1>3. CASE LoadDistinct
    <2> DEFINE e == [w \in 1..Len(x.waiters) |-> [id |-> x.id, waiters |-> <<x.waiters[w]>>]]
    <2>1. Loader!Entries(x) = e
      BY <1>2, <1>3 DEF Loader!Entries, Loader!Item
    <2>2. \A w \in 1..Len(x.waiters) : <<x.waiters[w]>> \in Seq(LoadCallers)
      BY <1>1
    <2>3. \A w \in 1..Len(x.waiters) : e[w] \in Items
      BY <1>1, <2>2 DEF Items
    <2>4. e \in [1..Len(x.waiters) -> Items]
      BY <2>3
    <2>5. e \in Seq(Items) /\ Len(e) = Len(x.waiters)
      <3> HIDE DEF e
      <3> QED BY <1>2, <2>4
    <2> QED BY <1>3, <2>1, <2>5
  <1>4. CASE ~LoadDistinct
    BY <1>4 DEF Loader!Entries
  <1> QED BY <1>3, <1>4

\* The waiters of an entry, from the entry alone.
LEMMA SameWaiters ==
    ASSUME NEW b, NEW p, NEW j, NEW n, b[j].waiters = p[n].waiters
    PROVE  Loader!Waiters(b, j) = Loader!Waiters(p, n)
  BY DEF Loader!Waiters

LEMMA OneWaiter ==
    ASSUME NEW b, NEW j, NEW c, b[j].waiters = <<c>>
    PROVE  Loader!Waiters(b, j) = {c}
  BY DEF Loader!Waiters

\* The entries, laid out from those of each item: entry j is the w-th of item n.
OfItem(p, b, pl, j, n, w) ==
    /\ n \in 1..Len(p) /\ w \in 1..Len(Loader!Entries(p[n])) /\ pl[j] = <<n, w>>
    /\ b[j] = Loader!Entries(p[n])[w]

\* So it asks for the id of that item: for its w-th waiter, or for all of them.
Distinctly(p, b, pl, j, n, w) ==
    /\ n \in 1..Len(p) /\ w \in 1..Len(p[n].waiters) /\ pl[j] = <<n, w>> /\ b[j].id = p[n].id
    /\ Len(b[j].waiters) = 1 /\ Loader!Waiters(b, j) = {p[n].waiters[w]}
Jointly(p, b, pl, j, n) ==
    /\ n \in 1..Len(p) /\ pl[j] = <<n, 1>> /\ b[j] = p[n]
    /\ Loader!Waiters(b, j) = Loader!Waiters(p, n)

\* Each entry is at its own place, and every place has one.
LaidEntries(p, b, pl) ==
    /\ \A j \in 1..Len(b) : \E n, w : OfItem(p, b, pl, j, n, w)
    /\ \A n \in 1..Len(p) : \A w \in 1..Len(Loader!Entries(p[n])) :
          \E j \in 1..Len(b) : pl[j] = <<n, w>>
    /\ \A i, j \in 1..Len(b) : pl[i] = pl[j] => i = j

LEMMA LaidOfItem ==
    ASSUME NEW p, QueueOk(p), NEW b \in Seq(Items), NEW ss, NEW pl,
           \A n \in 1..Len(p) : ss[n] = Loader!Entries(p[n]), Laid(pl, b, ss, Len(p))
    PROVE  LaidEntries(p, b, pl)
  <1>1. ASSUME NEW j \in 1..Len(b)
        PROVE  \E n, w : OfItem(p, b, pl, j, n, w)
    <2>1. pl[j] \in Places(ss, Len(p)) /\ b[j] = ss[pl[j][1]][pl[j][2]]
      BY DEF Laid
    <2>2. PICK n \in 1..Len(p), w \in Nat : pl[j] = <<n, w>> /\ w \in 1..Len(ss[n])
      BY <2>1 DEF Places
    <2>3. b[j] = ss[n][w]
      BY <2>1, <2>2
    <2>4. OfItem(p, b, pl, j, n, w)
      BY <2>2, <2>3 DEF OfItem
    <2> QED BY <2>4
  <1>2. ASSUME NEW n \in 1..Len(p), NEW w \in 1..Len(Loader!Entries(p[n]))
        PROVE  \E j \in 1..Len(b) : pl[j] = <<n, w>>
    <2>1. w \in 1..Len(ss[n]) /\ w \in Nat
      OBVIOUS
    <2>2. <<n, w>> \in Places(ss, Len(p))
      BY <2>1 DEF Places
    <2> QED BY <2>2 DEF Laid
  <1>3. \A i, j \in 1..Len(b) : pl[i] = pl[j] => i = j
    BY DEF Laid
  <1> QED BY <1>1, <1>2, <1>3 DEF LaidEntries

LEMMA DistinctBatch ==
    ASSUME NEW p, QueueOk(p), LoadDistinct, NEW b \in Seq(Items), NEW pl,
           LaidEntries(p, b, pl)
    PROVE  BatchOk(b, p)
  <1>0. /\ \A j \in 1..Len(b) : \E n, w : OfItem(p, b, pl, j, n, w)
        /\ \A n \in 1..Len(p) : \A w \in 1..Len(Loader!Entries(p[n])) :
              \E j \in 1..Len(b) : pl[j] = <<n, w>>
        /\ \A i, j \in 1..Len(b) : pl[i] = pl[j] => i = j
    BY DEF LaidEntries
  <1>1. p \in Seq(Items) /\ \A n \in 1..Len(p) : p[n] \in Items
    BY DEF QueueOk
  <1>2. \A n \in 1..Len(p) :
           /\ Len(Loader!Entries(p[n])) = Len(p[n].waiters)
           /\ \A w \in 1..Len(p[n].waiters) :
                 Loader!Entries(p[n])[w] = [id |-> p[n].id, waiters |-> <<p[n].waiters[w]>>]
    BY <1>1, EntriesAt
  <1>3. \A j \in 1..Len(b) : \E n, w : Distinctly(p, b, pl, j, n, w)
    <2> SUFFICES ASSUME NEW j \in 1..Len(b), NEW n, NEW w, OfItem(p, b, pl, j, n, w)
                 PROVE  Distinctly(p, b, pl, j, n, w)
      BY <1>0
    <2>1. n \in 1..Len(p) /\ w \in 1..Len(p[n].waiters) /\ pl[j] = <<n, w>>
      BY <1>2 DEF OfItem
    <2>2. b[j] = [id |-> p[n].id, waiters |-> <<p[n].waiters[w]>>]
      BY <1>2, <2>1 DEF OfItem
    <2>3. b[j].id = p[n].id /\ b[j].waiters = <<p[n].waiters[w]>> /\ Len(b[j].waiters) = 1
      BY <2>2
    <2>4. Loader!Waiters(b, j) = {p[n].waiters[w]}
      BY <2>3, OneWaiter
    <2> QED BY <2>1, <2>3, <2>4 DEF Distinctly
  <1>4. ASSUME NEW j \in 1..Len(b)
        PROVE  /\ EntryOk(b[j])
               /\ \E n \in 1..Len(p) :
                     b[j].id = p[n].id /\ Loader!Waiters(b, j) \subseteq Loader!Waiters(p, n)
    <2>1. PICK n, w : Distinctly(p, b, pl, j, n, w)
      BY <1>3
    <2>2. n \in 1..Len(p) /\ w \in 1..Len(p[n].waiters) /\ b[j].id = p[n].id
          /\ Len(b[j].waiters) = 1 /\ Loader!Waiters(b, j) = {p[n].waiters[w]}
      BY <2>1 DEF Distinctly
    <2>3. EntryOk(b[j])
      BY <2>2 DEF EntryOk
    <2>4. Loader!Waiters(b, j) \subseteq Loader!Waiters(p, n)
      BY <1>1, <2>2, WaitersAt
    <2> QED BY <2>2, <2>3, <2>4
  <1>5. ASSUME NEW n \in 1..Len(p), NEW c \in Loader!Waiters(p, n)
        PROVE  \E j \in 1..Len(b) : c \in Loader!Waiters(b, j)
    <2>1. PICK w \in 1..Len(p[n].waiters) : c = p[n].waiters[w]
      BY <1>1, WaitersAt
    <2>2. PICK j \in 1..Len(b) : pl[j] = <<n, w>>
      BY <1>0, <1>2
    <2>3. PICK m, v : Distinctly(p, b, pl, j, m, v)
      BY <1>3
    <2>4. m = n /\ v = w
      BY <2>2, <2>3 DEF Distinctly
    <2> QED BY <2>1, <2>3, <2>4 DEF Distinctly
  <1>6. ASSUME NEW i \in 1..Len(b), NEW j \in 1..Len(b),
               NEW c \in Loader!Waiters(b, i), c \in Loader!Waiters(b, j)
        PROVE  i = j
    <2>1. PICK m, v : Distinctly(p, b, pl, i, m, v)
      BY <1>3
    <2>2. PICK n, w : Distinctly(p, b, pl, j, n, w)
      BY <1>3
    <2>3. p[m].waiters[v] = p[n].waiters[w]
      BY <1>6, <2>1, <2>2 DEF Distinctly
    <2>4. m = n /\ v = w
      BY <2>1, <2>2, <2>3 DEF QueueOk, Distinctly
    <2>5. pl[i] = pl[j]
      BY <2>1, <2>2, <2>4 DEF Distinctly
    <2> QED BY <1>0, <2>5
  <1> QED BY <1>4, <1>5, <1>6 DEF BatchOk

LEMMA JointBatch ==
    ASSUME NEW p, QueueOk(p), ~LoadDistinct, LoadDistinct \in BOOLEAN, NEW b \in Seq(Items), NEW pl,
           LaidEntries(p, b, pl)
    PROVE  BatchOk(b, p)
  <1>0. /\ \A j \in 1..Len(b) : \E n, w : OfItem(p, b, pl, j, n, w)
        /\ \A n \in 1..Len(p) : \A w \in 1..Len(Loader!Entries(p[n])) :
              \E j \in 1..Len(b) : pl[j] = <<n, w>>
        /\ \A i, j \in 1..Len(b) : pl[i] = pl[j] => i = j
    BY DEF LaidEntries
  <1>1. p \in Seq(Items) /\ \A n \in 1..Len(p) : p[n] \in Items
    BY DEF QueueOk
  <1>2. \A n \in 1..Len(p) : Len(Loader!Entries(p[n])) = 1 /\ Loader!Entries(p[n])[1] = p[n]
    BY <1>1, EntriesAt
  <1>3. \A j \in 1..Len(b) : \E n : Jointly(p, b, pl, j, n)
    <2> SUFFICES ASSUME NEW j \in 1..Len(b), NEW n, NEW w, OfItem(p, b, pl, j, n, w)
                 PROVE  Jointly(p, b, pl, j, n)
      BY <1>0
    <2>1. n \in 1..Len(p) /\ w = 1 /\ pl[j] = <<n, 1>> /\ b[j] = p[n]
      BY <1>2 DEF OfItem
    <2>2. Loader!Waiters(b, j) = Loader!Waiters(p, n)
      BY <2>1, SameWaiters
    <2> QED BY <2>1, <2>2 DEF Jointly
  <1>4. ASSUME NEW j \in 1..Len(b)
        PROVE  /\ EntryOk(b[j])
               /\ \E n \in 1..Len(p) :
                     b[j].id = p[n].id /\ Loader!Waiters(b, j) \subseteq Loader!Waiters(p, n)
    <2>1. PICK n : Jointly(p, b, pl, j, n)
      BY <1>3
    <2>2. EntryOk(b[j])
      BY <2>1 DEF EntryOk, Jointly, QueueOk
    <2> QED BY <2>1, <2>2 DEF Jointly
  <1>5. ASSUME NEW n \in 1..Len(p), NEW c \in Loader!Waiters(p, n)
        PROVE  \E j \in 1..Len(b) : c \in Loader!Waiters(b, j)
    <2>1. PICK j \in 1..Len(b) : pl[j] = <<n, 1>>
      <3>1. 1 \in 1..Len(Loader!Entries(p[n]))
        BY <1>2
      <3> QED BY <1>0, <3>1
    <2>2. PICK m : Jointly(p, b, pl, j, m)
      BY <1>3
    <2>3. m = n
      BY <2>1, <2>2 DEF Jointly
    <2> QED BY <2>2, <2>3 DEF Jointly
  <1>6. ASSUME NEW i \in 1..Len(b), NEW j \in 1..Len(b),
               b[i].id = b[j].id \/ \E c \in Loader!Waiters(b, i) : c \in Loader!Waiters(b, j)
        PROVE  i = j
    <2>1. PICK m : Jointly(p, b, pl, i, m)
      BY <1>3
    <2>2. PICK n : Jointly(p, b, pl, j, n)
      BY <1>3
    <2>3. m \in 1..Len(p) /\ n \in 1..Len(p)
      BY <2>1, <2>2 DEF Jointly
    <2>4. b[i].id = b[j].id => m = n
      BY <2>1, <2>2, <2>3 DEF Jointly, QueueOk
    <2>5. ASSUME NEW c \in Loader!Waiters(b, i), c \in Loader!Waiters(b, j)
          PROVE  m = n
      <3>1. c \in Loader!Waiters(p, m) /\ c \in Loader!Waiters(p, n)
        BY <2>1, <2>2, <2>5 DEF Jointly
      <3>2. PICK v \in 1..Len(p[m].waiters) : c = p[m].waiters[v]
        BY <1>1, <2>3, <3>1, WaitersAt
      <3>3. PICK w \in 1..Len(p[n].waiters) : c = p[n].waiters[w]
        BY <1>1, <2>3, <3>1, WaitersAt
      <3> QED BY <2>3, <3>2, <3>3 DEF QueueOk
    <2>6. m = n
      BY <1>6, <2>4, <2>5
    <2>7. pl[i] = pl[j]
      BY <2>1, <2>2, <2>6 DEF Jointly
    <2> QED BY <1>0, <2>7
  <1> QED BY <1>4, <1>5, <1>6 DEF BatchOk

LEMMA BatchIsOk ==
    ASSUME NEW p, QueueOk(p), LoadDistinct \in BOOLEAN
    PROVE  BatchOk(Loader!Batch(p), p)
  <1> DEFINE ss == [n \in 1..Len(p) |-> Loader!Entries(p[n])]
  <1>1. p \in Seq(Items) /\ Len(p) \in Nat /\ DOMAIN p = 1..Len(p)
    BY DEF QueueOk
  <1>2. Loader!Batch(p) = Loader!FlattenSeq(ss)
    BY <1>1 DEF Loader!Batch
  <1>3. \A n \in 1..Len(p) : p[n] \in Items /\ Loader!Entries(p[n]) \in Seq(Items)
    BY <1>1, EntriesAt
  <1>4. ss \in [1..Len(p) -> Seq(Items)] /\ \A n \in 1..Len(p) : ss[n] = Loader!Entries(p[n])
    BY <1>3
  <1> HIDE DEF ss
  <1>5. ss \in Seq(Seq(Items)) /\ Len(ss) = Len(p)
    BY <1>1, <1>4
  <1>6. CASE Len(p) = 0
    <2>1. Loader!FlattenSeq(ss) = ss /\ ss = << >>
      BY <1>5, <1>6 DEF Loader!FlattenSeq
    <2>2. Loader!Batch(p) \in Seq(Items) /\ Len(Loader!Batch(p)) = 0
      BY <1>2, <2>1
    <2> QED BY <1>6, <2>2 DEF BatchOk
  <1>7. CASE Len(p) # 0
    <2>1. Loader!FlattenSeq(ss) \in Seq(Items) /\ \E pl : Laid(pl, Loader!FlattenSeq(ss), ss, Len(ss))
      <3>1. Len(ss) > 0
        BY <1>1, <1>5, <1>7
      <3> QED BY <1>5, <3>1, FlattenLaid
    <2>2. PICK pl : Laid(pl, Loader!Batch(p), ss, Len(p))
      BY <1>2, <1>5, <2>1
    <2>3. Loader!Batch(p) \in Seq(Items)
      BY <1>2, <2>1
    <2> DEFINE b == Loader!Batch(p)
    <2> HIDE DEF b
    <2>4. b \in Seq(Items) /\ Laid(pl, b, ss, Len(p))
      BY <2>2, <2>3 DEF b
    <2>5. LaidEntries(p, b, pl)
      BY <1>4, <2>4, LaidOfItem
    <2>6. BatchOk(b, p)
      <3>1. CASE LoadDistinct
        BY <2>4, <2>5, <3>1, DistinctBatch
      <3>2. CASE ~LoadDistinct
        BY <2>4, <2>5, <3>2, JointBatch
      <3> QED BY <3>1, <3>2
    <2> QED BY <2>6 DEF b
  <1> QED BY <1>6, <1>7

\* Chunk n of b: the places (n - 1) * LoadSize + 1 and so on, at most LoadSize of them.
ChunksOk(ks, b) ==
    /\ ks \in Seq(Seq(Items))
    /\ \A n \in 1..Len(ks) : Len(ks[n]) \in 1..LoadSize
    /\ \A n \in 1..Len(ks) : \A i \in 1..Len(ks[n]) :
          (n - 1) * LoadSize + i \in 1..Len(b) /\ ks[n][i] = b[(n - 1) * LoadSize + i]
    /\ \A j \in 1..Len(b) : \E n \in 1..Len(ks) : \E i \in 1..Len(ks[n]) : ks[n][i] = b[j]

LEMMA Multiples ==
    ASSUME NEW M \in Nat \ {0}, NEW a \in Nat, NEW b \in Nat, a < b
    PROVE  a * M \in Nat /\ b * M \in Nat /\ a * M + M <= b * M
  <1> DEFINE d == b - a - 1
  <1>1. d \in Nat /\ b = a + 1 + d
    OBVIOUS
  <1> HIDE DEF d
  <1>2. d * M \in Nat /\ a * M \in Nat
    BY <1>1
  <1>3. b * M = a * M + M + d * M
    BY <1>1
  <1> QED BY <1>2, <1>3

\* The number of chunks of L items: all but the last are full, and the last is not empty.
LEMMA ChunkCount ==
    ASSUME NEW M \in Nat \ {0}, NEW L \in Nat
    PROVE  LET N == (L + M - 1) \div M
           IN  N \in Nat /\ N * M \in Nat /\ N * M <= L + M - 1 /\ L <= N * M
  <1> DEFINE N == (L + M - 1) \div M
             R == (L + M - 1) % M
  <1>1. N \in Nat /\ R \in 0..(M - 1) /\ L + M - 1 = M * N + R
    OBVIOUS
  <1> HIDE DEF N, R
  <1>2. N * M = M * N /\ N * M \in Nat
    BY <1>1
  <1>3. N \in Nat /\ N * M \in Nat /\ N * M <= L + M - 1 /\ L <= N * M
    BY <1>1, <1>2
  <1> QED BY <1>3 DEF N

\* Where place j is.
LEMMA ChunkOf ==
    ASSUME NEW M \in Nat \ {0}, NEW j \in Nat \ {0}
    PROVE  \E n \in Nat \ {0} : \E i \in 1..M : (n - 1) * M \in Nat /\ (n - 1) * M + i = j
  <1> DEFINE q == (j - 1) \div M
             r == (j - 1) % M
  <1>1. q \in Nat /\ r \in 0..(M - 1) /\ j - 1 = M * q + r
    OBVIOUS
  <1> HIDE DEF q, r
  <1>2. q + 1 - 1 = q /\ q * M = M * q /\ q * M \in Nat
    BY <1>1
  <1> DEFINE n == q + 1
             i == r + 1
  <1>3. n \in Nat \ {0} /\ i \in 1..M /\ n - 1 = q
    BY <1>1
  <1>4. q * M + i = j
    BY <1>1, <1>2
  <1> HIDE DEF n, i
  <1> QED BY <1>2, <1>3, <1>4

LEMMA ChunkAt ==
    ASSUME NEW b \in Seq(Items), LoadSize \in Nat \ {0}, NEW n \in Nat \ {0},
           (n - 1) * LoadSize \in Nat, (n - 1) * LoadSize < Len(b), n * LoadSize = (n - 1) * LoadSize + LoadSize
    PROVE  LET k == SubSeq(b, (n - 1) * LoadSize + 1,
                           IF n * LoadSize < Len(b) THEN n * LoadSize ELSE Len(b))
           IN  /\ k \in Seq(Items) /\ Len(k) \in 1..LoadSize
               /\ \A i \in 1..Len(k) : (n - 1) * LoadSize + i \in 1..Len(b)
                                       /\ k[i] = b[(n - 1) * LoadSize + i]
               /\ \A i \in 1..LoadSize : (n - 1) * LoadSize + i \in 1..Len(b) => i \in 1..Len(k)
  <1> DEFINE at == (n - 1) * LoadSize
             to == IF n * LoadSize < Len(b) THEN n * LoadSize ELSE Len(b)
             k == SubSeq(b, at + 1, to)
  <1>1. at \in Nat /\ Len(b) \in Nat /\ to \in Nat /\ at + 1 <= to /\ to <= Len(b) /\ to <= at + LoadSize
        /\ (to = Len(b) \/ to = at + LoadSize)
    OBVIOUS
  <1> HIDE DEF at, to
  <1>2. /\ k \in Seq(Items) /\ Len(k) = to - at
        /\ \A i \in 1..Len(k) : k[i] = b[at + i]
    <2>1. k = [i \in 1..(to - at) |-> b[at + i]]
      BY <1>1
    <2>2. \A i \in 1..(to - at) : b[at + i] \in Items
      <3> SUFFICES ASSUME NEW i \in 1..(to - at) PROVE b[at + i] \in Items
        OBVIOUS
      <3>1. at + i \in 1..Len(b)
        BY <1>1
      <3> QED BY <3>1
    <2>3. [i \in 1..(to - at) |-> b[at + i]] \in [1..(to - at) -> Items] /\ to - at \in Nat
      BY <1>1, <2>2
    <2> HIDE DEF k
    <2>4. k \in [1..(to - at) -> Items]
      BY <2>1, <2>3
    <2>5. k \in Seq(Items) /\ Len(k) = to - at
      BY <2>3, <2>4
    <2>6. \A i \in 1..(to - at) : k[i] = b[at + i]
      BY <2>1
    <2> QED BY <2>5, <2>6
  <1> HIDE DEF k
  <1>3. to - at \in 1..LoadSize
    BY <1>1
  <1>4. \A i \in 1..(to - at) : at + i \in 1..Len(b)
    BY <1>1
  <1>5. \A i \in 1..LoadSize : at + i \in 1..Len(b) => i \in 1..(to - at)
    BY <1>1
  <1>6. /\ k \in Seq(Items) /\ Len(k) \in 1..LoadSize
        /\ \A i \in 1..Len(k) : at + i \in 1..Len(b) /\ k[i] = b[at + i]
        /\ \A i \in 1..LoadSize : at + i \in 1..Len(b) => i \in 1..Len(k)
    BY <1>2, <1>3, <1>4, <1>5
  <1> QED BY <1>6 DEF k, at, to

LEMMA ChunksAreOk ==
    ASSUME NEW b \in Seq(Items), LoadSize \in Nat \ {0}
    PROVE  ChunksOk(Loader!chunkItems(b), b)
  <1> DEFINE N == (Len(b) + LoadSize - 1) \div LoadSize
             ks == Loader!chunkItems(b)
  <1>1. N \in Nat /\ N * LoadSize \in Nat /\ N * LoadSize <= Len(b) + LoadSize - 1 /\ Len(b) <= N * LoadSize
    <2>1. Len(b) \in Nat
      OBVIOUS
    <2> QED BY <2>1, ChunkCount
  <1>2. ks = [n \in 1..N |-> SubSeq(b, (n - 1) * LoadSize + 1,
                                    IF n * LoadSize < Len(b) THEN n * LoadSize ELSE Len(b))]
    BY DEF Loader!chunkItems
  <1> HIDE DEF N, ks
  <1>3. ASSUME NEW n \in 1..N
        PROVE  /\ (n - 1) * LoadSize \in Nat /\ (n - 1) * LoadSize < Len(b)
               /\ n * LoadSize = (n - 1) * LoadSize + LoadSize
    <2> DEFINE m == n - 1
    <2>1. m \in Nat /\ m < N /\ n = m + 1
      BY <1>1
    <2> HIDE DEF m
    <2>2. m * LoadSize \in Nat /\ m * LoadSize + LoadSize <= N * LoadSize
      BY <1>1, <2>1, Multiples
    <2>3. n * LoadSize = m * LoadSize + LoadSize
      BY <2>1
    <2>4. m * LoadSize < Len(b)
      BY <1>1, <2>2
    <2> QED BY <2>2, <2>3, <2>4 DEF m
  <1>4. ASSUME NEW n \in 1..N
        PROVE  /\ ks[n] \in Seq(Items) /\ Len(ks[n]) \in 1..LoadSize
               /\ \A i \in 1..Len(ks[n]) : (n - 1) * LoadSize + i \in 1..Len(b)
                                           /\ ks[n][i] = b[(n - 1) * LoadSize + i]
               /\ \A i \in 1..LoadSize : (n - 1) * LoadSize + i \in 1..Len(b) => i \in 1..Len(ks[n])
    <2>1. ks[n] = SubSeq(b, (n - 1) * LoadSize + 1,
                         IF n * LoadSize < Len(b) THEN n * LoadSize ELSE Len(b))
      BY <1>2
    <2>2. n \in Nat \ {0}
      BY <1>1
    <2> DEFINE k == SubSeq(b, (n - 1) * LoadSize + 1,
                           IF n * LoadSize < Len(b) THEN n * LoadSize ELSE Len(b))
    <2>3. /\ k \in Seq(Items) /\ Len(k) \in 1..LoadSize
          /\ \A i \in 1..Len(k) : (n - 1) * LoadSize + i \in 1..Len(b)
                                  /\ k[i] = b[(n - 1) * LoadSize + i]
          /\ \A i \in 1..LoadSize : (n - 1) * LoadSize + i \in 1..Len(b) => i \in 1..Len(k)
      BY <1>3, <2>2, ChunkAt
    <2>4. ks[n] = k
      BY <2>1
    <2> HIDE DEF k
    <2> QED BY <2>3, <2>4
  <1>5. ks \in [1..N -> Seq(Items)]
    BY <1>2, <1>4
  <1>6. ks \in Seq(Seq(Items)) /\ Len(ks) = N
    BY <1>1, <1>5
  <1>7. ASSUME NEW j \in 1..Len(b)
        PROVE  \E n \in 1..N : \E i \in 1..Len(ks[n]) : ks[n][i] = b[j]
    <2>1. PICK n \in Nat \ {0}, i \in 1..LoadSize :
              (n - 1) * LoadSize \in Nat /\ (n - 1) * LoadSize + i = j
      <3>1. j \in Nat \ {0}
        OBVIOUS
      <3> QED BY <3>1, ChunkOf
    <2>2. n \in 1..N
      <3> SUFFICES ASSUME N < n
                   PROVE  FALSE
        BY <1>1
      <3>1. CASE N = n - 1
        BY <1>1, <2>1, <3>1
      <3>2. CASE N < n - 1
        <4>1. N * LoadSize + LoadSize <= (n - 1) * LoadSize
          BY <1>1, <2>1, <3>2, Multiples
        <4> QED BY <1>1, <2>1, <4>1
      <3> QED BY <1>1, <2>1, <3>1, <3>2
    <2>3. i \in 1..Len(ks[n]) /\ ks[n][i] = b[j]
      BY <1>4, <2>1, <2>2
    <2> QED BY <2>2, <2>3
  <1> QED BY <1>4, <1>6, <1>7 DEF ChunksOk, ks

\* No place is in two chunks.
LEMMA ChunksApart ==
    ASSUME LoadSize \in Nat \ {0}, NEW m \in Nat \ {0}, NEW n \in Nat \ {0},
           NEW i \in 1..LoadSize, NEW j \in 1..LoadSize,
           (m - 1) * LoadSize + i = (n - 1) * LoadSize + j
    PROVE  m = n /\ i = j
  <1> DEFINE u == m - 1
             v == n - 1
  <1>1. u \in Nat /\ v \in Nat /\ u * LoadSize + i = v * LoadSize + j
    OBVIOUS
  <1> HIDE DEF u, v
  <1>2. u * LoadSize \in Nat /\ v * LoadSize \in Nat
    BY <1>1
  <1>3. ~(u < v)
    <2> SUFFICES ASSUME u < v PROVE FALSE
      OBVIOUS
    <2>1. u * LoadSize + LoadSize <= v * LoadSize
      BY <1>1, Multiples
    <2> QED BY <1>1, <1>2, <2>1
  <1>4. ~(v < u)
    <2> SUFFICES ASSUME v < u PROVE FALSE
      OBVIOUS
    <2>1. v * LoadSize + LoadSize <= u * LoadSize
      BY <1>1, Multiples
    <2> QED BY <1>1, <1>2, <2>1
  <1>5. u = v
    BY <1>1, <1>3, <1>4
  <1>6. i = j
    BY <1>1, <1>2, <1>5
  <1> QED BY <1>5, <1>6 DEF u, v


\* What a flush hands to loadMany at a time: every entry has waiters of its own, and an id
\* is in it once, unless there is an entry per waiter.
ChunkOk(k) ==
    /\ k \in Seq(Items) /\ Len(k) \in 1..LoadSize
    /\ \A j \in 1..Len(k) : EntryOk(k[j])
    /\ \A i, j \in 1..Len(k) : \A c \in Loader!Waiters(k, i) : c \in Loader!Waiters(k, j) => i = j
    /\ ~LoadDistinct => \A i, j \in 1..Len(k) : k[i].id = k[j].id => i = j

\* The chunks of a flush hold the waiters of the queue, each once and under its id.
FlushOk(ks, p) ==
    /\ ks \in Seq(Seq(Items))
    /\ \A n \in 1..Len(ks) : ChunkOk(ks[n])
    /\ \A n \in 1..Len(ks) : \A j \in 1..Len(ks[n]) : \E m \in 1..Len(p) :
          ks[n][j].id = p[m].id /\ Loader!Waiters(ks[n], j) \subseteq Loader!Waiters(p, m)
    /\ \A m \in 1..Len(p) : \A c \in Loader!Waiters(p, m) :
          \E n \in 1..Len(ks) : \E j \in 1..Len(ks[n]) : c \in Loader!Waiters(ks[n], j)
    /\ \A m, n \in 1..Len(ks) : \A i \in 1..Len(ks[m]), j \in 1..Len(ks[n]) :
          \A c \in Loader!Waiters(ks[m], i) : c \in Loader!Waiters(ks[n], j) => m = n

LEMMA FlushIsOk ==
    ASSUME NEW p, NEW b, BatchOk(b, p), NEW ks, ChunksOk(ks, b), LoadSize \in Nat \ {0}
    PROVE  FlushOk(ks, p)
  <1> DEFINE at(n, i) == (n - 1) * LoadSize + i
  <1>1. b \in Seq(Items) /\ ks \in Seq(Seq(Items)) /\ Len(ks) \in Nat /\ Len(b) \in Nat
    BY DEF BatchOk, ChunksOk
  <1>2. ASSUME NEW n \in 1..Len(ks), NEW i \in 1..Len(ks[n])
        PROVE  /\ at(n, i) \in 1..Len(b) /\ ks[n][i] = b[at(n, i)]
               /\ Loader!Waiters(ks[n], i) = Loader!Waiters(b, at(n, i))
               /\ n \in Nat \ {0} /\ i \in 1..LoadSize
    <2>1. at(n, i) \in 1..Len(b) /\ ks[n][i] = b[at(n, i)]
      BY DEF ChunksOk
    <2>2. Len(ks[n]) \in 1..LoadSize
      BY DEF ChunksOk
    <2>3. n \in Nat \ {0} /\ i \in 1..LoadSize
      BY <1>1, <2>2
    <2> HIDE DEF at
    <2>4. ks[n][i].waiters = b[at(n, i)].waiters
      BY <2>1
    <2> QED BY <2>1, <2>3, <2>4, SameWaiters
  <1>3. ASSUME NEW m \in 1..Len(ks), NEW i \in 1..Len(ks[m]),
               NEW n \in 1..Len(ks), NEW j \in 1..Len(ks[n]), at(m, i) = at(n, j)
        PROVE  m = n /\ i = j
    <2>1. m \in Nat \ {0} /\ n \in Nat \ {0} /\ i \in 1..LoadSize /\ j \in 1..LoadSize
      BY <1>2
    <2>2. (m - 1) * LoadSize + i = (n - 1) * LoadSize + j
      BY <1>3
    <2> QED BY <2>1, <2>2, ChunksApart
  <1> HIDE DEF at
  <1>4. ASSUME NEW m \in 1..Len(ks), NEW i \in 1..Len(ks[m]),
               NEW n \in 1..Len(ks), NEW j \in 1..Len(ks[n]),
               NEW c \in Loader!Waiters(ks[m], i), c \in Loader!Waiters(ks[n], j)
        PROVE  m = n /\ i = j
    <2>1. at(m, i) = at(n, j)
      BY <1>2, <1>4 DEF BatchOk
    <2> QED BY <1>3, <2>1
  <1>5. ASSUME NEW n \in 1..Len(ks)
        PROVE  ChunkOk(ks[n])
    <2>1. ks[n] \in Seq(Items) /\ Len(ks[n]) \in 1..LoadSize
      BY <1>1 DEF ChunksOk
    <2>2. \A j \in 1..Len(ks[n]) : EntryOk(ks[n][j])
      BY <1>2 DEF BatchOk
    <2>3. ~LoadDistinct => \A i, j \in 1..Len(ks[n]) : ks[n][i].id = ks[n][j].id => i = j
      <3> SUFFICES ASSUME ~LoadDistinct, NEW i \in 1..Len(ks[n]), NEW j \in 1..Len(ks[n]),
                          ks[n][i].id = ks[n][j].id
                   PROVE  i = j
        OBVIOUS
      <3>1. b[at(n, i)].id = b[at(n, j)].id /\ at(n, i) \in 1..Len(b) /\ at(n, j) \in 1..Len(b)
        BY <1>2
      <3>2. at(n, i) = at(n, j)
        BY <3>1 DEF BatchOk
      <3> QED BY <1>3, <3>2
    <2> QED BY <1>4, <2>1, <2>2, <2>3 DEF ChunkOk
  <1>6. ASSUME NEW n \in 1..Len(ks), NEW j \in 1..Len(ks[n])
        PROVE  \E m \in 1..Len(p) :
                  ks[n][j].id = p[m].id /\ Loader!Waiters(ks[n], j) \subseteq Loader!Waiters(p, m)
    <2>1. PICK m \in 1..Len(p) : /\ b[at(n, j)].id = p[m].id
                                 /\ Loader!Waiters(b, at(n, j)) \subseteq Loader!Waiters(p, m)
      <3>1. at(n, j) \in 1..Len(b)
        BY <1>2
      <3> QED BY <3>1 DEF BatchOk
    <2>2. ks[n][j].id = b[at(n, j)].id
      BY <1>2
    <2> QED BY <1>2, <2>1, <2>2
  <1>7. ASSUME NEW m \in 1..Len(p), NEW c \in Loader!Waiters(p, m)
        PROVE  \E n \in 1..Len(ks) : \E j \in 1..Len(ks[n]) : c \in Loader!Waiters(ks[n], j)
    <2>1. PICK i \in 1..Len(b) : c \in Loader!Waiters(b, i)
      BY DEF BatchOk
    <2>2. PICK n \in 1..Len(ks) : \E j \in 1..Len(ks[n]) : ks[n][j] = b[i]
      BY DEF ChunksOk
    <2>3. PICK j \in 1..Len(ks[n]) : ks[n][j] = b[i]
      BY <2>2
    <2>4. ks[n][j].waiters = b[i].waiters
      BY <2>3
    <2>5. Loader!Waiters(ks[n], j) = Loader!Waiters(b, i)
      BY <2>4, SameWaiters
    <2> QED BY <2>1, <2>5
  <1> QED BY <1>1, <1>4, <1>5, <1>6, <1>7 DEF FlushOk

LEMMA Flushes ==
    ASSUME QueueOk(asked), LoadDistinct \in BOOLEAN, LoadSize \in Nat \ {0}
    PROVE  FlushOk(Loader!chunkItems(Loader!Batch(asked)), asked)
  <1>1. BatchOk(Loader!Batch(asked), asked)
    BY BatchIsOk
  <1>2. Loader!Batch(asked) \in Seq(Items)
    BY <1>1 DEF BatchOk
  <1>3. ChunksOk(Loader!chunkItems(Loader!Batch(asked)), Loader!Batch(asked))
    BY <1>2, ChunksAreOk
  <1> QED BY <1>1, <1>3, FlushIsOk


-----------------------------------------------------------------------------
\* Caller c waits under id i in k, a queue or a chunk.
AsksFor(k, c, i) == \E j \in 1..Len(k) : c \in Loader!Waiters(k, j) /\ k[j].id = i
Asks(k, c) == \E i : AsksFor(k, c, i)

WaitsFor(c, i) == c \in LoadCallers /\ loads[c].st = "waiting" /\ loads[c].id = i
AllWaitIn(k) == \A c, i : AsksFor(k, c, i) => WaitsFor(c, i)

Holds(f, n, c) == n \in 1..Len(f.chunks) /\ Asks(f.chunks[n], c)

\* The rows read for a chunk: of its ids, and after the calls of their waiters.
Rows == [id : LoadIds, version : Nat]
ReadFor(v, k) ==
    /\ Len(v) = Len(k)
    /\ \A j \in 1..Len(k) : /\ v[j].id = k[j].id
                            /\ \A c \in Loader!Waiters(k, j) : v[j].version >= loads[c].since

Flights == [chunks : Seq(Seq(Items)), values : Seq(Rows)]

\* A flush under way has chunks left; no caller waits in two of them.
FlightOk(f) ==
    /\ f \in Flights /\ Len(f.chunks) > 0
    /\ \A n \in 1..Len(f.chunks) : ChunkOk(f.chunks[n]) /\ AllWaitIn(f.chunks[n])
    /\ f.values = << >> \/ ReadFor(f.values, f.chunks[1])
    /\ \A m, n, c : Holds(f, m, c) /\ Holds(f, n, c) => m = n

CallsOk ==
    /\ loads = [c \in LoadCallers |-> loads[c]]
    /\ rowVersions \in [LoadIds -> Nat]
    /\ \A c \in LoadCallers : loads[c].st = "waiting" =>
          /\ loads[c].id \in LoadIds /\ loads[c].since \in Nat
          /\ loads[c].since <= rowVersions[loads[c].id]

ApartOk ==
    /\ \A f, g \in batches : \A m, n, c : Holds(f, m, c) /\ Holds(g, n, c) => f = g
    /\ \A f \in batches : \A n, c : Holds(f, n, c) => ~Asks(asked, c)

NoneLost ==
    \A c \in LoadCallers : loads[c].st = "waiting" =>
        Asks(asked, c) \/ \E f \in batches : \E n : Holds(f, n, c)

\* A waiting caller is in the queue or in one chunk of one flush, under the id it asked
\* for; what was read for it is not older than its call.
LoaderInv ==
    /\ CallsOk
    /\ QueueOk(asked) /\ AllWaitIn(asked)
    /\ \A f \in batches : FlightOk(f)
    /\ ApartOk /\ NoneLost
    /\ Loader!OwnFreshValue

LEMMA EmptyQueue == QueueOk(<< >>) /\ \A c, i : ~AsksFor(<< >>, c, i)
  BY DEF QueueOk, AsksFor

LEMMA LoaderStarts ==
    ASSUME Loader!Init
    PROVE  LoaderInv
  <1>1. /\ asked = << >> /\ batches = {} /\ rowVersions = [i \in LoadIds |-> 0]
        /\ loads = [c \in LoadCallers |-> [st |-> "idle"]]
    BY DEF Loader!Init
  <1>2. CallsOk
    BY <1>1 DEF CallsOk
  <1>3. QueueOk(asked) /\ AllWaitIn(asked)
    BY <1>1, EmptyQueue DEF AllWaitIn
  <1>4. ApartOk /\ NoneLost /\ Loader!OwnFreshValue
    BY <1>1 DEF ApartOk, NoneLost, Loader!OwnFreshValue
  <1> QED BY <1>1, <1>2, <1>3, <1>4 DEF LoaderInv

\* A flush none of whose waiters the step answers stays as it is.
LEMMA FlightKept ==
    ASSUME NEW f, FlightOk(f), \A n, c : Holds(f, n, c) => loads'[c] = loads[c]
    PROVE  FlightOk(f)'
  <1>1. ASSUME NEW n \in 1..Len(f.chunks), NEW c, NEW i, AsksFor(f.chunks[n], c, i)
        PROVE  WaitsFor(c, i)'
    <2>1. Holds(f, n, c)
      BY <1>1 DEF Holds, Asks
    <2>2. WaitsFor(c, i)
      BY <1>1 DEF FlightOk, AllWaitIn
    <2> QED BY <2>1, <2>2 DEF WaitsFor
  <1>2. ASSUME NEW j \in 1..Len(f.chunks[1]), NEW c \in Loader!Waiters(f.chunks[1], j)
        PROVE  loads'[c] = loads[c]
    <2>1. AsksFor(f.chunks[1], c, f.chunks[1][j].id)
      BY DEF AsksFor
    <2>2. 1 \in 1..Len(f.chunks)
      <3>1. Len(f.chunks) \in Nat /\ Len(f.chunks) > 0
        BY DEF FlightOk, Flights
      <3> QED BY <3>1
    <2>3. Holds(f, 1, c)
      BY <2>1, <2>2 DEF Holds, Asks
    <2> QED BY <2>3
  <1>3. ReadFor(f.values, f.chunks[1]) => ReadFor(f.values, f.chunks[1])'
    BY <1>2 DEF ReadFor
  <1>4. \A n \in 1..Len(f.chunks) : ChunkOk(f.chunks[n]) /\ AllWaitIn(f.chunks[n])'
    BY <1>1 DEF FlightOk, AllWaitIn
  <1> QED BY <1>3, <1>4 DEF FlightOk

\* Answers already given stay.
LEMMA AnswersKept ==
    ASSUME Loader!OwnFreshValue,
           \A c \in LoadCallers : loads'[c].st = "resolved" =>
               \/ loads'[c] = loads[c]
               \/ loads'[c].got.id = loads'[c].id /\ loads'[c].got.version >= loads'[c].since
    PROVE  Loader!OwnFreshValue'
  BY DEF Loader!OwnFreshValue

\* A write of the store.
LEMMA LoaderWriteStep ==
    ASSUME LoaderInv, NEW i \in LoadIds, Loader!StoreWrite(i)
    PROVE  LoaderInv'
  <1>1. /\ rowVersions' = [rowVersions EXCEPT ![i] = @ + 1]
        /\ asked' = asked /\ batches' = batches /\ loads' = loads
    BY DEF Loader!StoreWrite
  <1>2. CallsOk'
    <2>1. rowVersions' \in [LoadIds -> Nat] /\ \A j \in LoadIds : rowVersions'[j] \in Nat /\ rowVersions[j] \in Nat /\ rowVersions'[j] >= rowVersions[j]
      BY <1>1 DEF LoaderInv, CallsOk
    <2>2. \A c \in LoadCallers : loads[c].st = "waiting" =>
             /\ loads[c].id \in LoadIds /\ loads[c].since \in Nat
             /\ loads[c].since <= rowVersions[loads[c].id]
      BY DEF LoaderInv, CallsOk
    <2>3. \A c \in LoadCallers : loads[c].st = "waiting" => loads[c].since <= rowVersions'[loads[c].id]
      BY <2>1, <2>2
    <2> QED BY <1>1, <2>1, <2>2, <2>3 DEF LoaderInv, CallsOk
  <1>3. \A f \in batches : FlightOk(f)'
    BY <1>1, FlightKept DEF LoaderInv
  <1>4. AllWaitIn(asked)'
    BY <1>1 DEF LoaderInv, AllWaitIn, WaitsFor
  <1>5. ApartOk' /\ NoneLost' /\ Loader!OwnFreshValue'
    BY <1>1, AnswersKept DEF LoaderInv, ApartOk, NoneLost
  <1> QED BY <1>1, <1>2, <1>3, <1>4, <1>5 DEF LoaderInv


\* An item of the queue with one more waiter.
Joined(x, c) == [x EXCEPT !.waiters = Append(@, c)]

LEMMA JoinedOk ==
    ASSUME NEW x \in Items, NEW c \in LoadCallers
    PROVE  /\ Joined(x, c) \in Items /\ Joined(x, c).id = x.id
           /\ Joined(x, c).waiters \in Seq(LoadCallers)
           /\ x.waiters \in Seq(LoadCallers) /\ Len(x.waiters) \in Nat
           /\ Len(Joined(x, c).waiters) = Len(x.waiters) + 1
           /\ \A w \in 1..Len(x.waiters) : Joined(x, c).waiters[w] = x.waiters[w]
           /\ Joined(x, c).waiters[Len(x.waiters) + 1] = c
  <1>1. x = [id |-> x.id, waiters |-> x.waiters] /\ x.id \in LoadIds /\ x.waiters \in Seq(LoadCallers)
    BY DEF Items
  <1> DEFINE ws == Append(x.waiters, c)
  <1>2. /\ ws \in Seq(LoadCallers) /\ Len(x.waiters) \in Nat /\ Len(ws) = Len(x.waiters) + 1
        /\ \A w \in 1..Len(x.waiters) : ws[w] = x.waiters[w]
        /\ ws[Len(x.waiters) + 1] = c
    BY <1>1
  <1>3. Joined(x, c) = [id |-> x.id, waiters |-> ws]
    BY <1>1 DEF Joined
  <1> HIDE DEF ws
  <1>4. [id |-> x.id, waiters |-> ws] \in Items
    BY <1>1, <1>2 DEF Items
  <1> QED BY <1>1, <1>2, <1>3, <1>4

\* A queue p with caller c, who is not in it, under id i: what waits in it.
JoinsAs(q, p, c, i) ==
    /\ QueueOk(q)
    /\ \A d, k : AsksFor(q, d, k) <=> AsksFor(p, d, k) \/ (d = c /\ k = i)

\* No item is of the id: one is added.
LEMMA EnqueueNew ==
    ASSUME NEW p, QueueOk(p), NEW c \in LoadCallers, ~Asks(p, c), NEW i \in LoadIds,
           \A n \in 1..Len(p) : p[n].id # i
    PROVE  JoinsAs(Append(p, [id |-> i, waiters |-> <<c>>]), p, c, i)
  <1> DEFINE x == [id |-> i, waiters |-> <<c>>]
             q == Append(p, x)
  <1>1. p \in Seq(Items) /\ Len(p) \in Nat
    BY DEF QueueOk
  <1>2. x \in Items /\ x.id = i /\ x.waiters = <<c>> /\ Len(x.waiters) = 1
    <2>1. <<c>> \in Seq(LoadCallers)
      OBVIOUS
    <2> QED BY <2>1 DEF Items
  <1> HIDE DEF x
  <1>3. q \in Seq(Items) /\ Len(q) = Len(p) + 1 /\ q[Len(p) + 1] = x /\ \A n \in 1..Len(p) : q[n] = p[n]
    BY <1>1, <1>2
  <1> HIDE DEF q
  <1>4. \A n \in 1..Len(q) : n \in 1..Len(p) \/ n = Len(p) + 1
    BY <1>1, <1>3
  <1>5. 1..Len(p) \subseteq 1..Len(q) /\ Len(p) + 1 \in 1..Len(q) /\ ~(Len(p) + 1 \in 1..Len(p))
    BY <1>1, <1>3
  <1>6. \A n \in 1..Len(p) : Loader!Waiters(q, n) = Loader!Waiters(p, n) /\ q[n].id = p[n].id
    BY <1>3, SameWaiters
  <1>7. Loader!Waiters(q, Len(p) + 1) = {c} /\ q[Len(p) + 1].id = i
    <2>1. q[Len(p) + 1].waiters = <<c>>
      BY <1>2, <1>3
    <2> QED BY <1>2, <1>3, <2>1, OneWaiter
  <1>8. \A d, k : AsksFor(q, d, k) <=> AsksFor(p, d, k) \/ (d = c /\ k = i)
    BY <1>4, <1>5, <1>6, <1>7 DEF AsksFor
  <1>9. \A m, n \in 1..Len(q) : q[m].id = q[n].id => m = n
    <2>1. \A m, n \in 1..Len(p) : p[m].id = p[n].id => m = n
      BY DEF QueueOk
    <2> QED BY <1>4, <1>6, <1>7, <2>1
  <1>10. \A n \in 1..Len(q) : Len(q[n].waiters) > 0
    <2>1. \A n \in 1..Len(p) : Len(p[n].waiters) > 0 /\ q[n] = p[n]
      BY <1>3 DEF QueueOk
    <2>2. Len(q[Len(p) + 1].waiters) = 1
      BY <1>2, <1>3
    <2> SUFFICES ASSUME NEW n \in 1..Len(q) PROVE Len(q[n].waiters) > 0
      OBVIOUS
    <2>3. CASE n \in 1..Len(p)
      <3>1. q[n].waiters = p[n].waiters
        BY <2>1, <2>3
      <3> QED BY <2>1, <2>3, <3>1
    <2>4. CASE n = Len(p) + 1
      <3>1. Len(q[n].waiters) = 1
        BY <2>2, <2>4
      <3> QED BY <3>1
    <2> QED BY <1>4, <2>3, <2>4
  <1>11. \A m \in 1..Len(p) : \A v \in 1..Len(p[m].waiters) : p[m].waiters[v] # c
    <2>1. \A m \in 1..Len(p) : ~(c \in Loader!Waiters(p, m))
      BY DEF Asks, AsksFor
    <2> QED BY <1>1, <2>1, WaitersAt
  <1>12. ASSUME NEW m \in 1..Len(q), NEW n \in 1..Len(q),
                NEW v \in 1..Len(q[m].waiters), NEW w \in 1..Len(q[n].waiters),
                q[m].waiters[v] = q[n].waiters[w]
         PROVE  m = n /\ v = w
    <2>1. CASE m \in 1..Len(p) /\ n \in 1..Len(p)
      <3>1. q[m] = p[m] /\ q[n] = p[n]
        BY <1>3, <2>1
      <3>2. v \in 1..Len(p[m].waiters) /\ w \in 1..Len(p[n].waiters) /\ p[m].waiters[v] = p[n].waiters[w]
        BY <1>12, <3>1
      <3> QED BY <2>1, <3>2 DEF QueueOk
    <2>2. CASE m \in 1..Len(p) /\ n = Len(p) + 1
      <3>1. q[n].waiters[w] = c
        BY <1>2, <1>3, <2>2
      <3> QED BY <1>3, <1>11, <1>12, <2>2, <3>1
    <2>3. CASE m = Len(p) + 1 /\ n \in 1..Len(p)
      <3>1. q[m].waiters[v] = c
        BY <1>2, <1>3, <2>3
      <3> QED BY <1>3, <1>11, <1>12, <2>3, <3>1
    <2>4. CASE m = Len(p) + 1 /\ n = Len(p) + 1
      <3>1. q[m].waiters = <<c>> /\ q[n].waiters = <<c>>
        BY <1>2, <1>3, <2>4
      <3>2. Len(<<c>>) = 1
        OBVIOUS
      <3>3. v = 1 /\ w = 1
        BY <3>1, <3>2
      <3> QED BY <2>4, <3>3
    <2> QED BY <1>4, <2>1, <2>2, <2>3, <2>4
  <1>13. QueueOk(q)
    BY <1>3, <1>9, <1>10, <1>12 DEF QueueOk
  <1>14. JoinsAs(q, p, c, i)
    BY <1>8, <1>13 DEF JoinsAs
  <1> QED BY <1>14 DEF q, x

\* The item of the id gets one more waiter.
LEMMA EnqueueJoined ==
    ASSUME NEW p, QueueOk(p), NEW c \in LoadCallers, ~Asks(p, c), NEW i \in LoadIds,
           NEW a \in 1..Len(p), p[a].id = i, NEW q,
           q = [n \in 1..Len(p) |-> IF p[n].id = i THEN Joined(p[n], c) ELSE p[n]]
    PROVE  JoinsAs(q, p, c, i)
  <1>1. p \in Seq(Items) /\ Len(p) \in Nat /\ \A n \in 1..Len(p) : p[n] \in Items
    BY DEF QueueOk
  <1>2. \A n \in 1..Len(p) : p[n].id = i <=> n = a
    BY DEF QueueOk
  <1>3. \A n \in 1..Len(p) : q[n] = IF n = a THEN Joined(p[a], c) ELSE p[n]
    BY <1>2
  <1>4. q \in [1..Len(p) -> Items]
    BY <1>1, JoinedOk
  <1>5. q \in Seq(Items) /\ Len(q) = Len(p)
    BY <1>1, <1>4
  <1> DEFINE L == Len(p[a].waiters)
  <1>6. /\ L \in Nat /\ Len(q[a].waiters) = L + 1
        /\ \A w \in 1..L : q[a].waiters[w] = p[a].waiters[w]
        /\ q[a].waiters[L + 1] = c /\ q[a].id = i
    BY <1>1, <1>3, JoinedOk
  <1> HIDE DEF L
  <1>7. \A n \in 1..Len(p) : n # a => q[n] = p[n]
    BY <1>3
  <1>8. \A n \in 1..Len(p) : q[n].id = p[n].id
    BY <1>6, <1>7
  <1>9. \A m \in 1..Len(p) : \A v \in 1..Len(p[m].waiters) : p[m].waiters[v] # c
    <2>1. \A m \in 1..Len(p) : ~(c \in Loader!Waiters(p, m))
      BY DEF Asks, AsksFor
    <2> QED BY <1>1, <2>1, WaitersAt
  <1>10. Loader!Waiters(q, a) = Loader!Waiters(p, a) \cup {c}
    <2>1. Loader!Waiters(q, a) = {q[a].waiters[w] : w \in 1..(L + 1)}
      BY <1>5, <1>6, WaitersAt
    <2>2. Loader!Waiters(p, a) = {p[a].waiters[w] : w \in 1..L}
      BY <1>1, WaitersAt DEF L
    <2>3. \A w \in 1..(L + 1) : w \in 1..L \/ w = L + 1
      BY <1>6
    <2>4. 1..L \subseteq 1..(L + 1) /\ L + 1 \in 1..(L + 1)
      BY <1>6
    <2>5. \A d \in Loader!Waiters(q, a) : d \in Loader!Waiters(p, a) \cup {c}
      BY <1>6, <2>1, <2>2, <2>3
    <2>6. c \in Loader!Waiters(q, a)
      BY <1>6, <2>1, <2>4
    <2>7. \A d \in Loader!Waiters(p, a) : d \in Loader!Waiters(q, a)
      <3> SUFFICES ASSUME NEW w \in 1..L PROVE p[a].waiters[w] \in Loader!Waiters(q, a)
        BY <2>2
      <3>1. p[a].waiters[w] = q[a].waiters[w] /\ w \in 1..(L + 1)
        BY <1>6, <2>4
      <3> QED BY <2>1, <3>1
    <2> QED BY <2>5, <2>6, <2>7
  <1>11. \A n \in 1..Len(p) : n # a => Loader!Waiters(q, n) = Loader!Waiters(p, n)
    BY <1>7, SameWaiters
  <1>12. \A d, k : AsksFor(q, d, k) <=> AsksFor(p, d, k) \/ (d = c /\ k = i)
    BY <1>5, <1>8, <1>10, <1>11 DEF AsksFor
  <1>13. \A m, n \in 1..Len(q) : q[m].id = q[n].id => m = n
    BY <1>5, <1>8 DEF QueueOk
  <1>14. \A n \in 1..Len(q) : Len(q[n].waiters) > 0
    BY <1>5, <1>6, <1>7 DEF QueueOk
  <1>15. ASSUME NEW n \in 1..Len(q), NEW w \in 1..Len(q[n].waiters)
         PROVE  \/ n = a /\ w = L + 1 /\ q[n].waiters[w] = c
                \/ w \in 1..Len(p[n].waiters) /\ q[n].waiters[w] = p[n].waiters[w] /\ q[n].waiters[w] # c
    <2>1. CASE n = a
      <3>1. w \in 1..L \/ w = L + 1
        BY <1>6, <2>1
      <3> QED BY <1>5, <1>6, <1>9, <2>1, <3>1 DEF L
    <2>2. CASE n # a
      BY <1>5, <1>7, <1>9, <2>2
    <2> QED BY <2>1, <2>2
  <1>16. ASSUME NEW m \in 1..Len(q), NEW n \in 1..Len(q),
                NEW v \in 1..Len(q[m].waiters), NEW w \in 1..Len(q[n].waiters),
                q[m].waiters[v] = q[n].waiters[w]
         PROVE  m = n /\ v = w
    <2>1. CASE q[m].waiters[v] = c
      <3>1. n = a /\ w = L + 1
        BY <1>15, <1>16, <2>1
      <3>2. m = a /\ v = L + 1
        BY <1>15, <1>16, <2>1
      <3> QED BY <3>1, <3>2
    <2>2. CASE q[m].waiters[v] # c
      <3>1. /\ v \in 1..Len(p[m].waiters) /\ w \in 1..Len(p[n].waiters)
            /\ p[m].waiters[v] = p[n].waiters[w]
        BY <1>15, <1>16, <2>2
      <3> QED BY <1>5, <3>1 DEF QueueOk
    <2> QED BY <2>1, <2>2
  <1>17. QueueOk(q)
    BY <1>5, <1>13, <1>14, <1>16 DEF QueueOk
  <1> QED BY <1>12, <1>17 DEF JoinsAs

LEMMA Enqueues ==
    ASSUME QueueOk(asked), NEW c \in LoadCallers, ~Asks(asked, c), NEW i \in LoadIds
    PROVE  JoinsAs(Loader!Enqueue(c, i), asked, c, i)
  <1>1. asked \in Seq(Items) /\ DOMAIN asked = 1..Len(asked)
    BY DEF QueueOk
  <1>2. Loader!Queued(i) = {n \in 1..Len(asked) : asked[n].id = i}
    BY <1>1 DEF Loader!Queued
  <1>3. CASE Loader!Queued(i) = {}
    <2>1. Loader!Enqueue(c, i) = Append(asked, [id |-> i, waiters |-> <<c>>])
      BY <1>3 DEF Loader!Enqueue, Loader!Item
    <2>2. \A n \in 1..Len(asked) : asked[n].id # i
      BY <1>2, <1>3
    <2> QED BY <2>1, <2>2, EnqueueNew
  <1>4. CASE Loader!Queued(i) # {}
    <2>1. PICK a \in 1..Len(asked) : asked[a].id = i
      BY <1>2, <1>4
    <2>2. Loader!Enqueue(c, i) = [n \in 1..Len(asked) |->
              IF n \in Loader!Queued(i) THEN [asked[n] EXCEPT !.waiters = Append(@, c)] ELSE asked[n]]
      BY <1>1, <1>4 DEF Loader!Enqueue
    <2>3. \A n \in 1..Len(asked) : n \in Loader!Queued(i) <=> asked[n].id = i
      BY <1>2
    <2>4. Loader!Enqueue(c, i) = [n \in 1..Len(asked) |->
              IF asked[n].id = i THEN Joined(asked[n], c) ELSE asked[n]]
      BY <2>2, <2>3 DEF Joined
    <2> QED BY <2>1, <2>4, EnqueueJoined
  <1> QED BY <1>3, <1>4


\* A caller calls load.
LEMMA LoadStep ==
    ASSUME LoaderInv, NEW c \in LoadCallers, NEW i \in LoadIds, Loader!Load(c, i)
    PROVE  LoaderInv'
  <1>1. /\ loads[c].st = "idle" /\ asked' = Loader!Enqueue(c, i)
        /\ loads' = [loads EXCEPT ![c] = [st |-> "waiting", id |-> i, since |-> rowVersions[i]]]
        /\ batches' = batches /\ rowVersions' = rowVersions
    BY DEF Loader!Load
  <1>2. CallsOk /\ AllWaitIn(asked) /\ ApartOk /\ NoneLost /\ QueueOk(asked) /\ \A f \in batches : FlightOk(f)
    BY DEF LoaderInv
  <1>3. /\ loads'[c] = [st |-> "waiting", id |-> i, since |-> rowVersions[i]]
        /\ \A d \in LoadCallers : d # c => loads'[d] = loads[d]
        /\ loads' = [d \in LoadCallers |-> loads'[d]]
    BY <1>1, <1>2 DEF CallsOk
  <1>4. \A k : ~WaitsFor(c, k)
    BY <1>1 DEF WaitsFor
  <1>5. ~Asks(asked, c)
    BY <1>2, <1>4 DEF AllWaitIn, Asks
  <1>6. ASSUME NEW f \in batches, NEW n, NEW d, Holds(f, n, d)
        PROVE  d \in LoadCallers /\ d # c
    <2>1. PICK k : WaitsFor(d, k)
      BY <1>2, <1>6 DEF Holds, Asks, FlightOk, AllWaitIn
    <2> QED BY <1>4, <2>1 DEF WaitsFor
  <1>7. JoinsAs(asked', asked, c, i)
    BY <1>1, <1>2, <1>5, Enqueues
  <1>8. \A f \in batches : FlightOk(f)'
    BY <1>2, <1>3, <1>6, FlightKept
  <1>9. AllWaitIn(asked)' /\ QueueOk(asked)'
    <2>1. ASSUME NEW d, NEW k, AsksFor(asked', d, k)
          PROVE  WaitsFor(d, k)'
      <3>1. CASE d = c /\ k = i
        BY <1>3, <3>1 DEF WaitsFor
      <3>2. CASE AsksFor(asked, d, k)
        <4>1. WaitsFor(d, k) /\ d # c
          BY <1>2, <1>4, <3>2 DEF AllWaitIn
        <4> QED BY <1>3, <4>1 DEF WaitsFor
      <3> QED BY <1>7, <2>1, <3>1, <3>2 DEF JoinsAs
    <2> QED BY <1>7, <2>1 DEF AllWaitIn, JoinsAs
  <1>10. \A d : Asks(asked', d) <=> Asks(asked, d) \/ d = c
    BY <1>7 DEF Asks, JoinsAs
  <1>11. CallsOk'
    <2>1. rowVersions[i] \in Nat
      BY <1>2 DEF CallsOk
    <2> QED BY <1>1, <1>2, <1>3, <2>1 DEF CallsOk
  <1>12. ApartOk'
    BY <1>1, <1>2, <1>6, <1>10 DEF ApartOk
  <1>13. NoneLost'
    BY <1>1, <1>2, <1>3, <1>10 DEF NoneLost
  <1>14. Loader!OwnFreshValue'
    BY <1>3, AnswersKept DEF LoaderInv
  <1> QED BY <1>1, <1>8, <1>9, <1>11, <1>12, <1>13, <1>14 DEF LoaderInv

LEMMA FlushAsks ==
    ASSUME NEW ks, NEW p, FlushOk(ks, p)
    PROVE  /\ \A n \in 1..Len(ks) : \A c, i : AsksFor(ks[n], c, i) => AsksFor(p, c, i)
           /\ \A c : Asks(p, c) => \E n \in 1..Len(ks) : Asks(ks[n], c)
           /\ \A m, n \in 1..Len(ks) : \A c : Asks(ks[m], c) /\ Asks(ks[n], c) => m = n
  <1>1. \A n \in 1..Len(ks) : \A c, i : AsksFor(ks[n], c, i) => AsksFor(p, c, i)
    <2> SUFFICES ASSUME NEW n \in 1..Len(ks), NEW c, NEW i, AsksFor(ks[n], c, i)
                 PROVE  AsksFor(p, c, i)
      OBVIOUS
    <2>1. PICK j \in 1..Len(ks[n]) : c \in Loader!Waiters(ks[n], j) /\ ks[n][j].id = i
      BY DEF AsksFor
    <2>2. PICK m \in 1..Len(p) :
              ks[n][j].id = p[m].id /\ Loader!Waiters(ks[n], j) \subseteq Loader!Waiters(p, m)
      BY DEF FlushOk
    <2> QED BY <2>1, <2>2 DEF AsksFor
  <1>2. \A c : Asks(p, c) => \E n \in 1..Len(ks) : Asks(ks[n], c)
    <2> SUFFICES ASSUME NEW c, NEW m \in 1..Len(p), c \in Loader!Waiters(p, m)
                 PROVE  \E n \in 1..Len(ks) : Asks(ks[n], c)
      BY DEF Asks, AsksFor
    <2>1. PICK n \in 1..Len(ks) : \E j \in 1..Len(ks[n]) : c \in Loader!Waiters(ks[n], j)
      BY DEF FlushOk
    <2> QED BY <2>1 DEF Asks, AsksFor
  <1>3. \A m, n \in 1..Len(ks) : \A c : Asks(ks[m], c) /\ Asks(ks[n], c) => m = n
    BY DEF FlushOk, Asks, AsksFor
  <1> QED BY <1>1, <1>2, <1>3

\* The microtask of a flush.
LEMMA FlushStep ==
    ASSUME LoaderInv, Loader!Flush, LoadSize \in Nat \ {0}, LoadDistinct \in BOOLEAN
    PROVE  LoaderInv'
  <1> DEFINE ks == Loader!chunkItems(Loader!Batch(asked))
             g == [chunks |-> ks, values |-> << >>]
  <1>1. /\ asked' = << >> /\ loads' = loads /\ rowVersions' = rowVersions
        /\ batches' = batches \cup (IF ks = << >> THEN {} ELSE {g})
    BY DEF Loader!Flush
  <1>2. CallsOk /\ AllWaitIn(asked) /\ ApartOk /\ NoneLost /\ QueueOk(asked) /\ \A f \in batches : FlightOk(f)
    BY DEF LoaderInv
  <1>3. FlushOk(ks, asked)
    BY <1>2, Flushes
  <1>4. g.chunks = ks /\ g.values = << >>
    OBVIOUS
  <1> HIDE DEF ks, g
  <1>5. ks \in Seq(Seq(Items)) /\ Len(ks) \in Nat
    BY <1>3 DEF FlushOk
  <1>6. \A n, c : Holds(g, n, c) <=> n \in 1..Len(ks) /\ Asks(ks[n], c)
    BY <1>4 DEF Holds
  <1>7. /\ \A n, c : Holds(g, n, c) => Asks(asked, c)
        /\ \A c : Asks(asked, c) => \E n : Holds(g, n, c)
        /\ \A m, n, c : Holds(g, m, c) /\ Holds(g, n, c) => m = n
    <2>1. /\ \A n \in 1..Len(ks) : \A c, i : AsksFor(ks[n], c, i) => AsksFor(asked, c, i)
          /\ \A c : Asks(asked, c) => \E n \in 1..Len(ks) : Asks(ks[n], c)
          /\ \A m, n \in 1..Len(ks) : \A c : Asks(ks[m], c) /\ Asks(ks[n], c) => m = n
      BY <1>3, FlushAsks
    <2>2. \A n \in 1..Len(ks) : \A c : Asks(ks[n], c) => Asks(asked, c)
      BY <2>1 DEF Asks
    <2> QED BY <1>6, <2>1, <2>2
  <1>8. ks # << >> => FlightOk(g)
    <2> SUFFICES ASSUME ks # << >> PROVE FlightOk(g)
      OBVIOUS
    <2>1. g \in Flights /\ Len(g.chunks) > 0
      <3>1. g \in Flights
        BY <1>5 DEF Flights, g
      <3>2. Len(ks) # 0
        BY <1>5
      <3> QED BY <1>4, <1>5, <3>1, <3>2
    <2>2. \A n \in 1..Len(ks) : ChunkOk(ks[n])
      BY <1>3 DEF FlushOk
    <2>3. \A n \in 1..Len(ks) : AllWaitIn(ks[n])
      BY <1>2, <1>3, FlushAsks DEF AllWaitIn
    <2> QED BY <1>4, <1>7, <2>1, <2>2, <2>3 DEF FlightOk
  <1>9. \A f \in batches' : f \in batches \/ (f = g /\ ks # << >>)
    BY <1>1
  <1>10. \A f \in batches' : FlightOk(f)'
    <2> SUFFICES ASSUME NEW f \in batches' PROVE FlightOk(f)'
      OBVIOUS
    <2>1. FlightOk(f)
      BY <1>2, <1>8, <1>9
    <2> QED BY <1>1, <2>1, FlightKept
  <1>11. QueueOk(asked)' /\ AllWaitIn(asked)' /\ \A c : ~Asks(asked', c)
    BY <1>1, EmptyQueue DEF AllWaitIn, Asks
  <1>12. ApartOk'
    <2>1. ASSUME NEW f \in batches', NEW h \in batches', NEW m, NEW n, NEW c, Holds(f, m, c), Holds(h, n, c)
          PROVE  f = h
      BY <1>2, <1>7, <1>9, <2>1 DEF ApartOk
    <2> QED BY <1>11, <2>1 DEF ApartOk
  <1>13. NoneLost'
    <2> SUFFICES ASSUME NEW c \in LoadCallers, loads[c].st = "waiting"
                 PROVE  \E f \in batches' : \E n : Holds(f, n, c)
      BY <1>1 DEF NoneLost
    <2>1. CASE Asks(asked, c)
      <3>1. PICK n : Holds(g, n, c)
        BY <1>7, <2>1
      <3>2. ks # << >>
        BY <1>5, <1>6, <3>1
      <3>3. g \in batches'
        BY <1>1, <3>2
      <3> QED BY <3>1, <3>3
    <2>2. CASE \E f \in batches : \E n : Holds(f, n, c)
      BY <1>1, <2>2
    <2> QED BY <1>2, <2>1, <2>2 DEF NoneLost
  <1>14. CallsOk' /\ Loader!OwnFreshValue'
    BY <1>1, <1>2, AnswersKept DEF LoaderInv, CallsOk
  <1> QED BY <1>10, <1>11, <1>12, <1>13, <1>14 DEF LoaderInv


LEMMA ChunkWaiters ==
    ASSUME NEW k, k \in Seq(Items)
    PROVE  /\ DOMAIN k = 1..Len(k) /\ Len(k) \in Nat
           /\ \A c : c \in Loader!InChunk(k) <=> Asks(k, c)
           /\ \A c : Asks(k, c) <=> \E j \in 1..Len(k) : c \in Loader!Waiters(k, j)
  <1>1. DOMAIN k = 1..Len(k) /\ Len(k) \in Nat
    OBVIOUS
  <1>2. \A c : Asks(k, c) <=> \E j \in 1..Len(k) : c \in Loader!Waiters(k, j)
    BY DEF Asks, AsksFor
  <1>3. \A c : c \in Loader!InChunk(k) <=> \E j \in 1..Len(k) : c \in Loader!Waiters(k, j)
    BY <1>1 DEF Loader!InChunk
  <1> QED BY <1>1, <1>2, <1>3

\* The first chunk of a flush under way.
LEMMA FirstChunk ==
    ASSUME LoaderInv, NEW f \in batches
    PROVE  /\ FlightOk(f) /\ f \in Flights /\ Len(f.chunks) \in Nat /\ 1 \in 1..Len(f.chunks)
           /\ f.chunks[1] \in Seq(Items) /\ ChunkOk(f.chunks[1]) /\ AllWaitIn(f.chunks[1])
           /\ Len(f.chunks[1]) \in Nat /\ Len(f.chunks[1]) > 0
           /\ \A j \in 1..Len(f.chunks[1]) : f.chunks[1][j].id \in LoadIds
           /\ \A c : c \in Loader!InChunk(f.chunks[1]) <=> Holds(f, 1, c)
  <1>1. FlightOk(f) /\ f \in Flights /\ Len(f.chunks) > 0
    BY DEF LoaderInv, FlightOk
  <1>2. f.chunks \in Seq(Seq(Items)) /\ Len(f.chunks) \in Nat
    BY <1>1 DEF Flights
  <1>3. 1 \in 1..Len(f.chunks)
    BY <1>1, <1>2
  <1>4. ChunkOk(f.chunks[1]) /\ AllWaitIn(f.chunks[1])
    BY <1>1, <1>3 DEF FlightOk
  <1>5. f.chunks[1] \in Seq(Items) /\ Len(f.chunks[1]) \in 1..LoadSize
    BY <1>4 DEF ChunkOk
  <1>6. Len(f.chunks[1]) \in Nat /\ Len(f.chunks[1]) > 0
    BY <1>5
  <1>7. \A j \in 1..Len(f.chunks[1]) : f.chunks[1][j].id \in LoadIds
    BY <1>5, WaitersAt
  <1>8. \A c : c \in Loader!InChunk(f.chunks[1]) <=> Holds(f, 1, c)
    BY <1>3, <1>5, ChunkWaiters DEF Holds
  <1> QED BY <1>1, <1>2, <1>3, <1>4, <1>5, <1>6, <1>7, <1>8

\* A flush in the place of another that holds no more callers.
LEMMA ApartKept ==
    ASSUME ApartOk, NEW f \in batches, NEW R,
           batches' = (batches \ {f}) \cup R, asked' = asked,
           \A g \in R : \A n, c : Holds(g, n, c) => \E m : Holds(f, m, c),
           \A g, h \in R : g = h
    PROVE  ApartOk'
  <1>1. ASSUME NEW g \in batches', NEW h \in batches', NEW m, NEW n, NEW c, Holds(g, m, c), Holds(h, n, c)
        PROVE  g = h
    <2>1. CASE g \in R /\ h \in R
      BY <2>1
    <2>2. CASE g \in R /\ h \in batches \ {f}
      <3>1. PICK l : Holds(f, l, c)
        BY <1>1, <2>2
      <3> QED BY <1>1, <2>2, <3>1 DEF ApartOk
    <2>3. CASE h \in R /\ g \in batches \ {f}
      <3>1. PICK l : Holds(f, l, c)
        BY <1>1, <2>3
      <3> QED BY <1>1, <2>3, <3>1 DEF ApartOk
    <2>4. CASE g \in batches \ {f} /\ h \in batches \ {f}
      BY <1>1, <2>4 DEF ApartOk
    <2> QED BY <2>1, <2>2, <2>3, <2>4
  <1>2. ASSUME NEW g \in batches', NEW n, NEW c, Holds(g, n, c)
        PROVE  ~Asks(asked, c)
    <2>1. CASE g \in R
      <3>1. PICK l : Holds(f, l, c)
        BY <1>2, <2>1
      <3> QED BY <3>1 DEF ApartOk
    <2>2. CASE g \in batches
      BY <1>2, <2>2 DEF ApartOk
    <2> QED BY <2>1, <2>2
  <1> QED BY <1>1, <1>2 DEF ApartOk

\* The rows of the first chunk are read.
LEMMA ReadChunkStep ==
    ASSUME LoaderInv, NEW f \in batches, Loader!ReadChunk(f)
    PROVE  LoaderInv'
  <1> DEFINE k == f.chunks[1]
             v == [n \in DOMAIN k |-> [id |-> k[n].id, version |-> rowVersions[k[n].id]]]
             g == [f EXCEPT !.values = v]
  <1>1. /\ batches' = (batches \ {f}) \cup {g}
        /\ asked' = asked /\ loads' = loads /\ rowVersions' = rowVersions
    BY DEF Loader!ReadChunk
  <1>2. /\ FlightOk(f) /\ f \in Flights /\ 1 \in 1..Len(f.chunks)
        /\ k \in Seq(Items) /\ AllWaitIn(k) /\ DOMAIN k = 1..Len(k) /\ Len(k) \in Nat
        /\ \A j \in 1..Len(k) : k[j].id \in LoadIds
    BY FirstChunk
  <1>3. CallsOk /\ AllWaitIn(asked) /\ ApartOk /\ NoneLost /\ QueueOk(asked) /\ \A h \in batches : FlightOk(h)
    BY DEF LoaderInv
  <1>4. f = [chunks |-> f.chunks, values |-> f.values] /\ f.chunks \in Seq(Seq(Items))
    BY <1>2 DEF Flights
  <1>5. g = [chunks |-> f.chunks, values |-> v] /\ g.chunks = f.chunks /\ g.values = v
    <2> HIDE DEF v
    <2>1. g = [chunks |-> f.chunks, values |-> v]
      BY <1>4
    <2> QED BY <2>1
  <1>6. \A n \in 1..Len(k) : v[n] = [id |-> k[n].id, version |-> rowVersions[k[n].id]]
    BY <1>2
  <1>7. \A n \in 1..Len(k) : v[n] \in Rows /\ v[n].id = k[n].id /\ v[n].version = rowVersions[k[n].id]
    BY <1>2, <1>3, <1>6 DEF Rows, CallsOk
  <1>8. v \in [1..Len(k) -> Rows]
    BY <1>2, <1>7
  <1> HIDE DEF k, v, g
  <1>9. v \in Seq(Rows) /\ Len(v) = Len(k)
    BY <1>2, <1>8
  <1>10. ReadFor(v, k)
    <2> SUFFICES ASSUME NEW j \in 1..Len(k), NEW c \in Loader!Waiters(k, j)
                 PROVE  v[j].version >= loads[c].since
      BY <1>7, <1>9 DEF ReadFor
    <2>1. WaitsFor(c, k[j].id)
      BY <1>2 DEF AllWaitIn, AsksFor
    <2>2. loads[c].since \in Nat /\ loads[c].since <= rowVersions[k[j].id] /\ rowVersions[k[j].id] \in Nat
      BY <1>2, <1>3, <2>1 DEF WaitsFor, CallsOk
    <2> QED BY <1>7, <2>2
  <1>11. \A n, c : Holds(g, n, c) <=> Holds(f, n, c)
    BY <1>5 DEF Holds
  <1>12. FlightOk(g)
    <2>1. g \in Flights
      BY <1>4, <1>5, <1>9 DEF Flights
    <2>2. ReadFor(g.values, g.chunks[1])
      BY <1>5, <1>10 DEF k
    <2>3. /\ Len(g.chunks) > 0
          /\ \A n \in 1..Len(g.chunks) : ChunkOk(g.chunks[n]) /\ AllWaitIn(g.chunks[n])
      BY <1>2, <1>5 DEF FlightOk
    <2>4. \A m, n, c : Holds(g, m, c) /\ Holds(g, n, c) => m = n
      BY <1>2, <1>11 DEF FlightOk
    <2> QED BY <2>1, <2>2, <2>3, <2>4 DEF FlightOk
  <1>13. \A h \in batches' : FlightOk(h)'
    <2> SUFFICES ASSUME NEW h \in batches' PROVE FlightOk(h)'
      OBVIOUS
    <2>1. FlightOk(h)
      BY <1>1, <1>3, <1>12
    <2> QED BY <1>1, <2>1, FlightKept
  <1>14. ApartOk'
    <2> DEFINE R == {g}
    <2>1. \A h \in R : \A n, c : Holds(h, n, c) => \E m : Holds(f, m, c)
      BY <1>11
    <2>2. \A h, l \in R : h = l
      OBVIOUS
    <2>3. batches' = (batches \ {f}) \cup R
      BY <1>1
    <2> HIDE DEF R
    <2> QED BY <1>1, <1>3, <2>1, <2>2, <2>3, ApartKept
  <1>15. NoneLost'
    <2> SUFFICES ASSUME NEW c \in LoadCallers, NEW h \in batches, NEW n, Holds(h, n, c)
                 PROVE  \E l \in batches' : \E m : Holds(l, m, c)
      BY <1>1, <1>3 DEF NoneLost
    <2>1. CASE h = f
      <3>1. Holds(g, n, c)
        BY <1>11, <2>1
      <3> QED BY <1>1, <3>1
    <2>2. CASE h # f
      BY <1>1, <2>2
    <2> QED BY <2>1, <2>2
  <1>16. CallsOk' /\ AllWaitIn(asked)' /\ Loader!OwnFreshValue'
    BY <1>1, <1>3, AnswersKept DEF LoaderInv, CallsOk, AllWaitIn, WaitsFor
  <1> QED BY <1>1, <1>3, <1>13, <1>14, <1>15, <1>16 DEF LoaderInv


\* What is left of a flush after its first chunk.
LEMMA RestOk ==
    ASSUME LoaderInv, NEW f \in batches, NEW g \in Loader!Rest(f)
    PROVE  /\ FlightOk(g)
           /\ \A n, c : Holds(g, n, c) => n + 1 \in 2..Len(f.chunks) /\ Holds(f, n + 1, c)
  <1>1. FlightOk(f) /\ f \in Flights /\ Len(f.chunks) \in Nat /\ 1 \in 1..Len(f.chunks)
    BY FirstChunk
  <1>2. g = [chunks |-> Tail(f.chunks), values |-> << >>] /\ Len(f.chunks) # 1
    BY DEF Loader!Rest
  <1>3. f.chunks \in Seq(Seq(Items))
    BY <1>1 DEF Flights
  <1>4. /\ Tail(f.chunks) \in Seq(Seq(Items)) /\ Len(Tail(f.chunks)) = Len(f.chunks) - 1
        /\ \A n \in 1..(Len(f.chunks) - 1) : Tail(f.chunks)[n] = f.chunks[n + 1]
    BY <1>1, <1>3
  <1>5. g.chunks = Tail(f.chunks) /\ g.values = << >>
    BY <1>2
  <1>6. /\ Len(g.chunks) = Len(f.chunks) - 1 /\ Len(g.chunks) > 0
        /\ \A n \in 1..Len(g.chunks) : /\ n \in Nat /\ n + 1 \in 2..Len(f.chunks)
                                       /\ n + 1 \in 1..Len(f.chunks) /\ g.chunks[n] = f.chunks[n + 1]
    <2>1. Len(g.chunks) = Len(f.chunks) - 1
      BY <1>4, <1>5
    <2>2. Len(f.chunks) - 1 > 0
      <3> DEFINE l == Len(f.chunks)
      <3>1. l \in Nat /\ 1 \in 1..l /\ l # 1
        BY <1>1, <1>2
      <3> HIDE DEF l
      <3>2. l - 1 > 0
        BY <3>1
      <3> QED BY <3>2 DEF l
    <2>3. \A n \in 1..(Len(f.chunks) - 1) : n \in Nat /\ n + 1 \in 2..Len(f.chunks) /\ n + 1 \in 1..Len(f.chunks)
      BY <1>1
    <2>4. \A n \in 1..(Len(f.chunks) - 1) : g.chunks[n] = f.chunks[n + 1]
      BY <1>4, <1>5
    <2> QED BY <2>1, <2>2, <2>3, <2>4
  <1>7. \A n, c : Holds(g, n, c) => n \in 1..Len(g.chunks) /\ n + 1 \in 2..Len(f.chunks) /\ Holds(f, n + 1, c)
    BY <1>6 DEF Holds
  <1>8. g \in Flights
    BY <1>2, <1>4 DEF Flights
  <1>9. \A n \in 1..Len(g.chunks) : ChunkOk(g.chunks[n]) /\ AllWaitIn(g.chunks[n])
    BY <1>1, <1>6 DEF FlightOk
  <1>10. \A m, n, c : Holds(g, m, c) /\ Holds(g, n, c) => m = n
    <2> SUFFICES ASSUME NEW m, NEW n, NEW c, Holds(g, m, c), Holds(g, n, c)
                 PROVE  m = n
      OBVIOUS
    <2>1. m + 1 = n + 1
      BY <1>1, <1>7 DEF FlightOk
    <2>2. m \in Nat /\ n \in Nat
      BY <1>6, <1>7
    <2> QED BY <2>1, <2>2
  <1> QED BY <1>5, <1>6, <1>7, <1>8, <1>9, <1>10 DEF FlightOk

\* Every caller of the first chunk is answered, and no other caller.
LEMMA SettleStep ==
    ASSUME LoaderInv, NEW f \in batches,
           batches' = (batches \ {f}) \cup Loader!Rest(f),
           loads' = [c \in LoadCallers |-> loads'[c]],
           \A c \in LoadCallers : IF c \in Loader!InChunk(f.chunks[1])
                                  THEN loads'[c].st # "waiting" ELSE loads'[c] = loads[c],
           Loader!OwnFreshValue',
           asked' = asked, rowVersions' = rowVersions
    PROVE  LoaderInv'
  <1> DEFINE R == Loader!Rest(f)
  <1>1. /\ \A c : c \in Loader!InChunk(f.chunks[1]) <=> Holds(f, 1, c)
        /\ FlightOk(f) /\ Len(f.chunks) \in Nat /\ 1 \in 1..Len(f.chunks)
    BY FirstChunk
  <1>2. CallsOk /\ AllWaitIn(asked) /\ ApartOk /\ NoneLost /\ QueueOk(asked) /\ \A h \in batches : FlightOk(h)
    BY DEF LoaderInv
  <1>3. \A g \in R : /\ FlightOk(g)
                     /\ \A n, c : Holds(g, n, c) => n + 1 \in 2..Len(f.chunks) /\ Holds(f, n + 1, c)
    BY RestOk
  <1>4. \A g, h \in R : g = h
    BY DEF Loader!Rest
  <1>5. batches' = (batches \ {f}) \cup R
    OBVIOUS
  <1>6. \A n \in 1..Len(f.chunks) : n # 1 =>
           \A c : Holds(f, n, c) => \E g \in R : \E m : Holds(g, m, c)
    <2> SUFFICES ASSUME NEW n \in 1..Len(f.chunks), n # 1, NEW c, Holds(f, n, c)
                 PROVE  \E g \in R : \E m : Holds(g, m, c)
      OBVIOUS
    <2> DEFINE g == [chunks |-> Tail(f.chunks), values |-> << >>]
               m == n - 1
    <2>1. g \in R
      BY <1>1 DEF Loader!Rest
    <2>2. g.chunks = Tail(f.chunks)
      OBVIOUS
    <2>3. f.chunks \in Seq(Seq(Items))
      BY <1>1 DEF FlightOk, Flights
    <2>4. m \in 1..Len(Tail(f.chunks)) /\ Tail(f.chunks)[m] = f.chunks[n]
      BY <1>1, <2>3
    <2> HIDE DEF g, m, R
    <2>5. Holds(g, m, c)
      BY <2>2, <2>4 DEF Holds
    <2> QED BY <2>1, <2>5
  <1> HIDE DEF R
  <1>7. \A h \in batches \ {f} : \A n, c : Holds(h, n, c) => ~Holds(f, 1, c)
    BY <1>2 DEF ApartOk
  <1>8. \A g \in R : \A n, c : Holds(g, n, c) => ~Holds(f, 1, c)
    <2> SUFFICES ASSUME NEW g \in R, NEW n, NEW c, Holds(g, n, c), Holds(f, 1, c)
                 PROVE  FALSE
      OBVIOUS
    <2>1. n + 1 \in 2..Len(f.chunks) /\ Holds(f, n + 1, c)
      BY <1>3
    <2>2. n + 1 = 1
      BY <1>1, <2>1 DEF FlightOk
    <2> QED BY <2>1, <2>2
  <1>9. \A h : FlightOk(h) => \A n, c : Holds(h, n, c) => c \in LoadCallers
    BY DEF FlightOk, Holds, Asks, AllWaitIn, WaitsFor
  <1>10. \A h \in batches' : FlightOk(h)'
    <2> SUFFICES ASSUME NEW h \in batches' PROVE FlightOk(h)'
      OBVIOUS
    <2>1. FlightOk(h)
      BY <1>2, <1>3, <1>5
    <2>2. \A n, c : Holds(h, n, c) => ~Holds(f, 1, c)
      BY <1>5, <1>7, <1>8
    <2>3. \A n, c : Holds(h, n, c) => loads'[c] = loads[c]
      BY <1>1, <1>9, <2>1, <2>2
    <2> QED BY <2>1, <2>3, FlightKept
  <1>11. ApartOk'
    <2>1. \A g \in R : \A n, c : Holds(g, n, c) => \E m : Holds(f, m, c)
      BY <1>3
    <2> QED BY <1>2, <1>4, <1>5, <2>1, ApartKept
  <1>12. AllWaitIn(asked)'
    <2> SUFFICES ASSUME NEW c, NEW i, AsksFor(asked, c, i)
                 PROVE  WaitsFor(c, i)'
      BY DEF AllWaitIn
    <2>1. WaitsFor(c, i)
      BY <1>2 DEF AllWaitIn
    <2>2. ~Holds(f, 1, c)
      BY <1>2 DEF ApartOk, Asks
    <2> QED BY <1>1, <2>1, <2>2 DEF WaitsFor
  <1>13. \A c \in LoadCallers : loads'[c].st = "waiting" => loads'[c] = loads[c] /\ ~Holds(f, 1, c)
    BY <1>1
  <1>14. CallsOk'
    BY <1>2, <1>13 DEF CallsOk
  <1>15. NoneLost'
    <2> SUFFICES ASSUME NEW c \in LoadCallers, loads'[c].st = "waiting"
                 PROVE  Asks(asked, c) \/ \E h \in batches' : \E n : Holds(h, n, c)
      BY DEF NoneLost
    <2>1. loads[c].st = "waiting" /\ ~Holds(f, 1, c)
      BY <1>13
    <2>2. ASSUME NEW h \in batches, NEW n, Holds(h, n, c)
          PROVE  \E l \in batches' : \E m : Holds(l, m, c)
      <3>1. CASE h = f
        <4>1. n \in 1..Len(f.chunks) /\ n # 1
          BY <2>1, <2>2, <3>1 DEF Holds
        <4>2. \E l \in R : \E m : Holds(l, m, c)
          BY <1>6, <2>2, <3>1, <4>1
        <4> QED BY <1>5, <4>2
      <3>2. CASE h # f
        BY <1>5, <2>2, <3>2
      <3> QED BY <3>1, <3>2
    <2> QED BY <1>2, <2>1, <2>2 DEF NoneLost
  <1> QED BY <1>2, <1>10, <1>11, <1>12, <1>14, <1>15 DEF LoaderInv

LEMMA RejectStep ==
    ASSUME LoaderInv, NEW f \in batches, Loader!Reject(f)
    PROVE  LoaderInv'
  <1>1. /\ batches' = (batches \ {f}) \cup Loader!Rest(f)
        /\ asked' = asked /\ rowVersions' = rowVersions
        /\ loads' = [c \in LoadCallers |-> IF c \in Loader!InChunk(f.chunks[1])
                                           THEN [st |-> "rejected"] ELSE loads[c]]
    BY DEF Loader!Reject
  <1>2. loads' = [c \in LoadCallers |-> loads'[c]]
    BY <1>1
  <1>3. \A c \in LoadCallers : loads'[c] = IF c \in Loader!InChunk(f.chunks[1])
                                           THEN [st |-> "rejected"] ELSE loads[c]
    BY <1>1
  <1>4. \A c \in LoadCallers : IF c \in Loader!InChunk(f.chunks[1])
                               THEN loads'[c].st # "waiting" /\ loads'[c].st # "resolved"
                               ELSE loads'[c] = loads[c]
    BY <1>3
  <1>5. Loader!OwnFreshValue'
    BY <1>4, AnswersKept DEF LoaderInv
  <1> QED BY <1>1, <1>2, <1>4, <1>5, SettleStep

LEMMA ResolveStep ==
    ASSUME LoaderInv, NEW f \in batches, Loader!Resolve(f)
    PROVE  LoaderInv'
  <1> DEFINE k == f.chunks[1]
  <1>1. /\ f.values # << >>
        /\ batches' = (batches \ {f}) \cup Loader!Rest(f)
        /\ asked' = asked /\ rowVersions' = rowVersions
        /\ loads' = [c \in LoadCallers |->
              IF c \in Loader!InChunk(k)
              THEN [st |-> "resolved", id |-> loads[c].id, since |-> loads[c].since,
                    got |-> Loader!Answer(f, c)]
              ELSE loads[c]]
    BY DEF Loader!Resolve
  <1>2. loads' = [c \in LoadCallers |-> loads'[c]]
    BY <1>1
  <1>3. \A c \in LoadCallers : loads'[c] =
              IF c \in Loader!InChunk(k)
              THEN [st |-> "resolved", id |-> loads[c].id, since |-> loads[c].since,
                    got |-> Loader!Answer(f, c)]
              ELSE loads[c]
    BY <1>1
  <1>4. /\ FlightOk(f) /\ k \in Seq(Items) /\ AllWaitIn(k)
    BY FirstChunk
  <1>5. ReadFor(f.values, k)
    BY <1>1, <1>4 DEF FlightOk
  <1> HIDE DEF k
  <1>6. ASSUME NEW c \in LoadCallers, c \in Loader!InChunk(k)
        PROVE  /\ loads'[c].st = "resolved" /\ loads'[c].got.id = loads'[c].id
               /\ loads'[c].got.version >= loads'[c].since
    <2> DEFINE j == Loader!ItemOf(k, c)
    <2>1. j \in 1..Len(k) /\ c \in Loader!Waiters(k, j)
      <3>1. DOMAIN k = 1..Len(k) /\ \E n \in 1..Len(k) : c \in Loader!Waiters(k, n)
        BY <1>4, <1>6, ChunkWaiters
      <3> QED BY <3>1 DEF Loader!ItemOf
    <2>2. Loader!Answer(f, c) = f.values[j]
      BY DEF Loader!Answer, k
    <2> HIDE DEF j
    <2>3. WaitsFor(c, k[j].id)
      BY <1>4, <2>1 DEF AllWaitIn, AsksFor
    <2>4. f.values[j].id = k[j].id /\ f.values[j].version >= loads[c].since
      BY <1>5, <2>1 DEF ReadFor
    <2>5. loads'[c] = [st |-> "resolved", id |-> loads[c].id, since |-> loads[c].since, got |-> f.values[j]]
      BY <1>3, <1>6, <2>2
    <2> QED BY <2>3, <2>4, <2>5 DEF WaitsFor
  <1>7. Loader!OwnFreshValue'
    BY <1>3, <1>6, AnswersKept DEF LoaderInv
  <1>8. \A c \in LoadCallers : IF c \in Loader!InChunk(k) THEN loads'[c].st # "waiting" ELSE loads'[c] = loads[c]
    BY <1>3, <1>6
  <1> QED BY <1>1, <1>2, <1>7, <1>8, SettleStep DEF k


LEMMA LoaderStep ==
    ASSUME LoaderInv, [Loader!Next]_(Loader!vars), LoadSize \in Nat \ {0}, LoadDistinct \in BOOLEAN
    PROVE  LoaderInv'
  <1>1. CASE UNCHANGED Loader!vars
    <2>1. asked' = asked /\ batches' = batches /\ loads' = loads /\ rowVersions' = rowVersions
      BY <1>1 DEF Loader!vars
    <2>2. \A f \in batches : FlightOk(f)'
      BY <2>1, FlightKept DEF LoaderInv
    <2>3. CallsOk' /\ AllWaitIn(asked)' /\ ApartOk' /\ NoneLost' /\ Loader!OwnFreshValue'
      BY <2>1, AnswersKept DEF LoaderInv, CallsOk, AllWaitIn, WaitsFor, ApartOk, NoneLost
    <2> QED BY <2>1, <2>2, <2>3 DEF LoaderInv
  <1>2. ASSUME NEW c \in LoadCallers, NEW i \in LoadIds, Loader!Load(c, i)
        PROVE  LoaderInv'
    BY <1>2, LoadStep
  <1>3. CASE Loader!Flush
    BY <1>3, FlushStep
  <1>4. ASSUME NEW f \in batches, Loader!ReadChunk(f)
        PROVE  LoaderInv'
    BY <1>4, ReadChunkStep
  <1>5. ASSUME NEW f \in batches, Loader!Resolve(f)
        PROVE  LoaderInv'
    BY <1>5, ResolveStep
  <1>6. ASSUME NEW f \in batches, Loader!Reject(f)
        PROVE  LoaderInv'
    BY <1>6, RejectStep
  <1>7. ASSUME NEW i \in LoadIds, Loader!StoreWrite(i)
        PROVE  LoaderInv'
    BY <1>7, LoaderWriteStep
  <1> QED BY <1>1, <1>2, <1>3, <1>4, <1>5, <1>6, <1>7 DEF Loader!Next, Loader!FlightSettles

\* The places of a caller in the queue.
LEMMA InQueueOnce ==
    ASSUME NEW p, QueueOk(p), NEW c
    PROVE  LET P == {n \in DOMAIN p : c \in Loader!Waiters(p, n)}
           IN  Cardinality(P) = IF Asks(p, c) THEN 1 ELSE 0
  <1> DEFINE P == {n \in DOMAIN p : c \in Loader!Waiters(p, n)}
  <1>1. p \in Seq(Items) /\ DOMAIN p = 1..Len(p)
    BY DEF QueueOk
  <1>2. Asks(p, c) <=> \E n \in 1..Len(p) : c \in Loader!Waiters(p, n)
    BY <1>1, ChunkWaiters
  <1>3. \A m, n \in P : m = n
    <2> SUFFICES ASSUME NEW m \in 1..Len(p), NEW n \in 1..Len(p),
                        c \in Loader!Waiters(p, m), c \in Loader!Waiters(p, n)
                 PROVE  m = n
      BY <1>1
    <2>1. PICK v \in 1..Len(p[m].waiters) : c = p[m].waiters[v]
      BY <1>1, WaitersAt
    <2>2. PICK w \in 1..Len(p[n].waiters) : c = p[n].waiters[w]
      BY <1>1, WaitersAt
    <2> QED BY <2>1, <2>2 DEF QueueOk
  <1>4. CASE Asks(p, c)
    <2>1. PICK n \in 1..Len(p) : c \in Loader!Waiters(p, n)
      BY <1>2, <1>4
    <2>2. n \in P
      BY <1>1, <2>1
    <2>3. P = {n}
      BY <1>3, <2>2
    <2> HIDE DEF P
    <2>4. Cardinality(P) = 1
      BY <2>3, FS_Singleton
    <2> QED BY <1>4, <2>4 DEF P
  <1>5. CASE ~Asks(p, c)
    <2>1. P = {}
      BY <1>1, <1>2, <1>5
    <2> HIDE DEF P
    <2>2. Cardinality(P) = 0
      BY <2>1, FS_EmptySet
    <2> QED BY <1>5, <2>2 DEF P
  <1> QED BY <1>4, <1>5

\* The chunks of the flushes under way.
LEMMA ChunkOfFlight ==
    ASSUME LoaderInv
    PROVE  \A k : k \in Loader!Chunks <=> \E f \in batches : \E n \in 1..Len(f.chunks) : k = f.chunks[n]
  <1>1. \A f \in batches : DOMAIN f.chunks = 1..Len(f.chunks)
    <2> SUFFICES ASSUME NEW f \in batches PROVE DOMAIN f.chunks = 1..Len(f.chunks)
      OBVIOUS
    <2>1. f.chunks \in Seq(Seq(Items))
      BY DEF LoaderInv, FlightOk, Flights
    <2> QED BY <2>1
  <1>2. \A f \in batches : \A k : k \in Loader!ToSet(f.chunks) <=> \E n \in 1..Len(f.chunks) : k = f.chunks[n]
    BY <1>1 DEF Loader!ToSet
  <1>3. \A k : k \in Loader!Chunks <=> \E f \in batches : k \in Loader!ToSet(f.chunks)
    BY DEF Loader!Chunks
  <1>4. ASSUME NEW k, k \in Loader!Chunks
        PROVE  \E f \in batches : \E n \in 1..Len(f.chunks) : k = f.chunks[n]
    <2>1. PICK f \in batches : k \in Loader!ToSet(f.chunks)
      BY <1>3, <1>4
    <2>2. \E n \in 1..Len(f.chunks) : k = f.chunks[n]
      BY <1>2, <2>1
    <2> QED BY <2>2
  <1>5. ASSUME NEW k, NEW f \in batches, NEW n \in 1..Len(f.chunks), k = f.chunks[n]
        PROVE  k \in Loader!Chunks
    <2>1. k \in Loader!ToSet(f.chunks)
      BY <1>2, <1>5
    <2> QED BY <1>3, <2>1
  <1> QED BY <1>4, <1>5

LEMMA InChunksOnce ==
    ASSUME LoaderInv, NEW c
    PROVE  LET K == {k \in Loader!Chunks : c \in Loader!InChunk(k)}
           IN  Cardinality(K) = IF \E f \in batches : \E n : Holds(f, n, c) THEN 1 ELSE 0
  <1> DEFINE K == {k \in Loader!Chunks : c \in Loader!InChunk(k)}
  <1>1. \A f \in batches : \A n \in 1..Len(f.chunks) :
           c \in Loader!InChunk(f.chunks[n]) <=> Holds(f, n, c)
    <2> SUFFICES ASSUME NEW f \in batches, NEW n \in 1..Len(f.chunks)
                 PROVE  c \in Loader!InChunk(f.chunks[n]) <=> Holds(f, n, c)
      OBVIOUS
    <2>1. f.chunks[n] \in Seq(Items)
      BY DEF LoaderInv, FlightOk, ChunkOk
    <2> QED BY <2>1, ChunkWaiters DEF Holds
  <1>2. \A k : k \in K <=> \E f \in batches : \E n : Holds(f, n, c) /\ k = f.chunks[n]
    <2>1. \A f, n : Holds(f, n, c) => n \in 1..Len(f.chunks)
      BY DEF Holds
    <2> QED BY <1>1, <2>1, ChunkOfFlight
  <1>3. \A k, l \in K : k = l
    <2> SUFFICES ASSUME NEW k \in K, NEW l \in K PROVE k = l
      OBVIOUS
    <2>1. PICK f \in batches : \E n : Holds(f, n, c) /\ k = f.chunks[n]
      BY <1>2
    <2>2. PICK m : Holds(f, m, c) /\ k = f.chunks[m]
      BY <2>1
    <2>3. PICK g \in batches : \E n : Holds(g, n, c) /\ l = g.chunks[n]
      BY <1>2
    <2>4. PICK n : Holds(g, n, c) /\ l = g.chunks[n]
      BY <2>3
    <2>5. f = g
      BY <2>2, <2>4 DEF LoaderInv, ApartOk
    <2>6. m = n
      BY <2>2, <2>4, <2>5 DEF LoaderInv, FlightOk
    <2> QED BY <2>2, <2>4, <2>5, <2>6
  <1> HIDE DEF K
  <1>4. CASE \E f \in batches : \E n : Holds(f, n, c)
    <2>1. PICK k : k \in K
      BY <1>2, <1>4
    <2>2. K = {k}
      BY <1>3, <2>1
    <2>3. Cardinality(K) = 1
      BY <2>2, FS_Singleton
    <2> QED BY <1>4, <2>3 DEF K
  <1>5. CASE ~\E f \in batches : \E n : Holds(f, n, c)
    <2>1. K = {}
      BY <1>2, <1>5
    <2>2. Cardinality(K) = 0
      BY <2>1, FS_EmptySet
    <2> QED BY <1>5, <2>2 DEF K
  <1> QED BY <1>4, <1>5

LEMMA SameCardinality == \A S : Loader!Cardinality(S) = Cardinality(S)
  BY DEF Loader!Cardinality, Cardinality

LEMMA HeldOnce ==
    ASSUME LoaderInv
    PROVE  Loader!EveryWaiterHeldOnce
  <1>1. ASSUME NEW c \in LoadCallers
        PROVE  Cardinality({n \in DOMAIN asked : c \in Loader!Waiters(asked, n)})
                 + Cardinality({k \in Loader!Chunks : c \in Loader!InChunk(k)})
                 = IF loads[c].st = "waiting" THEN 1 ELSE 0
    <2> DEFINE P == {n \in DOMAIN asked : c \in Loader!Waiters(asked, n)}
               K == {k \in Loader!Chunks : c \in Loader!InChunk(k)}
               Flying == \E f \in batches : \E n : Holds(f, n, c)
    <2>1. Cardinality(P) = IF Asks(asked, c) THEN 1 ELSE 0
      BY InQueueOnce DEF LoaderInv
    <2>2. Cardinality(K) = IF Flying THEN 1 ELSE 0
      BY InChunksOnce
    <2>3. Asks(asked, c) => loads[c].st = "waiting"
      BY DEF LoaderInv, AllWaitIn, Asks, WaitsFor
    <2>4. Flying => loads[c].st = "waiting" /\ ~Asks(asked, c)
      <3> SUFFICES ASSUME NEW f \in batches, NEW n, Holds(f, n, c)
                   PROVE  loads[c].st = "waiting" /\ ~Asks(asked, c)
        OBVIOUS
      <3>1. PICK i : AsksFor(f.chunks[n], c, i) /\ n \in 1..Len(f.chunks)
        BY DEF Holds, Asks
      <3>2. WaitsFor(c, i)
        BY <3>1 DEF LoaderInv, FlightOk, AllWaitIn
      <3> QED BY <3>2 DEF WaitsFor, LoaderInv, ApartOk
    <2>5. loads[c].st = "waiting" => Asks(asked, c) \/ Flying
      BY DEF LoaderInv, NoneLost
    <2> HIDE DEF P, K, Flying
    <2>6. Cardinality(P) + Cardinality(K) = IF loads[c].st = "waiting" THEN 1 ELSE 0
      <3>1. CASE Asks(asked, c)
        BY <2>1, <2>2, <2>3, <2>4, <3>1
      <3>2. CASE ~Asks(asked, c) /\ Flying
        BY <2>1, <2>2, <2>4, <3>2
      <3>3. CASE ~Asks(asked, c) /\ ~Flying
        BY <2>1, <2>2, <2>5, <3>3
      <3> QED BY <3>1, <3>2, <3>3
    <2> QED BY <2>6 DEF P, K
  <1>2. ASSUME NEW k \in Loader!Chunks
        PROVE  /\ Len(k) \in 1..LoadSize
               /\ LoadDistinct \/ Loader!IsInjective([n \in DOMAIN k |-> k[n].id])
               /\ LoadDistinct => \A n \in DOMAIN k : Cardinality(Loader!Waiters(k, n)) = 1
    <2>1. ChunkOk(k)
      BY ChunkOfFlight DEF LoaderInv, FlightOk
    <2>2. k \in Seq(Items) /\ Len(k) \in 1..LoadSize /\ DOMAIN k = 1..Len(k)
      BY <2>1 DEF ChunkOk
    <2>3. ~LoadDistinct => Loader!IsInjective([n \in DOMAIN k |-> k[n].id])
      BY <2>1, <2>2 DEF ChunkOk, Loader!IsInjective
    <2>4. ASSUME LoadDistinct, NEW n \in DOMAIN k
          PROVE  Cardinality(Loader!Waiters(k, n)) = 1
      <3>1. Len(k[n].waiters) = 1
        BY <2>1, <2>2, <2>4 DEF ChunkOk, EntryOk
      <3>2. Loader!Waiters(k, n) = {k[n].waiters[w] : w \in 1..Len(k[n].waiters)}
        BY <2>2, WaitersAt
      <3>3. Loader!Waiters(k, n) = {k[n].waiters[1]}
        BY <3>1, <3>2
      <3> QED BY <3>3, FS_Singleton
    <2> QED BY <2>2, <2>3, <2>4
  <1> QED BY <1>1, <1>2, SameCardinality DEF Loader!EveryWaiterHeldOnce

\* The batch loader keeps its invariant, whatever its callers, its ids and maxSize.
LEMMA LoaderHolds ==
    ASSUME Loader!BatchAssumption
    PROVE  Loader!Spec => []LoaderInv
  <1>1. LoadSize \in Nat \ {0} /\ LoadDistinct \in BOOLEAN
    BY DEF Loader!BatchAssumption
  <1>2. Loader!Init => LoaderInv
    BY LoaderStarts
  <1>3. LoaderInv /\ [Loader!Next]_(Loader!vars) => LoaderInv'
    BY <1>1, LoaderStep
  <1> QED BY <1>2, <1>3, PTL DEF Loader!Spec

(* Every waiting caller is in exactly one place, the queue or one chunk of one flush; no   *)
(* chunk asks loadMany for more than maxSize ids, nor for an id twice unless every waiter   *)
(* has an entry (flush, pendingBatches, chunkItems): for any number of callers.            *)
THEOREM WaitersAreHeldOnce ==
    ASSUME Loader!BatchAssumption
    PROVE  Loader!Spec => []Loader!EveryWaiterHeldOnce
  <1>1. LoaderInv => Loader!EveryWaiterHeldOnce
    BY HeldOnce
  <1> QED BY <1>1, LoaderHolds, PTL

(* A caller gets the row of the id it asked for, read after its call: none is answered from *)
(* a flush that was under way before (flush clears the queue before it awaits).             *)
THEOREM LoadsAreOwnAndFresh ==
    ASSUME Loader!BatchAssumption
    PROVE  Loader!Spec => []Loader!OwnFreshValue
  <1>1. LoaderInv => Loader!OwnFreshValue
    BY DEF LoaderInv
  <1> QED BY <1>1, LoaderHolds, PTL
=============================================================================
