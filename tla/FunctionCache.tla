----------------------------- MODULE FunctionCache -----------------------------
(* ActiveFunctionCache (src/src/core/function-cache.ts): a two-level cache in *)
(* front of a computed value.  get shares one computation between callers,    *)
(* get with refresh recomputes, set publishes a value, invalidate drops it.   *)
(* Every await is a step boundary: key resolution, hooks, the factory, and    *)
(* each call to the cache adapter, whose effect and whose answer are two      *)
(* steps.                                                                     *)
(*                                                                            *)
(* The source is a version counter per key; a computation yields the version  *)
(* it read.  A program changes the source and then invalidates, so once an    *)
(* invalidation is acknowledged no later call may be given an older version.  *)
(*   Mode = "memory"       local consistency, adapter calls take effect at once *)
(*   Mode = "remote"       local consistency, they take effect when they arrive *)
(*   Mode = "distributed"  versioned adapter shared by several processes        *)
EXTENDS Integers, Sequences, FiniteSets

CONSTANTS Keys, Procs, Calls,
          Ops,          \* which operations the calls perform
          Mode,
          EpochLimit,   \* FUNCTION_CACHE_INVALIDATION_EPOCH_LIMIT
          MaxSource,    \* bound: changes of a source
          MaxFaults     \* bound: failing hooks and adapter calls

CacheAssumption == /\ Mode \in {"memory", "remote", "distributed"}
                          /\ EpochLimit \in Nat \ {0}
                          /\ Ops \subseteq {"get", "refresh", "set", "inv"}

VARIABLES src,     \* the source, per key
          store,   \* the adapter: value (0: absent) and version (0: none)
          nextVer, \* fresh version tokens
          reg,     \* per process: epoch registry, oldest first, and its default
          mem,     \* per process and key: memory entry
          fail,    \* per process: keys with a failed invalidation
          pend,    \* per process and key: pending invalidations
          wq,      \* per process and key: functionCachePendingWrites
          call,    \* the calls
          acked,   \* per key: newest version some finished call promised
          faults

vars == <<src, store, nextVer, reg, mem, fail, pend, wq, call, acked, faults>>

NoEntry == [val |-> 0, inv |-> 0, pub |-> 0, stale |-> FALSE]
NoCall  == [op |-> "none", p |-> CHOOSE p \in Procs : TRUE, k |-> CHOOSE k \in Keys : TRUE,
            pc |-> "idle", e |-> 0, pub |-> 0, ver |-> 0, val |-> 0, floor |-> 0,
            fk |-> << >>, own |-> {}, why |-> "", ok |-> TRUE]

Init == /\ src = [k \in Keys |-> 1]
        /\ store = [k \in Keys |-> [val |-> 0, ver |-> 0]] /\ nextVer = 1
        /\ reg = [p \in Procs |-> [list |-> << >>, def |-> 0]]
        /\ mem = [p \in Procs |-> [k \in Keys |-> NoEntry]]
        /\ fail = [p \in Procs |-> {}]
        /\ pend = [p \in Procs |-> [k \in Keys |-> 0]]
        /\ wq = [p \in Procs |-> [k \in Keys |-> << >>]]
        /\ call = [c \in Calls |-> NoCall]
        /\ acked = [k \in Keys |-> 0] /\ faults = 0

-----------------------------------------------------------------------------
(* The epoch registry.                                                        *)

Max2(a, b) == IF a > b THEN a ELSE b

Entries(r, k) == {i \in 1..Len(r.list) : r.list[i].k = k}
InvIn(r, k) == IF Entries(r, k) = {} THEN r.def
               ELSE r.list[CHOOSE i \in Entries(r, k) : TRUE].inv
PubIn(r, k) == IF Entries(r, k) = {} THEN r.def
               ELSE r.list[CHOOSE i \in Entries(r, k) : TRUE].pub
invalidationEpoch(p, k) == InvIn(reg[p], k)
publicationEpoch(p, k)  == PubIn(reg[p], k)

(* pruneFunctionCacheInvalidationEpochs: a key that falls out raises the      *)
(* default above all its epochs.                                              *)
Prune(r) ==
    IF Len(r.list) <= EpochLimit THEN r
    ELSE LET old == Head(r.list)
         IN  [list |-> Tail(r.list), def |-> Max2(r.def, Max2(old.inv, old.pub) + 1)]

setEpochs(r, k, inv, pub) ==
    Prune([r EXCEPT !.list = Append(SelectSeq(@, LAMBDA x : x.k # k),
                                    [k |-> k, inv |-> inv, pub |-> pub])])

bumpInvalidationEpoch(r, k) ==
    LET n == Max2(InvIn(r, k), PubIn(r, k)) + 1 IN setEpochs(r, k, n, n)

bumpPublicationEpoch(r, k) == setEpochs(r, k, InvIn(r, k), PubIn(r, k) + 1)

-----------------------------------------------------------------------------
(* Memory entries and flights.                                                *)

UsesMemory == Mode # "distributed"

memorySet(p, k, v, r) ==
    IF UsesMemory
    THEN [mem EXCEPT ![p][k] = [val |-> v, inv |-> InvIn(r, k), pub |-> PubIn(r, k), stale |-> FALSE]]
    ELSE mem

memoryDelete(p, k) == [mem EXCEPT ![p][k] = NoEntry]

(* An entry counts only with the epochs it was published under.               *)
memoryValid(p, k) == /\ UsesMemory /\ mem[p][k].val # 0
                     /\ mem[p][k].inv = invalidationEpoch(p, k)
                     /\ mem[p][k].pub = publicationEpoch(p, k)

(* Mutant: the key of a shared computation leaves the epoch out.              *)
FlightKeyPlain(op, p, k, e, pub) == <<p, op, k>>

inFlightKey(op, p, k, e, pub) ==
    IF op = "refresh" THEN <<p, op, k, e>> ELSE <<p, op, k, e, pub>>

Active(fk) == {c \in Calls : call[c].fk = fk /\ call[c].pc \notin {"idle", "done", "failed"}}

Failed(p, k)  == k \in fail[p]
Pending(p, k) == pend[p][k] > 0

(* getAfterMemoryMiss up to its first await, and the start of cacheGet.       *)
Missed(r) == [r EXCEPT !.pc = "factory", !.e = invalidationEpoch(r.p, r.k),
                       !.pub = IF invalidationEpoch(r.p, r.k) = r.e THEN r.pub
                               ELSE publicationEpoch(r.p, r.k)]

Lookup(r) ==
    IF r.op = "refresh"
    THEN IF Mode = "distributed" /\ ~Pending(r.p, r.k) THEN [r EXCEPT !.pc = "vqueue"]
         ELSE Missed(r)
    ELSE IF Pending(r.p, r.k) \/ (Failed(r.p, r.k) /\ Mode # "distributed") THEN Missed(r)
    ELSE IF Failed(r.p, r.k) THEN [r EXCEPT !.pc = "bump", !.why = "recover"]
    ELSE [r EXCEPT !.pc = "cread"]

(* Join the running computation of the same flight key, or start one.         *)
Enter(r) ==
    LET fk == inFlightKey(r.op, r.p, r.k, r.e, r.pub)
    IN  IF Active(fk) # {}
        THEN [r EXCEPT !.pc = "join", !.own = Active(fk)]
        ELSE Lookup([r EXCEPT !.fk = fk])

Done(r, v) == [r EXCEPT !.pc = "done", !.val = v]

(* Mutant: a writer that is through stays at the head of its queue.           *)
LeaveNever(c) == UNCHANGED wq

Leave(c) == wq' = [wq EXCEPT ![call[c].p][call[c].k] = SelectSeq(@, LAMBDA x : x # c)]

Promise(k, v) == acked' = [acked EXCEPT ![k] = Max2(@, v)]

-----------------------------------------------------------------------------
(* The program.                                                               *)

Change(k) ==
    /\ src[k] < MaxSource
    /\ src' = [src EXCEPT ![k] = @ + 1]
    /\ UNCHANGED <<store, nextVer, reg, mem, fail, pend, wq, call, acked, faults>>

Start(c, p, k, op) == [NoCall EXCEPT !.op = op, !.p = p, !.k = k, !.floor = acked[k],
                                     !.e = invalidationEpoch(p, k), !.pub = publicationEpoch(p, k)]

BeginGet(c, p, k) ==
    /\ call[c].pc = "idle" /\ "get" \in Ops
    /\ LET r == Start(c, p, k, "get")
       IN  IF memoryValid(p, k)
           THEN /\ call' = [call EXCEPT ![c] = [r EXCEPT !.pc = "memhit", !.val = mem[p][k].val,
                                                         !.why = IF mem[p][k].stale THEN "stale" ELSE ""]]
                /\ UNCHANGED mem
           ELSE /\ call' = [call EXCEPT ![c] = Enter(r)]
                /\ mem' = memoryDelete(p, k)
    /\ UNCHANGED <<src, store, nextVer, reg, fail, pend, wq, acked, faults>>

(* A refresh joins a running one, else fences the publications of all         *)
(* computations that have started.                                            *)
BeginRefresh(c, p, k) ==
    /\ call[c].pc = "idle" /\ "refresh" \in Ops
    /\ LET r == Start(c, p, k, "refresh")
       IN  IF Active(inFlightKey("refresh", p, k, r.e, r.pub)) # {}
           THEN /\ call' = [call EXCEPT ![c] = Enter(r)] /\ UNCHANGED reg
           ELSE LET g == bumpPublicationEpoch(reg[p], k)
                IN  /\ reg' = [reg EXCEPT ![p] = g]
                    /\ call' = [call EXCEPT ![c] =
                         LET n == [r EXCEPT !.pub = PubIn(g, k)]
                             q == Lookup([n EXCEPT !.fk = inFlightKey("refresh", p, k, n.e, n.pub)])
                         IN  [q EXCEPT !.e = IF q.pc = "factory" THEN InvIn(g, k) ELSE @,
                                       !.pub = PubIn(g, k)]]
    /\ UNCHANGED <<src, store, nextVer, mem, fail, pend, wq, acked, faults>>

(* set resolves the key, then fences what has started.  A set is              *)
(* authoritative: it takes its place where it raises the fence, and its value *)
(* is the source's at that point.                                             *)
BeginSet(c, p, k) ==
    /\ call[c].pc = "idle" /\ "set" \in Ops
    /\ call' = [call EXCEPT ![c] = [Start(c, p, k, "set") EXCEPT !.pc = "key"]]
    /\ UNCHANGED <<src, store, nextVer, reg, mem, fail, pend, wq, acked, faults>>

SetFence(g, k) == bumpInvalidationEpoch(g, k)

SetKeyResolved(c) ==
    LET r == call[c]  g == SetFence(reg[r.p], r.k)
    IN  /\ r.pc = "key"
        /\ reg' = [reg EXCEPT ![r.p] = g]
        /\ mem' = memoryDelete(r.p, r.k)
        /\ call' = [call EXCEPT ![c].pc = "hook", ![c].e = InvIn(g, r.k),
                                ![c].val = src[r.k]]
        /\ UNCHANGED <<src, store, nextVer, fail, pend, wq, acked, faults>>

BeginInvalidate(c, p, k) ==
    /\ call[c].pc = "idle" /\ "inv" \in Ops
    /\ call' = [call EXCEPT ![c] = [Start(c, p, k, "inv") EXCEPT !.pc = "bump", !.why = "inv"]]
    /\ UNCHANGED <<src, store, nextVer, reg, mem, fail, pend, wq, acked, faults>>

-----------------------------------------------------------------------------
(* get.                                                                       *)

(* The hooks around a memory hit are through; an entry that had expired but   *)
(* may be served (stale while revalidate) starts a refresh in the background  *)
(* unless one runs (b is busy: no call is left to model it).                  *)
UseMemory(c) ==
    LET r == call[c]  same == invalidationEpoch(r.p, r.k) = r.e
    IN  /\ r.pc = "memhit"
        /\ IF same THEN call' = [call EXCEPT ![c] = Done(r, r.val)] /\ UNCHANGED mem
           ELSE call' = [call EXCEPT ![c] = Enter(r)] /\ mem' = memoryDelete(r.p, r.k)
        /\ same => r.why # "stale"
        /\ UNCHANGED <<src, store, nextVer, reg, fail, pend, wq, acked, faults>>

UseStale(c, b) ==
    LET r == call[c]
        fk == inFlightKey("refresh", r.p, r.k, r.e, publicationEpoch(r.p, r.k))
        background == [Start(b, r.p, r.k, "refresh") EXCEPT !.pc = "factory", !.fk = fk]
    IN  /\ r.pc = "memhit" /\ r.why = "stale" /\ invalidationEpoch(r.p, r.k) = r.e
        /\ b # c /\ (call[b].pc = "idle" => Active(fk) = {})
        /\ call' = [call EXCEPT ![c] = Done(r, r.val),
                                ![b] = IF @.pc = "idle" THEN background ELSE @]
        /\ UNCHANGED <<src, store, nextVer, reg, mem, fail, pend, wq, acked, faults>>

Joined(c) ==
    \E o \in call[c].own :
        /\ call[c].pc = "join" /\ call[o].pc \in {"done", "failed"}
        /\ call' = [call EXCEPT ![c].pc = call[o].pc, ![c].val = call[o].val]
        /\ UNCHANGED <<src, store, nextVer, reg, mem, fail, pend, wq, acked, faults>>

(* The adapter reads; a versioned read creates a missing version.             *)
CacheRead(c) ==
    LET r == call[c]  fresh == Mode = "distributed" /\ store[r.k].ver = 0
        v == IF fresh THEN nextVer ELSE store[r.k].ver
    IN  /\ r.pc \in {"cread", "vread"}
        /\ store' = [store EXCEPT ![r.k].ver = v]
        /\ nextVer' = IF fresh THEN nextVer + 1 ELSE nextVer
        /\ call' = [call EXCEPT ![c].pc = IF r.pc = "cread" THEN "cgot" ELSE "vgot",
                                ![c].val = store[r.k].val, ![c].ver = v]
        /\ UNCHANGED <<src, reg, mem, fail, pend, wq, acked, faults>>

(* A hit is used if no invalidation began since, and kept in memory if no     *)
(* refresh was published since.                                               *)
CacheGot(c) ==
    LET r == call[c]
    IN  /\ r.pc = "cgot"
        /\ IF /\ ~Pending(r.p, r.k) /\ r.val # 0 /\ invalidationEpoch(r.p, r.k) = r.e
           THEN /\ call' = [call EXCEPT ![c] = Done(r, r.val)]
                /\ mem' = IF publicationEpoch(r.p, r.k) = r.pub
                          THEN memorySet(r.p, r.k, r.val, reg[r.p]) ELSE mem
           ELSE /\ call' = [call EXCEPT ![c] =
                     Missed([r EXCEPT !.ver = IF Pending(r.p, r.k) THEN 0 ELSE @])]
                /\ UNCHANGED mem
        /\ UNCHANGED <<src, store, nextVer, reg, fail, pend, wq, acked, faults>>

(* refreshCacheVersion: in the write queue, a fresh fence; then its version.  *)
QueueVersion(c) ==
    LET r == call[c]
    IN  /\ r.pc = "vqueue"
        /\ wq' = [wq EXCEPT ![r.p][r.k] = Append(@, c)]
        /\ call' = [call EXCEPT ![c].pc = "vturn"]
        /\ UNCHANGED <<src, store, nextVer, reg, mem, fail, pend, acked, faults>>

VersionTurn(c) ==
    LET r == call[c]
    IN  /\ r.pc = "vturn" /\ Head(wq[r.p][r.k]) = c
        /\ call' = [call EXCEPT ![c].pc = "del", ![c].why = "version"]
        /\ UNCHANGED <<src, store, nextVer, reg, mem, fail, pend, wq, acked, faults>>

VersionGot(c) ==
    LET r == call[c]
    IN  /\ r.pc = "vgot"
        /\ call' = [call EXCEPT ![c] =
             Missed([r EXCEPT !.ver = IF Pending(r.p, r.k) \/ Failed(r.p, r.k) THEN 0 ELSE @])]
        /\ UNCHANGED <<src, store, nextVer, reg, mem, fail, pend, wq, acked, faults>>

(* The factory reads the source.                                              *)
Compute(c) ==
    LET r == call[c]
    IN  /\ r.pc = "factory"
        /\ call' = [call EXCEPT ![c].val = src[r.k], ![c].pc = "hook"]
        /\ UNCHANGED <<src, store, nextVer, reg, mem, fail, pend, wq, acked, faults>>

-----------------------------------------------------------------------------
(* setResolvedKey.                                                            *)

BeforeSet(c) ==
    LET r == call[c]
    IN  /\ r.pc = "hook"
        /\ wq' = [wq EXCEPT ![r.p][r.k] = Append(@, c)]
        /\ call' = [call EXCEPT ![c].pc = "turn"]
        /\ UNCHANGED <<src, store, nextVer, reg, mem, fail, pend, acked, faults>>

(* A failing beforeCacheSet hook poisons the key (poisonFailedPreWriteSet).   *)
BeforeSetFails(c) ==
    LET r == call[c]
    IN  /\ r.pc = "hook" /\ faults < MaxFaults
        /\ faults' = faults + 1
        /\ reg' = [reg EXCEPT ![r.p] = bumpInvalidationEpoch(@, r.k)]
        /\ mem' = memoryDelete(r.p, r.k)
        /\ fail' = [fail EXCEPT ![r.p] = @ \cup {r.k}]
        /\ call' = [call EXCEPT ![c].pc = "failed"]
        /\ UNCHANGED <<src, store, nextVer, pend, wq, acked>>

(* May a writer whose turn it is still publish?                               *)
MayPublish(r) ==
    /\ invalidationEpoch(r.p, r.k) = r.e
    /\ r.op # "set" => publicationEpoch(r.p, r.k) = r.pub

(* The writer's turn: in memory the adapter's setMany is done at once.        *)
WriteTurn(c) ==
    LET r == call[c]
        go == MayPublish(r) /\ (Mode = "distributed" /\ r.op # "set" => r.ver # 0)
    IN  /\ r.pc = "turn" /\ Head(wq[r.p][r.k]) = c
        /\ IF go
           THEN /\ call' = [call EXCEPT ![c].pc = IF Mode = "memory" THEN "setgot" ELSE "setsent"]
                /\ store' = IF Mode = "memory" THEN [store EXCEPT ![r.k].val = r.val] ELSE store
                /\ UNCHANGED wq
           ELSE /\ call' = [call EXCEPT ![c].pc = "done"]
                /\ Leave(c) /\ UNCHANGED store
        /\ UNCHANGED <<src, nextVer, reg, mem, fail, pend, acked, faults>>

Accepts(r) == Mode = "remote" \/ r.op = "set" \/ store[r.k].ver = r.ver

SetLands(c) ==
    LET r == call[c]  new == Mode = "distributed" /\ r.op = "set"
    IN  /\ r.pc = "setsent"
        /\ store' = IF Accepts(r)
                    THEN [store EXCEPT ![r.k].val = r.val, ![r.k].ver = IF new THEN nextVer ELSE @]
                    ELSE IF store[r.k].ver = 0 THEN [store EXCEPT ![r.k].ver = nextVer] ELSE store
        /\ nextVer' = IF new \/ (~Accepts(r) /\ store[r.k].ver = 0) THEN nextVer + 1 ELSE nextVer
        /\ call' = [call EXCEPT ![c].pc = "setgot", ![c].ok = Accepts(r)]
        /\ UNCHANGED <<src, reg, mem, fail, pend, wq, acked, faults>>

Overtaken(r) == invalidationEpoch(r.p, r.k) # r.e

(* The answer: take the value back if an invalidation began meanwhile; keep   *)
(* it out of memory if a refresh did.                                         *)
SetGot(c) ==
    LET r == call[c]
        g == IF r.op = "refresh" THEN bumpPublicationEpoch(reg[r.p], r.k) ELSE reg[r.p]
        fenced == r.op # "set" /\ publicationEpoch(r.p, r.k) # r.pub
    IN  /\ r.pc = "setgot"
        /\ \/ /\ r.ok /\ Overtaken(r)
              /\ call' = [call EXCEPT ![c].pc = "del", ![c].why = "undo"]
              /\ UNCHANGED <<reg, mem, fail, wq>>
           \/ /\ ~r.ok
              /\ call' = [call EXCEPT ![c].pc = "done"]
              /\ Leave(c) /\ UNCHANGED <<reg, mem, fail>>
           \/ /\ r.ok /\ ~Overtaken(r)
              /\ fail' = [fail EXCEPT ![r.p] = @ \ {r.k}]
              /\ Leave(c)
              /\ IF fenced
                 THEN call' = [call EXCEPT ![c].pc = "done"] /\ UNCHANGED <<reg, mem>>
                 ELSE /\ call' = [call EXCEPT ![c].pc = "after"]
                      /\ reg' = [reg EXCEPT ![r.p] = g]
                      /\ mem' = memorySet(r.p, r.k, r.val, g)
        /\ UNCHANGED <<src, store, nextVer, pend, acked, faults>>

(* A remote setMany throws, before or after it took effect.                   *)
SetThrows(c) ==
    LET r == call[c]
    IN  /\ r.pc \in {"setsent", "setgot"} /\ Mode # "memory" /\ faults < MaxFaults
        /\ faults' = faults + 1
        /\ fail' = [fail EXCEPT ![r.p] = @ \cup {r.k}]
        /\ call' = [call EXCEPT ![c].pc = "failed"]
        /\ Leave(c)
        /\ UNCHANGED <<src, store, nextVer, reg, mem, pend, acked>>

(* Published: the afterCacheSet hook passes, or fails and the value is taken  *)
(* back (poisonCommittedSet).  A refresh promises something only to its own   *)
(* process, and if no set overlaps it: an authoritative set, or a fill of     *)
(* another process under the same version, may come after it.                 *)
Promises(r) ==
    \/ r.op = "set"
    \/ r.op = "refresh" /\ Mode # "distributed" /\ \A d \in Calls : call[d].op # "set"

AfterSet(c) ==
    LET r == call[c]
    IN  /\ r.pc = "after"
        /\ call' = [call EXCEPT ![c].pc = "done"]
        /\ IF Promises(r) /\ invalidationEpoch(r.p, r.k) = r.e
           THEN Promise(r.k, r.val) ELSE UNCHANGED acked
        /\ UNCHANGED <<src, store, nextVer, reg, mem, fail, pend, wq, faults>>

AfterSetFails(c) ==
    LET r == call[c]
    IN  /\ r.pc = "after" /\ faults < MaxFaults
        /\ faults' = faults + 1
        /\ reg' = [reg EXCEPT ![r.p] = bumpInvalidationEpoch(@, r.k)]
        /\ mem' = memoryDelete(r.p, r.k)
        /\ call' = [call EXCEPT ![c].pc = "del", ![c].why = "poison"]
        /\ UNCHANGED <<src, store, nextVer, fail, pend, wq, acked>>

-----------------------------------------------------------------------------
(* Deletes: an invalidation, or the removal of what should not be there.      *)

(* invalidateResolvedKey: the fence goes up before anything is awaited.       *)
Bump(c) ==
    LET r == call[c]
    IN  /\ r.pc = "bump"
        /\ reg' = [reg EXCEPT ![r.p] = bumpInvalidationEpoch(@, r.k)]
        /\ pend' = [pend EXCEPT ![r.p][r.k] = @ + 1]
        /\ mem' = memoryDelete(r.p, r.k)
        /\ call' = [call EXCEPT ![c].pc = "del",
                                ![c].floor = IF r.why = "inv" THEN src[r.k] ELSE @]
        /\ UNCHANGED <<src, store, nextVer, fail, wq, acked, faults>>

DeleteLands(c) ==
    LET r == call[c]
    IN  /\ r.pc = "del"
        /\ store' = [store EXCEPT ![r.k] = [val |-> 0, ver |-> IF Mode = "distributed"
                                                              THEN nextVer ELSE @.ver]]
        /\ nextVer' = IF Mode = "distributed" THEN nextVer + 1 ELSE nextVer
        /\ call' = [call EXCEPT ![c].pc = "delgot"]
        /\ UNCHANGED <<src, reg, mem, fail, pend, wq, acked, faults>>

(* Where the caller goes on after its delete.                                 *)
AfterDelete(r) ==
    CASE r.why = "inv"     -> "done"
      [] r.why = "undo"    -> "done"
      [] r.why = "poison"  -> "failed"
      [] r.why = "recover" -> "cread"
      [] r.why = "version" -> "vread"

Invalidates(r) == r.why \in {"inv", "recover"}

clearPendingInvalidation(r) ==
    IF Invalidates(r) THEN [pend EXCEPT ![r.p][r.k] = @ - 1] ELSE pend

DeleteGot(c) ==
    LET r == call[c]
    IN  /\ r.pc = "delgot"
        /\ fail' = IF r.why = "undo" THEN fail ELSE [fail EXCEPT ![r.p] = @ \ {r.k}]
        /\ reg' = IF Invalidates(r) THEN [reg EXCEPT ![r.p] = bumpInvalidationEpoch(@, r.k)] ELSE reg
        /\ pend' = clearPendingInvalidation(r)
        /\ call' = [call EXCEPT ![c].pc = AfterDelete(r), ![c].why = ""]
        /\ IF r.why = "inv" THEN Promise(r.k, r.floor) ELSE UNCHANGED acked
        /\ IF r.why \in {"undo", "version"} THEN Leave(c) ELSE UNCHANGED wq
        /\ UNCHANGED <<src, store, nextVer, mem, faults>>

(* The delete throws, before or after it took effect; in memory only the hook *)
(* in front of an invalidation can.                                           *)
DeleteThrows(c) ==
    LET r == call[c]
    IN  /\ r.pc \in {"del", "delgot"} /\ faults < MaxFaults
        /\ Mode = "memory" => r.pc = "del" /\ Invalidates(r)
        /\ faults' = faults + 1
        /\ fail' = [fail EXCEPT ![r.p] = @ \cup {r.k}]
        /\ pend' = clearPendingInvalidation(r)
        /\ call' = [call EXCEPT ![c].pc = "failed"]
        /\ Leave(c)
        /\ UNCHANGED <<src, store, nextVer, reg, mem, acked>>

-----------------------------------------------------------------------------
(* Time to live: a memory entry first turns stale, adapter entries and        *)
(* versions disappear.                                                        *)
Expire(p, k) ==
    /\ mem[p][k].val # 0
    /\ mem' = [mem EXCEPT ![p][k] = IF @.stale THEN NoEntry ELSE [@ EXCEPT !.stale = TRUE]]
    /\ UNCHANGED <<src, store, nextVer, reg, fail, pend, wq, call, acked, faults>>

ExpireStore(k) ==
    /\ store[k] # [val |-> 0, ver |-> 0]
    /\ store' = [store EXCEPT ![k] = [val |-> 0, ver |-> 0]]
    /\ UNCHANGED <<src, nextVer, reg, mem, fail, pend, wq, call, acked, faults>>

Steps(c) ==
    \/ SetKeyResolved(c) \/ UseMemory(c) \/ Joined(c) \/ CacheRead(c) \/ CacheGot(c)
    \/ QueueVersion(c) \/ VersionTurn(c) \/ VersionGot(c) \/ Compute(c)
    \/ BeforeSet(c) \/ WriteTurn(c) \/ SetLands(c) \/ SetGot(c) \/ AfterSet(c)
    \/ Bump(c) \/ DeleteLands(c) \/ DeleteGot(c)

Next ==
    \/ \E k \in Keys : Change(k) \/ ExpireStore(k)
    \/ \E p \in Procs, k \in Keys : Expire(p, k)
    \/ \E c \in Calls, p \in Procs, k \in Keys :
          BeginGet(c, p, k) \/ BeginRefresh(c, p, k) \/ BeginSet(c, p, k) \/ BeginInvalidate(c, p, k)
    \/ \E c, b \in Calls : UseStale(c, b)
    \/ \E c \in Calls : \/ Steps(c)
                        \/ BeforeSetFails(c) \/ SetThrows(c) \/ AfterSetFails(c) \/ DeleteThrows(c)

Spec == Init /\ [][Next]_vars

FairSpec == Spec /\ \A c \in Calls : /\ WF_vars(Steps(c))
                                        /\ WF_vars(\E b \in Calls : UseStale(c, b))

-----------------------------------------------------------------------------
(* Types, and: pending counts, the write queues and the calls agree, so no    *)
(* caller can leave a key blocked.                                            *)
TypeOK ==
    /\ src \in [Keys -> 1..MaxSource]
    /\ \A p \in Procs : Len(reg[p].list) <= EpochLimit
    /\ \A p \in Procs, k \in Keys :
          /\ pend[p][k] = Cardinality({c \in Calls : /\ call[c].p = p /\ call[c].k = k
                                                     /\ call[c].pc \in {"del", "delgot"}
                                                     /\ Invalidates(call[c])})
          /\ \A i \in 1..Len(wq[p][k]) :
                /\ call[wq[p][k][i]].pc \in {"turn", "vturn", "setsent", "setgot", "del", "delgot"}
                /\ i > 1 => call[wq[p][k][i]].pc \in {"turn", "vturn"}

(* A caller that joins a flight of its process cannot see what another        *)
(* process invalidated since the flight began.                                *)
Floor(c) == IF Mode = "distributed" /\ call[c].own # {}
            THEN CHOOSE f \in {call[o].floor : o \in call[c].own} : TRUE
            ELSE call[c].floor

(* A get that begins after a finished invalidation, set or published refresh  *)
(* is never given an older value, from whatever level, flight or process.     *)
NoStaleGet ==
    \A c \in Calls : call[c].pc = "done" /\ call[c].op \in {"get", "refresh"} =>
        call[c].val >= Floor(c)

Quiet == \A c \in Calls : call[c].pc \in {"idle", "done", "failed"}

(* When all calls are over, no memory entry that would be served is older     *)
(* than what was promised.                                                    *)
NoStaleMemory ==
    Quiet => \A p \in Procs, k \in Keys : memoryValid(p, k) => mem[p][k].val >= acked[k]

(* When all calls are over, the adapter holds no value older than what was    *)
(* promised, unless the key is marked as failed and so bypassed.              *)
NoStalePersistent ==
    Quiet => \A p \in Procs, k \in Keys :
        k \notin fail[p] => store[k].val = 0 \/ store[k].val >= acked[k]

(* Every call ends: no writer, joiner or pending invalidation is stuck.       *)
Called(c) == call[c].pc # "idle"
Ended(c)  == call[c].pc \in {"done", "failed"}
CallsEnd == \A c \in Calls : []<>(Called(c) => Ended(c))
=============================================================================
