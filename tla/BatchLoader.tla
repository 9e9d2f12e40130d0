---------------------------- MODULE BatchLoader ----------------------------
(***************************************************************************)
(* core/batch-loader.ts: loads by id issued in the same turn are collected, *)
(* flushed by one microtask and answered by loadMany in chunks.  A flush     *)
(* awaits its chunks one after the other; later loads start another flush.  *)
(*                                                                         *)
(* The store behind loadMany is external: a version per id that writers     *)
(* increase while a chunk is under way.                                     *)
(***************************************************************************)
EXTENDS Integers, Sequences, FiniteSets, SequencesExt

CONSTANTS Callers,     \* each calls load once
          Ids,         \* the ids loaded
          MaxSize,     \* maxSize of the loader
          Distinct,    \* distinctResults
          MaxWrites    \* bound on the writes of the store

BatchAssumption == MaxSize \in Nat \ {0} /\ Distinct \in BOOLEAN /\ MaxWrites \in Nat

VARIABLES pending,     \* items [id, waiters], in insertion order
          scheduled,
          flights,     \* the flushes under way: sequences of chunks
          call,        \* what each caller asked and got
          store        \* version of each row

vars == <<pending, scheduled, flights, call, store>>

Init == /\ pending = <<>> /\ scheduled = FALSE /\ flights = {}
        /\ call = [c \in Callers |-> [st |-> "idle"]]
        /\ store = [i \in Ids |-> 0]

Item(id, ws) == [id |-> id, waiters |-> ws]

Queued(id) == {n \in DOMAIN pending : pending[n].id = id}

EnqueueApart(c, id) == Append(pending, Item(id, <<c>>))
Enqueue(c, id) ==
    IF Queued(id) = {} THEN Append(pending, Item(id, <<c>>))
    ELSE [n \in DOMAIN pending |->
            IF n \in Queued(id) THEN [pending[n] EXCEPT !.waiters = Append(@, c)]
            ELSE pending[n]]

(* load: the caller waits on the item of its id, and a flush is scheduled.  *)
Load(c, id) ==
    /\ call[c].st = "idle"
    /\ pending' = Enqueue(c, id)
    /\ scheduled' = TRUE
    /\ call' = [call EXCEPT ![c] = [st |-> "waiting", id |-> id, since |-> store[id]]]
    /\ UNCHANGED <<flights, store>>

(* pendingBatches: one entry per id, or one per waiter.                     *)
Entries(item) == IF Distinct THEN [w \in DOMAIN item.waiters |-> Item(item.id, <<item.waiters[w]>>)]
                 ELSE <<item>>

Batch(p) == FlattenSeq([n \in DOMAIN p |-> Entries(p[n])])

chunkItems(items) ==
    [n \in 1..((Len(items) + MaxSize - 1) \div MaxSize) |->
        SubSeq(items, (n - 1) * MaxSize + 1,
               IF n * MaxSize < Len(items) THEN n * MaxSize ELSE Len(items))]

Flush ==
    /\ scheduled
    /\ scheduled' = FALSE
    /\ pending' = <<>>
    /\ LET chunks == chunkItems(Batch(pending)) IN
       flights' = flights \cup (IF chunks = <<>> THEN {} ELSE {[chunks |-> chunks, values |-> <<>>]})
    /\ UNCHANGED <<call, store>>

(* The first chunk of a flush is read; the answer has one value per id.      *)
ReadChunk(f) ==
    /\ f.values = <<>>
    /\ flights' = (flights \ {f}) \cup
         {[f EXCEPT !.values = [n \in DOMAIN f.chunks[1] |->
              [id |-> f.chunks[1][n].id, version |-> store[f.chunks[1][n].id]]]]}
    /\ UNCHANGED <<pending, scheduled, call, store>>

Waiters(chunk, n) == {chunk[n].waiters[w] : w \in DOMAIN chunk[n].waiters}

ItemOf(chunk, c) == CHOOSE n \in DOMAIN chunk : c \in Waiters(chunk, n)

InChunk(chunk) == UNION {Waiters(chunk, n) : n \in DOMAIN chunk}

RestForgotten(f) == {}
Rest(f) == IF Len(f.chunks) = 1 THEN {} ELSE {[chunks |-> Tail(f.chunks), values |-> <<>>]}

Answer(f, c) == f.values[ItemOf(f.chunks[1], c)]

(* The answer of loadMany resolves every waiter of the chunk with the value  *)
(* at the place of its id.                                                  *)
Resolve(f) ==
    /\ f.values # <<>>
    /\ flights' = (flights \ {f}) \cup Rest(f)
    /\ call' = [c \in Callers |-> IF c \in InChunk(f.chunks[1])
                                  THEN [st |-> "resolved", id |-> call[c].id,
                                        since |-> call[c].since, got |-> Answer(f, c)]
                                  ELSE call[c]]
    /\ UNCHANGED <<pending, scheduled, store>>

(* loadMany rejects: the waiters of this chunk fail and the next chunk is    *)
(* still loaded.                                                            *)
Reject(f) ==
    /\ flights' = (flights \ {f}) \cup Rest(f)
    /\ call' = [c \in Callers |-> IF c \in InChunk(f.chunks[1])
                                  THEN [st |-> "rejected"] ELSE call[c]]
    /\ UNCHANGED <<pending, scheduled, store>>

StoreWrite(i) ==
    /\ store[i] < MaxWrites
    /\ store' = [store EXCEPT ![i] = @ + 1]
    /\ UNCHANGED <<pending, scheduled, flights, call>>

FlightSettles == \E f \in flights : ReadChunk(f) \/ Resolve(f) \/ Reject(f)

Next == \/ \E c \in Callers, id \in Ids : Load(c, id)
        \/ Flush
        \/ FlightSettles
        \/ \E i \in Ids : StoreWrite(i)

(* Microtasks run, and loadMany settles.                                    *)
Fairness == /\ WF_vars(Flush)
            /\ WF_vars(FlightSettles)

Spec == Init /\ [][Next]_vars /\ Fairness

-----------------------------------------------------------------------------
Chunks == UNION {ToSet(f.chunks) : f \in flights}

(* Every waiting caller is in exactly one place, the queue or a chunk that   *)
(* will be answered, and no chunk asks loadMany for more than maxSize ids or *)
(* for an id twice unless results must be distinct (flush, chunkItems).     *)
EveryWaiterHeldOnce ==
    /\ \A c \in Callers :
         Cardinality({n \in DOMAIN pending : c \in Waiters(pending, n)})
           + Cardinality({k \in Chunks : c \in InChunk(k)})
           = IF call[c].st = "waiting" THEN 1 ELSE 0
    /\ \A k \in Chunks : /\ Len(k) \in 1..MaxSize
                         /\ Distinct \/ IsInjective([n \in DOMAIN k |-> k[n].id])
                         /\ Distinct => \A n \in DOMAIN k : Cardinality(Waiters(k, n)) = 1

(* A caller gets the value of the id it asked for, and the store was read    *)
(* after its call: a load issued while an older flush is under way is not    *)
(* answered from that flush (flush, Map clear before the await).            *)
OwnFreshValue ==
    \A c \in Callers : call[c].st = "resolved" =>
        call[c].got.id = call[c].id /\ call[c].got.version >= call[c].since

(* Every load settles, also when chunks before it fail (flush catches per    *)
(* chunk) and when it arrives while a flush is awaiting.                    *)
Waits(c) == call[c].st = "waiting"
EveryLoadSettles == \A c \in Callers : []<>~Waits(c)
=============================================================================
