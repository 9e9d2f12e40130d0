------------------------------ MODULE SearchSync ------------------------------
(***************************************************************************)
(* Search synchronisation: writers that commit an entity together with its *)
(* outbox event, leased workers that reconcile search documents from the   *)
(* store (core/outbox-worker.ts, runSearchSyncWorker), and a search backend*)
(* that keeps the highest revision it accepted for each document           *)
(* (adapters/search/memory.ts).  Every await of the worker is a boundary   *)
(* between two actions; a worker's actions carry the name of the call they *)
(* stand for.                                                              *)
(*                                                                         *)
(* An entity is its version number: update and delete are both a new       *)
(* version, and the document in the index is the version it was built from.*)
(* `base` and `last` are history variables: no action reads them.          *)
(***************************************************************************)
EXTENDS OutboxStore

CONSTANTS
    BatchSize,      \* SearchSyncWorkerOptions.batchSize
    ExternalSink,   \* is SearchSyncWorkerOptions.deadLetter configured?
    MaxWrites,      \* bound: versions of one entity
    MaxFaults,      \* bound: crashes, slow leases, errors and lost answers
    MaxVersion      \* bound: the row version up to which leases are renewed

ASSUME SearchSyncAssumption ==
    /\ BatchSize \in Nat \ {0}
    /\ ExternalSink \in BOOLEAN
    /\ MaxWrites \in Nat /\ MaxFaults \in Nat /\ MaxVersion \in Nat

VARIABLES
    ver,        \* [Docs -> Nat], committed version of each entity
    base,       \* history: value of the revision counter at the last write
    last,       \* history: id of the event of the last write, 0 before it
    search,     \* [Docs -> [rev, ver]], accepted revision and document
    net,        \* mutations sent to the backend and not processed yet
    pc,         \* control state of each worker
    cand,       \* scanned snapshots still to be claimed
    batch,      \* leased snapshots still to be delivered
    failed,     \* snapshots whose delivery failed, still to be settled
    job,        \* the delivery in progress
    sunk,       \* ids handed to the external dead-letter sink
    faults      \* faults so far

entityVars == <<ver, base, last>>
searchVars == <<search, net>>
localVars  == <<pc, cand, batch, failed, job>>
vars == <<outboxVars, entityVars, searchVars, localVars, sunk, faults>>

Message == [doc: Docs, rev: Nat, ver: Nat]
Snapshot == Event \cup {NoRow}
Job == [ev: Snapshot, rep: Snapshot, rsv: Nat, seen: Nat]
NoJob == [ev |-> NoRow, rep |-> NoRow, rsv |-> 0, seen |-> 0]

Pcs == {"idle", "claim", "event", "reserve", "bump", "revalidate", "read", "repair",
        "before", "await", "lost", "ack", "ackRepair", "cleanup", "discard", "settle", "sinkAck"}

TypeOK ==
    /\ OutboxTypeOK
    /\ ver \in [Docs -> Nat]
    /\ base \in [Docs -> Nat]
    /\ last \in [Docs -> Nat]
    /\ search \in [Docs -> [rev: Nat, ver: Nat]]
    /\ net \subseteq Message
    /\ pc \in [Workers -> Pcs]
    /\ cand \in [Workers -> SUBSET Event]
    /\ batch \in [Workers -> SUBSET Event]
    /\ failed \in [Workers -> SUBSET Event]
    /\ job \in [Workers -> Job]
    /\ sunk \subseteq Ids
    /\ faults \in Nat

Init ==
    /\ OutboxInit
    /\ ver = [d \in Docs |-> 0]
    /\ base = [d \in Docs |-> 0]
    /\ last = [d \in Docs |-> 0]
    /\ search = [d \in Docs |-> [rev |-> 0, ver |-> 0]]
    /\ net = {}
    /\ pc = [w \in Workers |-> "idle"]
    /\ cand = [w \in Workers |-> {}]
    /\ batch = [w \in Workers |-> {}]
    /\ failed = [w \in Workers |-> {}]
    /\ job = [w \in Workers |-> NoJob]
    /\ sunk = {}
    /\ faults = 0

Fault == faults < MaxFaults /\ faults' = faults + 1

Goto(w, p) == pc' = [pc EXCEPT ![w] = p]

Mutation(w) == [doc |-> job[w].ev.doc, rev |-> job[w].rsv, ver |-> job[w].seen]

----------------------------------------------------------------------------
(* Writers, and the backend and clocks of the environment. *)

\* A committed create, update or delete: afterCreate/afterUpdate/afterDelete
\* append the event in the transaction of the write.
Write(d) ==
    /\ ver[d] < MaxWrites
    /\ Append(d, nextId)
    /\ ver' = [ver EXCEPT ![d] = @ + 1]
    /\ base' = [base EXCEPT ![d] = revision[d]]
    /\ last' = [last EXCEPT ![d] = nextId]
    /\ UNCHANGED <<searchVars, localVars, sunk, faults>>

\* index and delete of the adapter: acceptRevision, then the document.
Accept(m) == search[m.doc].rev < m.rev

ProcessMutation(m) ==
    /\ net' = net \ {m}
    /\ search' = IF Accept(m)
                 THEN [search EXCEPT ![m.doc] = [rev |-> m.rev, ver |-> m.ver]]
                 ELSE search
    /\ UNCHANGED <<outboxVars, entityVars, localVars, sunk, faults>>

\* A run works under the lease of row i.
Held(i) == \E w \in Workers : \E e \in batch[w] \cup failed[w] \cup {job[w].ev} :
               e # NoRow /\ e.id = i /\ rows[i].token = w

\* An abandoned lease lapses; under a run at work it lapses when the run is slow.
LeaseLapses(i) ==
    /\ LapseLease(i)
    /\ IF Held(i) THEN Fault ELSE UNCHANGED faults
    /\ UNCHANGED <<entityVars, searchVars, localVars, sunk>>

RetryFallsDue(i) ==
    /\ ReachAvailableAt(i)
    /\ UNCHANGED <<entityVars, searchVars, localVars, sunk, faults>>

----------------------------------------------------------------------------
(* Taking a batch. *)

ScanOutbox(w) ==
    /\ pc[w] = "idle"
    /\ cand' = [cand EXCEPT ![w] = LeaseCandidates]
    /\ Goto(w, IF LeaseCandidates = {} THEN "idle" ELSE "claim")
    /\ UNCHANGED <<outboxVars, entityVars, searchVars, batch, failed, job, sunk, faults>>

Claiming(w) == cand[w] # {} /\ Cardinality(batch[w]) < BatchSize

ClaimCandidate(w, e) ==
    /\ pc[w] = "claim" /\ Claiming(w)
    /\ FirstOf(e, cand[w])
    /\ cand' = [cand EXCEPT ![w] = @ \ {e}]
    /\ IF Claimable(e)
       THEN /\ ClaimLease(e, w)
            /\ batch' = [batch EXCEPT ![w] = @ \cup {withOutboxLease(e, w)}]
       ELSE UNCHANGED <<outboxVars, batch>>
    /\ UNCHANGED <<entityVars, searchVars, pc, failed, job, sunk, faults>>

\* A store error in claimOutboxLease, before or after the claim took effect: the
\* rows claimed so far are released and lease() rejects; with `released` false that
\* release fails as well.
ClaimFails(w, released) ==
    /\ pc[w] = "claim"
    /\ Fault
    /\ IF released THEN Release(batch[w], w) ELSE UNCHANGED outboxVars
    /\ cand' = [cand EXCEPT ![w] = {}]
    /\ batch' = [batch EXCEPT ![w] = {}]
    /\ Goto(w, "idle")
    /\ UNCHANGED <<entityVars, searchVars, failed, job, sunk>>

ClaimsDone(w) ==
    /\ pc[w] = "claim" /\ ~Claiming(w)
    /\ cand' = [cand EXCEPT ![w] = {}]
    /\ Goto(w, "event")
    /\ UNCHANGED <<outboxVars, entityVars, searchVars, batch, failed, job, sunk, faults>>

----------------------------------------------------------------------------
(* Delivering one event. *)

\* The delivery ends here, without or with a delivery failure.
EndEvent(w) == Goto(w, "event") /\ job' = [job EXCEPT ![w] = NoJob] /\ UNCHANGED failed

FailEvent(w) ==
    /\ Goto(w, "event")
    /\ job' = [job EXCEPT ![w] = NoJob]
    /\ failed' = [failed EXCEPT ![w] = @ \cup {job[w].ev}]

\* ensureSearchSyncLeaseCurrent found e not current: it is released; when that
\* fails the event is left alone and is not a delivery failure.
Relinquish(w, e) ==
    \/ Release({e}, w) /\ UNCHANGED faults
    \/ UNCHANGED outboxVars /\ Fault

LostLease(w) ==
    /\ ~isLeaseCurrent(job[w].ev)
    /\ Relinquish(w, job[w].ev)
    /\ EndEvent(w)
    /\ UNCHANGED <<entityVars, searchVars, cand, batch, sunk>>

NextEvent(w, e) ==
    /\ pc[w] = "event" /\ FirstOf(e, batch[w])
    /\ batch' = [batch EXCEPT ![w] = @ \ {e}]
    /\ \/ /\ isLeaseCurrent(e)
          /\ job' = [job EXCEPT ![w] = [NoJob EXCEPT !.ev = e]]
          /\ Goto(w, "reserve")
          /\ UNCHANGED <<outboxVars, faults>>
       \/ /\ ~isLeaseCurrent(e)
          /\ Relinquish(w, e)
          /\ UNCHANGED <<pc, job>>
    /\ UNCHANGED <<entityVars, searchVars, cand, failed, sunk>>

\* reserveSearchRevision.  With optimistic locking: check the lease and read the
\* counter, compare-and-swap it, check the lease again; otherwise one transaction.
ReserveRevision(w) ==
    /\ pc[w] = "reserve"
    /\ isLeaseCurrent(job[w].ev)
    /\ LET d == job[w].ev.doc
       IN  IF OptimisticLock
           THEN /\ job' = [job EXCEPT ![w].rsv = revision[d]]
                /\ Goto(w, "bump")
                /\ UNCHANGED outboxVars
           ELSE /\ job' = [job EXCEPT ![w].rsv = revision[d] + 1]
                /\ Goto(w, "read")
                /\ BumpRevision(d)
    /\ UNCHANGED <<entityVars, searchVars, cand, batch, failed, sunk, faults>>

\* Mutant: the counter is written back without comparing it to the value read.
CasRevisionBlind(w) ==
    /\ pc[w] = "bump"
    /\ revision' = [revision EXCEPT ![job[w].ev.doc] = job[w].rsv + 1]
    /\ job' = [job EXCEPT ![w].rsv = @ + 1]
    /\ Goto(w, "revalidate")
    /\ UNCHANGED <<rows, nextId, lapsed, delayed>>
    /\ UNCHANGED <<entityVars, searchVars, cand, batch, failed, sunk, faults>>

CasRevision(w) ==
    /\ pc[w] = "bump"
    /\ revision[job[w].ev.doc] = job[w].rsv
    /\ BumpRevision(job[w].ev.doc)
    /\ job' = [job EXCEPT ![w].rsv = @ + 1]
    /\ Goto(w, "revalidate")
    /\ UNCHANGED <<entityVars, searchVars, cand, batch, failed, sunk, faults>>

CasConflict(w) ==
    /\ pc[w] = "bump"
    /\ revision[job[w].ev.doc] # job[w].rsv
    /\ isLeaseCurrent(job[w].ev)
    /\ FailEvent(w)
    /\ UNCHANGED <<outboxVars, entityVars, searchVars, cand, batch, sunk, faults>>

RevalidateLease(w) ==
    /\ pc[w] = "revalidate"
    /\ isLeaseCurrent(job[w].ev)
    /\ Goto(w, "read")
    /\ UNCHANGED <<outboxVars, entityVars, searchVars, cand, batch, failed, job, sunk, faults>>

\* A reservation that returns undefined: the lease is checked and released.
ReservationRefused(w) ==
    /\ \/ pc[w] \in {"reserve", "revalidate"}
       \/ pc[w] = "bump" /\ revision[job[w].ev.doc] # job[w].rsv
    /\ LostLease(w)

\* Mutant: the document is built from the version before the one just committed, as
\* a read from a stale cache would do.
ReadEntityStale(w) ==
    /\ pc[w] = "read"
    /\ job' = [job EXCEPT ![w].seen = ver[job[w].ev.doc] - 1]
    /\ Goto(w, "repair")
    /\ UNCHANGED <<outboxVars, entityVars, searchVars, cand, batch, failed, sunk, faults>>

\* resolveSearchSyncMutation: read the entity from the store.
ReadEntity(w) ==
    /\ pc[w] = "read"
    /\ job' = [job EXCEPT ![w].seen = ver[job[w].ev.doc]]
    /\ Goto(w, "repair")
    /\ UNCHANGED <<outboxVars, entityVars, searchVars, cand, batch, failed, sunk, faults>>

\* enqueueSearchSyncRepair: a fresh row of the same document and createdAt.
AppendRepair(w) ==
    /\ pc[w] = "repair"
    /\ Append(job[w].ev.doc, job[w].ev.created)
    /\ job' = [job EXCEPT ![w].rep = NewEvent(job[w].ev.doc, job[w].ev.created)]
    /\ Goto(w, "before")
    /\ UNCHANGED <<entityVars, searchVars, cand, batch, failed, sunk, faults>>

\* The append took effect but its answer was an error: the guard stays behind.
AppendRepairThrows(w) ==
    /\ pc[w] = "repair"
    /\ Fault
    /\ Append(job[w].ev.doc, job[w].ev.created)
    /\ FailEvent(w)
    /\ UNCHANGED <<entityVars, searchVars, cand, batch, sunk>>

\* A store error before there is a repair guard.
StoreThrows(w) ==
    /\ pc[w] \in {"reserve", "bump", "revalidate", "read", "repair"}
    /\ Fault
    /\ FailEvent(w)
    /\ UNCHANGED <<outboxVars, entityVars, searchVars, cand, batch, sunk>>

\* Lease check, beforeIndex, lease check, and the mutation leaves for the backend.
StartMutation(w) ==
    /\ pc[w] = "before"
    /\ isLeaseCurrent(job[w].ev)
    /\ net' = net \cup {Mutation(w)}
    /\ Goto(w, "await")
    /\ UNCHANGED <<outboxVars, entityVars, search, cand, batch, failed, job, sunk, faults>>

\* The lease is gone at one of those checks, or after the mutation, or at the
\* check behind afterIndex.  The repair guard stays.
LeaseGone(w) ==
    /\ \/ pc[w] \in {"before", "ack"}
       \/ pc[w] = "await" /\ Mutation(w) \notin net
    /\ LostLease(w)
    /\ pc[w] = "before" => UNCHANGED faults

\* The same before the mutation, but the release fails: this error ends the
\* delivery, is no delivery failure, and takes the repair guard with it.
ReleaseThrows(w) ==
    /\ pc[w] = "before"
    /\ ~isLeaseCurrent(job[w].ev)
    /\ Fault
    /\ Goto(w, "discard")
    /\ UNCHANGED <<outboxVars, entityVars, searchVars, cand, batch, failed, job, sunk>>

\* beforeIndex, or one of the lease checks around it, throws.
BeforeIndexThrows(w) ==
    /\ pc[w] = "before"
    /\ Fault
    /\ Goto(w, "cleanup")
    /\ UNCHANGED <<outboxVars, entityVars, searchVars, cand, batch, failed, job, sunk>>

\* No mutation was started: the repair guard is acknowledged away.
CleanupRepair(w) ==
    /\ pc[w] \in {"cleanup", "discard"}
    /\ \/ /\ IF Ackable(job[w].rep) THEN DeleteRows({job[w].rep}) ELSE UNCHANGED outboxVars
          /\ UNCHANGED faults
       \/ UNCHANGED outboxVars /\ Fault
    /\ IF pc[w] = "cleanup" THEN FailEvent(w) ELSE EndEvent(w)
    /\ UNCHANGED <<entityVars, searchVars, cand, batch, sunk>>

\* The renewal timer of runSearchSyncMutationWithLease.
Renew(w) ==
    /\ pc[w] = "await"
    /\ job[w].ev.version < MaxVersion
    /\ RenewLease(job[w].ev)
    /\ job' = [job EXCEPT ![w].ev = withOutboxLease(@, w)]
    /\ UNCHANGED <<entityVars, searchVars, pc, cand, batch, failed, sunk, faults>>

RenewLost(w) ==
    /\ pc[w] = "await"
    /\ ~isLeaseCurrent(job[w].ev)
    /\ Goto(w, "lost")
    /\ UNCHANGED <<outboxVars, entityVars, searchVars, cand, batch, failed, job, sunk, faults>>

\* The renewal took effect but its answer was an error.
RenewThrows(w) ==
    /\ pc[w] = "await"
    /\ job[w].ev.version < MaxVersion
    /\ Fault
    /\ RenewLease(job[w].ev)
    /\ Goto(w, "lost")
    /\ UNCHANGED <<entityVars, searchVars, cand, batch, failed, job, sunk>>

MutationDone(w) ==
    /\ pc[w] = "await"
    /\ Mutation(w) \notin net
    /\ isLeaseCurrent(job[w].ev)
    /\ Goto(w, "ack")
    /\ UNCHANGED <<outboxVars, entityVars, searchVars, cand, batch, failed, job, sunk, faults>>

\* The mutation ended while its lease could not be renewed.
MutationDoneLost(w) ==
    /\ pc[w] = "lost"
    /\ Mutation(w) \notin net
    /\ FailEvent(w)
    /\ UNCHANGED <<outboxVars, entityVars, searchVars, cand, batch, sunk, faults>>

\* A timeout or a connection error: the request is lost, or is still on its way.
MutationRejected(w, stays) ==
    /\ pc[w] \in {"await", "lost"}
    /\ Fault
    /\ net' = IF stays THEN net ELSE net \ {Mutation(w)}
    /\ FailEvent(w)
    /\ UNCHANGED <<outboxVars, entityVars, search, cand, batch, sunk>>

\* ack of the event and its repair guard: one transaction, or one for each.
Acknowledge(w) ==
    /\ pc[w] = "ack"
    /\ LET j == job[w]
       IN  IF OptimisticLock
           THEN /\ IF Ackable(j.ev) /\ Ackable(j.rep)
                   THEN DeleteRows({j.ev, j.rep}) ELSE UNCHANGED outboxVars
                /\ EndEvent(w)
           ELSE IF Ackable(j.ev)
                THEN DeleteRows({j.ev}) /\ Goto(w, "ackRepair") /\ UNCHANGED <<job, failed>>
                ELSE UNCHANGED outboxVars /\ EndEvent(w)
    /\ UNCHANGED <<entityVars, searchVars, cand, batch, sunk, faults>>

\* Mutant: the second acknowledgement never happens.
AcknowledgeRepairSkipped(w) ==
    /\ pc[w] = "ackRepair"
    /\ UNCHANGED outboxVars
    /\ EndEvent(w)
    /\ UNCHANGED <<entityVars, searchVars, cand, batch, sunk, faults>>

AcknowledgeRepair(w) ==
    /\ pc[w] = "ackRepair"
    /\ IF Ackable(job[w].rep) THEN DeleteRows({job[w].rep}) ELSE UNCHANGED outboxVars
    /\ EndEvent(w)
    /\ UNCHANGED <<entityVars, searchVars, cand, batch, sunk, faults>>

\* afterIndex or the acknowledgement throws; with `applied` the rows are gone all
\* the same (the outcome of the commit was unknown).
AcknowledgeThrows(w, applied) ==
    /\ pc[w] \in {"ack", "ackRepair"}
    /\ Fault
    /\ LET S == IF pc[w] = "ackRepair" THEN {job[w].rep}
                ELSE IF OptimisticLock THEN {job[w].ev, job[w].rep} ELSE {job[w].ev}
       IN  IF applied /\ \A e \in S : Ackable(e) THEN DeleteRows(S) ELSE UNCHANGED outboxVars
    /\ FailEvent(w)
    /\ UNCHANGED <<entityVars, searchVars, cand, batch, sunk>>

----------------------------------------------------------------------------
(* Settling the failures of the batch: settleSearchSyncFailures. *)

BatchDone(w) ==
    /\ pc[w] = "event" /\ batch[w] = {}
    /\ Goto(w, IF failed[w] = {} THEN "idle" ELSE "settle")
    /\ UNCHANGED <<outboxVars, entityVars, searchVars, cand, batch, failed, job, sunk, faults>>

Exhausted(w) == {e \in failed[w] : Attempt(e) >= MaxAttempts}

\* Dead letters go first.  A store with optimistic locking settles a group in one
\* transaction, a store with lease transactions one event at a time.
SettleGroup(w, G) ==
    LET D == Exhausted(w)
        group == IF D # {} THEN D ELSE failed[w]
    IN  IF OptimisticLock \/ (ExternalSink /\ D # {})
        THEN G = group ELSE \E e \in group : FirstOf(e, group) /\ G = {e}

SettleRest(w, G) ==
    /\ failed' = [failed EXCEPT ![w] = @ \ G]
    /\ Goto(w, IF failed[w] = G THEN "idle"
               ELSE IF pc[w] = "sinkAck" /\ Exhausted(w) \ G # {} THEN "sinkAck" ELSE "settle")

Settle(w, G) ==
    /\ pc[w] = "settle" /\ SettleGroup(w, G)
    /\ IF Exhausted(w) = {}
       THEN Retry(G) /\ SettleRest(w, G) /\ UNCHANGED sunk
       ELSE IF ExternalSink
            THEN /\ sunk' = sunk \cup {e.id : e \in G}
                 /\ Goto(w, "sinkAck")
                 /\ UNCHANGED <<outboxVars, failed>>
            ELSE DeadLetter(G) /\ SettleRest(w, G) /\ UNCHANGED sunk
    /\ UNCHANGED <<entityVars, searchVars, cand, batch, job, faults>>

\* The sink took the failures: their rows are acknowledged, in one transaction or
\* one by one up to the first that is no longer current.
SinkGroup(w, G) ==
    IF OptimisticLock THEN G = Exhausted(w)
    ELSE \E e \in Exhausted(w) : FirstOf(e, Exhausted(w)) /\ G = {e}

SinkAcknowledge(w, G) ==
    /\ pc[w] = "sinkAck" /\ SinkGroup(w, G)
    /\ IF \A e \in G : Ackable(e)
       THEN DeleteRows(G) /\ SettleRest(w, G)
       ELSE UNCHANGED outboxVars /\ SettleRest(w, Exhausted(w))
    /\ UNCHANGED <<entityVars, searchVars, cand, batch, job, sunk, faults>>

\* Mutant: the rows are acknowledged although the sink never took the failures.
SettleThrowsAcknowledged(w, G, released) ==
    /\ pc[w] \in {"settle", "sinkAck"} /\ SettleGroup(w, G)
    /\ Fault
    /\ DeleteRows(G)
    /\ SettleRest(w, G)
    /\ UNCHANGED <<entityVars, searchVars, cand, batch, job, sunk>>

\* Settling throws: the leases are released, unless that fails as well.
SettleThrows(w, G, released) ==
    /\ pc[w] \in {"settle", "sinkAck"} /\ SettleGroup(w, G)
    /\ Fault
    /\ IF released THEN Release(G, w) ELSE UNCHANGED outboxVars
    /\ SettleRest(w, G)
    /\ UNCHANGED <<entityVars, searchVars, cand, batch, job, sunk>>

----------------------------------------------------------------------------
\* A worker process dies; what it sent may still arrive.
Crash(w) ==
    /\ pc[w] # "idle"
    /\ Fault
    /\ Goto(w, "idle")
    /\ cand' = [cand EXCEPT ![w] = {}]
    /\ batch' = [batch EXCEPT ![w] = {}]
    /\ failed' = [failed EXCEPT ![w] = {}]
    /\ job' = [job EXCEPT ![w] = NoJob]
    /\ UNCHANGED <<outboxVars, entityVars, searchVars, sunk>>

\* The steps of a worker that no fault is needed for.
Work(w) ==
    \/ ScanOutbox(w)
    \/ \E e \in cand[w] : ClaimCandidate(w, e)
    \/ ClaimsDone(w)
    \/ \E e \in batch[w] : NextEvent(w, e)
    \/ ReserveRevision(w) \/ CasRevision(w) \/ CasConflict(w) \/ RevalidateLease(w)
    \/ ReservationRefused(w)
    \/ ReadEntity(w) \/ AppendRepair(w)
    \/ StartMutation(w) \/ LeaseGone(w) \/ CleanupRepair(w)
    \/ RenewLost(w) \/ MutationDone(w) \/ MutationDoneLost(w)
    \/ Acknowledge(w) \/ AcknowledgeRepair(w)
    \/ BatchDone(w)
    \/ \E G \in SUBSET failed[w] : Settle(w, G) \/ SinkAcknowledge(w, G)

Misfortune(w) ==
    \/ \E b \in BOOLEAN : ClaimFails(w, b) \/ MutationRejected(w, b) \/ AcknowledgeThrows(w, b)
    \/ AppendRepairThrows(w) \/ StoreThrows(w) \/ RenewThrows(w)
    \/ BeforeIndexThrows(w) \/ ReleaseThrows(w)
    \/ \E G \in SUBSET failed[w], b \in BOOLEAN : SettleThrows(w, G, b)
    \/ Crash(w)

Environment ==
    \/ \E d \in Docs : Write(d)
    \/ \E m \in net : ProcessMutation(m)
    \/ \E i \in Ids : LeaseLapses(i) \/ RetryFallsDue(i)

Next ==
    \/ Environment
    \/ \E w \in Workers : Work(w) \/ Renew(w) \/ Misfortune(w)

Spec == Init /\ [][Next]_vars

\* The backend answers, clocks advance and every worker process is run again and
\* again; nothing is assumed of faults, of renewals or of new writes.
Fairness ==
    /\ \A w \in Workers : WF_vars(Work(w))
    /\ WF_vars(\E m \in net : ProcessMutation(m))
    /\ \A i \in Ids : WF_vars(RetryFallsDue(i)) /\ WF_vars(LeaseLapses(i) /\ ~Held(i))

FairSpec == Spec /\ Fairness

----------------------------------------------------------------------------
(* Properties. *)

\* A document of the index that differs from its entity is owed: the outbox still
\* has a row for it (waiting, leased or dead-lettered), or the event of its last
\* write was handed to the dead-letter sink.  This is what leases, repair guards
\* and acknowledgements are for: no crash, timeout or late answer between the
\* commit of a write and its acknowledgement loses the update.
NoLostUpdate ==
    \A d \in Docs : search[d].ver # ver[d] =>
        \/ \E i \in Ids : IsRow(i) /\ rows[i].doc = d
        \/ last[d] \in sunk

\* What each failure costs the outbox: when no run is at work, at most one repair
\* row is left for each fault, so the guards of deliveries that went well, or lost
\* a race without a fault, never pile up.
OutboxBounded ==
    (\A w \in Workers : pc[w] = "idle") =>
        Cardinality({i \in Ids : IsRow(i) /\ rows[i].created # i}) <= faults

\* A document never goes back to an older version of its entity.  The worker
\* reserves its revision "before any authoritative read so an older snapshot can
\* never receive a newer fence than a concurrently reconciled document".
NoRegression == [][\A d \in Docs : search'[d].ver >= search[d].ver]_vars

\* Every update reaches the index: once writes and faults cease, each document
\* shows its entity's version for good and nothing of it stays in the outbox,
\* unless one of its events was dead-lettered.
GivenUp(d) == \/ \E i \in Ids : IsRow(i) /\ rows[i].doc = d /\ rows[i].dead
              \/ last[d] \in sunk

Converges == <>[](\A d \in Docs :
    \/ GivenUp(d)
    \/ search[d].ver = ver[d] /\ \A i \in Ids : IsRow(i) => rows[i].doc # d)

----------------------------------------------------------------------------
(* The contract this specification implements, and why it does. *)

Recorded(d) == (last[d] \in Ids /\ IsRow(last[d])) \/ last[d] \in sunk

\* A mutation fenced after the last write of d has reached the index.
Landed(d) == search[d].rev > base[d]

Contract == INSTANCE IndexContract WITH
    shown <- [d \in Docs |-> search[d].ver],
    owed <- [d \in Docs |-> ver[d] > 0 /\ ~Landed(d)],
    recorded <- [d \in Docs |-> Recorded(d)]

\* Workers, leases, repair guards and fences together keep the promise of
\* IndexContract: a write is recorded until its document shows it, and a document
\* that is not owed cannot be set back by anything still in flight.
ImplementsContract == Contract!Spec

\* A version read under revision r of d is the current one if r was reserved after
\* the last write: the fence that makes late mutations harmless.
Fenced(d, r, v) ==
    /\ r <= revision[d]
    /\ v <= ver[d]
    /\ r > base[d] => v = ver[d]

InvEntity ==
    \A d \in Docs :
        /\ base[d] <= revision[d]
        /\ last[d] < nextId
        /\ ver[d] > 0 => last[d] \in Ids
        /\ last[d] \in Ids /\ IsRow(last[d]) => rows[last[d]].doc = d
        /\ Fenced(d, search[d].rev, search[d].ver)
        /\ ver[d] > 0 => Recorded(d) \/ Landed(d)

InvNet == \A m \in net : Fenced(m.doc, m.rev, m.ver)

\* e is a snapshot of a row that was allocated before, and of the right document.
Known(e) == e.id < nextId /\ \A d \in Docs : last[d] = e.id => e.doc = d

Guarded  == {"before", "await", "lost", "ack", "ackRepair", "cleanup", "discard"}
HasRead  == Guarded \cup {"repair"}
Reserved == HasRead \cup {"revalidate", "read"}
AtWork   == Reserved \cup {"reserve", "bump"}

InvSnapshots(w) == \A e \in cand[w] \cup batch[w] \cup failed[w] : Known(e)

InvJob(w) ==
    LET j == job[w]
        d == job[w].ev.doc
    IN  /\ pc[w] \in AtWork => j.ev \in Event /\ Known(j.ev)
        /\ pc[w] \in Reserved => j.rsv <= revision[d] /\ (j.ev.id = last[d] => j.rsv > base[d])
        /\ pc[w] \in HasRead => Fenced(d, j.rsv, j.seen)
        /\ pc[w] \in Guarded => /\ j.rep \in Event /\ j.rep.id < nextId
                                /\ \A c \in Docs : j.rep.id # last[c]
        /\ pc[w] = "await" => Mutation(w) \in net \/ search[d].rev >= j.rsv
        /\ pc[w] \in {"ack", "ackRepair"} => search[d].rev >= j.rsv
        /\ pc[w] = "sinkAck" => /\ ExternalSink /\ Exhausted(w) # {}
                               /\ \A e \in Exhausted(w) : e.id \in sunk

\* Two deliveries of one document never share a revision.
InvUnique ==
    \A v, w \in Workers :
        v # w /\ pc[v] \in Reserved /\ pc[w] \in Reserved /\ job[v].ev.doc = job[w].ev.doc
            => job[v].rsv # job[w].rsv

\* The inductive invariant behind NoLostUpdate and ImplementsContract.
Inv == /\ TypeOK
       /\ InvEntity
       /\ InvNet
       /\ \A w \in Workers : InvSnapshots(w) /\ InvJob(w)
       /\ InvUnique
=============================================================================
