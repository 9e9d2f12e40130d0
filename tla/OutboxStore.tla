----------------------------- MODULE OutboxStore -----------------------------
(***************************************************************************)
(* The store-backed outbox (core/outbox-store.ts, core/outbox-protocol.ts):*)
(* durable event rows, leases on them and the per-document search revision *)
(* counters.  The module gives the state and the effect of every operation *)
(* of the leased delivery contract; SearchSync.tla composes it with the    *)
(* writers, the workers and the search backend that call it.               *)
(*                                                                         *)
(* A row carries the fields the code compares and changes.  Two facts that *)
(* the code derives from the clock are kept beside the rows, as sets of    *)
(* row ids: a lease whose leaseExpiresAt has passed is in `lapsed`, a      *)
(* retry whose availableAt lies in the future is in `delayed`.  Neither is *)
(* part of a row, so equality of records is isOutboxSnapshotCurrent.       *)
(***************************************************************************)
EXTENDS Naturals, FiniteSets

CONSTANTS
    Docs,           \* search documents (model + identity)
    Workers,        \* worker processes; a lease token is the run that took it
    MaxRows,        \* bound: event ids ever allocated
    MaxAttempts,    \* SearchSyncWorkerOptions.maxAttempts
    OptimisticLock, \* store capability: CAS rows (TRUE) or lease transactions
    NoRow,          \* the value of an id without a row
    NoToken         \* a row without leaseToken

Ids == 1..MaxRows

Event == [id: Ids, doc: Docs, created: Ids, version: Nat,
          token: Workers \cup {NoToken}, attempts: Nat, dead: BOOLEAN]

ASSUME OutboxAssumption ==
    /\ MaxRows \in Nat /\ MaxAttempts \in Nat \ {0}
    /\ OptimisticLock \in BOOLEAN
    /\ NoToken \notin Workers
    /\ NoRow \notin Event

VARIABLES
    rows,       \* [Ids -> Event \cup {NoRow}], the outbox table
    nextId,     \* the next fresh id; ids grow with `sequence`
    lapsed,     \* ids whose lease has expired
    delayed,    \* ids whose availableAt has not come yet
    revision    \* [Docs -> Nat], the search revision table; 0 is "no counter row"

outboxVars == <<rows, nextId, lapsed, delayed, revision>>

IsRow(i) == rows[i] # NoRow

\* The tables have their types; a row is filed under its id, and a dead letter
\* carries no lease.
OutboxTypeOK ==
    /\ rows \in [Ids -> Event \cup {NoRow}]
    /\ \A i \in Ids : IsRow(i) =>
           /\ rows[i].id = i
           /\ i < nextId
           /\ rows[i].dead => rows[i].token = NoToken
    /\ nextId \in 1..(MaxRows + 1)
    /\ lapsed \subseteq Ids
    /\ delayed \subseteq Ids
    /\ revision \in [Docs -> Nat]

OutboxInit ==
    /\ rows = [i \in Ids |-> NoRow]
    /\ nextId = 1
    /\ lapsed = {}
    /\ delayed = {}
    /\ revision = [d \in Docs |-> 0]

----------------------------------------------------------------------------
(* Rows and how the operations rewrite them. *)

\* The order of outboxListQueryPlan: createdAt, then sequence.
Before(e, f) == \/ e.created < f.created
                \/ e.created = f.created /\ e.id < f.id

FirstOf(e, S) == e \in S /\ \A f \in S : f = e \/ Before(e, f)

NewEvent(d, c) == [id |-> nextId, doc |-> d, created |-> c, version |-> 0,
                   token |-> NoToken, attempts |-> 0, dead |-> FALSE]

withOutboxLease(e, w) == [e EXCEPT !.version = @ + 1, !.token = w]

withoutOutboxLease(e) == [e EXCEPT !.version = @ + 1, !.token = NoToken]

\* The attempt number createSearchSyncDeliveryFailure computes.
Attempt(e) == IF e.attempts + 1 < MaxAttempts THEN e.attempts + 1 ELSE MaxAttempts

outboxRetryEvent(e) ==
    [e EXCEPT !.version = @ + 1, !.token = NoToken, !.attempts = Attempt(e), !.dead = FALSE]

outboxDeadLetterEvent(e) ==
    [e EXCEPT !.version = @ + 1, !.token = NoToken, !.attempts = Attempt(e), !.dead = TRUE]

\* Mutant: an expired lease still counts.
isOutboxLeaseTaken(i) == IsRow(i) /\ rows[i].token # NoToken

isOutboxLeaseActive(i) == IsRow(i) /\ rows[i].token # NoToken /\ i \notin lapsed

isLeaseCurrent(e) == rows[e.id] = e /\ isOutboxLeaseActive(e.id)

----------------------------------------------------------------------------
(* Operations.  Each is the effect of one call on the outbox tables. *)

\* append, appendTransactional: create a row with a fresh id.
Append(d, c) ==
    /\ nextId <= MaxRows
    /\ rows' = [rows EXCEPT ![nextId] = NewEvent(d, c)]
    /\ nextId' = nextId + 1
    /\ UNCHANGED <<lapsed, delayed, revision>>

\* The events one lease() scan tries to claim.  Dead letters are skipped; the
\* first other row of a document either is a candidate or blocks the document,
\* and every later row of the document is blocked.
LeaseCandidates ==
    LET pending == {rows[i] : i \in {k \in Ids : IsRow(k) /\ ~rows[k].dead}}
        head(e) == \A f \in pending : f.doc = e.doc => f = e \/ Before(e, f)
    IN  {e \in pending : head(e) /\ e.id \notin delayed /\ ~isOutboxLeaseActive(e.id)}

\* claimOutboxLease on the scanned snapshot e: get, compare, compare-and-swap.
Claimable(e) ==
    rows[e.id] = e /\ ~e.dead /\ e.id \notin delayed /\ ~isOutboxLeaseActive(e.id)

ClaimLease(e, w) ==
    /\ Claimable(e)
    /\ rows' = [rows EXCEPT ![e.id] = withOutboxLease(e, w)]
    /\ lapsed' = lapsed \ {e.id}
    /\ UNCHANGED <<nextId, delayed, revision>>

\* renewLease on a current lease.
RenewLease(e) ==
    /\ isLeaseCurrent(e)
    /\ rows' = [rows EXCEPT ![e.id] = withOutboxLease(e, e.token)]
    /\ UNCHANGED <<nextId, lapsed, delayed, revision>>

\* release: drop the lease of every row in S that still has token w, whatever
\* else changed in the row since it was leased.
Releasable(S, w) == {i \in Ids : IsRow(i) /\ rows[i].token = w /\ \E e \in S : e.id = i}

Release(S, w) ==
    /\ rows' = [i \in Ids |-> IF i \in Releasable(S, w)
                              THEN withoutOutboxLease(rows[i]) ELSE rows[i]]
    /\ lapsed' = lapsed \ Releasable(S, w)
    /\ UNCHANGED <<nextId, delayed, revision>>

\* settleDeliveryFailures: of the failed deliveries in S, the rows that are
\* still exactly the failed snapshot are rescheduled or dead-lettered.
Settleable(S) == {e \in S : rows[e.id] = e}

Retry(S) ==
    LET hit == {e.id : e \in Settleable(S)}
    IN  /\ rows' = [i \in Ids |-> IF i \in hit THEN outboxRetryEvent(rows[i]) ELSE rows[i]]
        /\ lapsed' = lapsed \ hit
        /\ delayed' = delayed \cup hit
        /\ UNCHANGED <<nextId, revision>>

DeadLetter(S) ==
    LET hit == {e.id : e \in Settleable(S)}
    IN  /\ rows' = [i \in Ids |-> IF i \in hit THEN outboxDeadLetterEvent(rows[i]) ELSE rows[i]]
        /\ lapsed' = lapsed \ hit
        /\ delayed' = delayed \ hit
        /\ UNCHANGED <<nextId, revision>>

\* ack: a leased snapshot must still be the row and its lease alive, an
\* unleased one (a repair guard) must still be the row.
Ackable(e) == IF e.token = NoToken THEN rows[e.id] = e ELSE isLeaseCurrent(e)

DeleteRows(S) ==
    LET gone == {e.id : e \in S}
    IN  /\ rows' = [i \in Ids |-> IF i \in gone THEN NoRow ELSE rows[i]]
        /\ lapsed' = lapsed \ gone
        /\ delayed' = delayed \ gone
        /\ UNCHANGED <<nextId, revision>>

\* reserveSearchRevision, the counter update.
BumpRevision(d) ==
    /\ revision' = [revision EXCEPT ![d] = @ + 1]
    /\ UNCHANGED <<rows, nextId, lapsed, delayed>>

\* The clock passes leaseExpiresAt or availableAt of row i.
LapseLease(i) ==
    /\ isOutboxLeaseActive(i)
    /\ lapsed' = lapsed \cup {i}
    /\ UNCHANGED <<rows, nextId, delayed, revision>>

ReachAvailableAt(i) ==
    /\ i \in delayed
    /\ delayed' = delayed \ {i}
    /\ UNCHANGED <<rows, nextId, lapsed, revision>>
=============================================================================
